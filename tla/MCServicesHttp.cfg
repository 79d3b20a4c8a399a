SPECIFICATION Spec
CONSTANTS
  Services = {"frontend", "api", "words"}
  Requests = {r1}
PROPERTY
  WebGraceful
