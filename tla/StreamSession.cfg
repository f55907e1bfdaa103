SPECIFICATION Spec
CONSTANTS
  MaxRequests = 6
  MaxDisturbed = 3

  
  
PROPERTIES
  RequestAnswered
CHECK_DEADLOCK FALSE
