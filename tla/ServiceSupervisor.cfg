CONSTANTS
  Faults = {"create", "wait", "clock", "mute", "late"}
  MaxLinkEvents = 4
  MaxUploads = 1
SPECIFICATION SupervisorSpec

 
PROPERTY StaleIsRebuilt
 
