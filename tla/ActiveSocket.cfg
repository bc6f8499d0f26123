SPECIFICATION ServerSpec
CONSTANTS
  Servers = {service, developer}
  Service = service
  service = service
  developer = developer
  Conns = {}
  Probe = Probe
  NoConn = NoConn
  NoFile = NoFile
  Foreign = Foreign
  Backlog = 0
  MaxStarts = 2
PROPERTY ActiveSocketIsKept
CHECK_DEADLOCK FALSE
