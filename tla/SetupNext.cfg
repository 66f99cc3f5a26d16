SPECIFICATION Spec
CONSTANT NServers = 3
PROPERTY NextServerTried
