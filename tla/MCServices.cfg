SPECIFICATION ProcessSpec
CONSTANTS
  nas = nas
  gamespy = gamespy
  natneg = natneg
  Services = {nas, gamespy, natneg}
  Kind <- MCKind
  NoService = NoService
  MaxBuffer = 8
  Protocols <- MCProtocols
  Letters <- MCLetters
  Scripts <- MCScripts
  Symbols <- MCSymbols
  Requests <- MCRequests
  LengthLines <- MCLengthLines
  MaxHeader = 5
  Rooms = {1, 8}
INVARIANTS TypeOK ExitTellsAll ReturnsHaveReasons HandlesWhatWasSent DroppedForCause HostOnce OnlyHostsDropped
PROPERTY StopTogether
CHECK_DEADLOCK FALSE
