SPECIFICATION FairSpec
CONSTANTS
  IPv4 = {"0.0.0.0", "127.0.0.1"}
  IPv6 = {"::1"}
  FileName = {"sample_payloads.json", "odd", "signs", "bare", "spoilt", "single", "empty", "notJson", "noFile"}
  Payload <- MCPayload
  Content <- MCContent
  NoFile = NoFile
  NotJson = NotJson
  NotGiven = NotGiven
  Word = Word
  Publisher = {"one", "two"}
  Local = {"0.0.0.0", "127.0.0.1"}
  ServerPort = 8080
  Ephemeral = {40000}
  QueueLength = 2
  Unbound = Unbound
  CommandLines <- MCCommandLines
  Line <- MCLine
  Exit = Exit
  EndOfFile = EndOfFile
  MaxLines = 2
  MaxSent = 2
  Topic = {"a", "b"}
  NoTopic = NoTopic
  BufferLength = 9
  NoText = NoText
  NoJob = NoJob
  Forever = Forever
  Malformed = Malformed
INVARIANTS
  PInv
  FailuresAreFinal
  ManualObeys
  Conservation
  AnnouncesWhatWasSent
PROPERTIES
  ImplementsWorkload
  ImplementsArrivals
  RunsEnd
CHECK_DEADLOCK FALSE
