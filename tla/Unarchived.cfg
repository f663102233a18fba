SPECIFICATION ArchiveOnly
CONSTANTS
  yes1 = yes1
  yes2 = yes2
  yes3 = yes3
  no1 = no1
  Requests = {yes1, yes2, yes3, no1}
  Confirming = {yes1, yes2, yes3}
  Tools = {"plain", "committing", "retired"}
  MaxMishaps = 2
  w1 = w1
  w2 = w2
  email = email
  sms = sms
  Workers = {w1, w2}
  NoWorker = NoWorker
  LastRow = 2
  Kinds = {email, sms}
  Kind <- SmsFirst
  Batch = 2
  MaxAttempts = 2
  Replies <- AnyReply
  Settings = {{email}, {email, sms}}
  MaxFailures = 1
PROPERTIES
  TheSweepGuarantees
