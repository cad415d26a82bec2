SPECIFICATION MCSpec
CONSTANTS
  adm = adm  bob = bob  cid = cid  s1 = s1  s2 = s2  s3 = s3  g1 = g1
  User = {adm, bob, cid}  Studio = {s1, s2, s3}
  Admin = {adm}  Quick = {adm}
  StudiosOf <- MCStudiosOf
  MaxDeeds = 4  MaxFaults = 1
  None = None
  AtFirst = {adm, bob}  Listed = {s2}  Titles = {g1}
  HomeOfGame <- MCHomeOfGame  Fee = Fee  Due = {bob}
  MaxActs = 3
INVARIANTS SessionsFitTogether
PROPERTIES RedirectsEnd OwnersGetActivated AnAdminIsLeft
CHECK_DEADLOCK FALSE
