SPECIFICATION Spec
SYMMETRY Interchangeable
CONSTANTS
  Emails = {e1}
  Clients = {c1}
  Sessions = {s1, s2}
  Invitations = {i1, i2}
  Requests = {r1, r2}
  NoEmail = NoEmail
  NoClient = NoClient
  NoSession = NoSession
  NoInvitation = NoInvitation
  NoRequest = NoRequest
  MaxTokens = 3
  MaxLinks = 2
  MaxStarts = 5
  MaxEdits = 2
  MaxFaults = 1
INVARIANTS
  SignOutEndsSession
  NewestTokenIsDelivered
  AccountClosesInvitations
PROPERTIES
  DisablingEndsSessions
  NewestLinkIsAccepted
CHECK_DEADLOCK FALSE
