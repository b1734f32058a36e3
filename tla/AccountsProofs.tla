--------------------------- MODULE AccountsProofs ---------------------------
(***************************************************************************)
(* Theorems of Accounts, for every set of addresses, browsers, rows and    *)
(* requests and every bound.                                               *)
(***************************************************************************)
EXTENDS Accounts, TLAPS

USE DEF rows, counts

----------------------------------------------------------------------------
(* Types. *)

Typed(x) == x \in RequestRows /\ HoldsItsData(x)

Counted == starts \in 0..MaxStarts /\ edits \in 0..MaxEdits /\ faults \in 0..MaxFaults

Requested == request \in [Requests -> RequestRows] /\ \A r \in Requests : HoldsItsData(request[r])

LEMMA StepNames ==
  /\ ClientSteps \subseteq Steps /\ WaitingSteps \subseteq Steps
  /\ LockedSteps \subseteq Steps /\ "idle" \in Steps
  /\ SessionSteps \subseteq ClientSteps /\ SignOutSteps \subseteq ClientSteps
  BY DEF Steps, ClientSteps

LEMMA Numbers ==
  /\ 0 \in 0..MaxTokens /\ 1 \in 0..MaxTokens /\ 1..MaxTokens \subseteq 0..MaxTokens
  /\ 0 \in 0..MaxLinks /\ 1..MaxLinks \subseteq 0..MaxLinks
  /\ 1 \in 1..MaxTokens /\ 1 \in 1..MaxLinks
  BY AccountBounds

LEMMA IdleType == Typed(IdleRequest)
<1>1. IdleRequest \in RequestRows
  BY StepNames, Numbers DEF IdleRequest, RequestRows
<1>2. HoldsItsData(IdleRequest)
  BY DEF IdleRequest, HoldsItsData, ClientSteps, SessionSteps, SignOutSteps, AddressSteps,
         WaitingSteps, LockedSteps
<1> QED BY <1>1, <1>2 DEF Typed

LEMMA InitType == Init => TypeOK
<1> SUFFICES ASSUME Init PROVE TypeOK
  OBVIOUS
<1>1. Requested
  BY IdleType DEF Init, Requested, Typed
<1>2. cookies \in [Clients -> Cookies]
  BY AccountBounds DEF Init, NoCookies, Cookies
<1>3. Counted
  BY AccountBounds DEF Init, Counted
<1> QED BY <1>1, <1>2, <1>3 DEF Init, TypeOK, Requested, Counted, SessionRows, InvitationRows

LEMMA RequestType ==
  ASSUME Requested, NEW r \in Requests, NEW x, Typed(x),
         request' = [request EXCEPT ![r] = x]
  PROVE  Requested'
  BY DEF Requested, Typed, HoldsItsData

LEMMA StartType ==
  ASSUME TypeOK, NEW r \in Requests, NEW x, Typed(x), Start(r, x)
  PROVE  Requested' /\ Counted'
<1>1. Requested /\ Counted
  BY DEF TypeOK, Requested, Counted
<1>2. Requested'
  BY <1>1, RequestType DEF Start
<1>3. Counted'
  BY <1>1, AccountBounds DEF Start, Counted
<1> QED BY <1>2, <1>3

LEMMA FinishType ==
  ASSUME TypeOK, NEW r \in Requests, Finish(r)
  PROVE  Requested' /\ Counted'
<1>1. Requested /\ Counted
  BY DEF TypeOK, Requested, Counted
<1> QED BY <1>1, RequestType, IdleType DEF Finish, Counted

LEMMA ContinueType ==
  ASSUME TypeOK, NEW r \in Requests, NEW pc, Continue(r, pc),
         Typed([request[r] EXCEPT !.pc = pc])
  PROVE  Requested' /\ Counted'
<1>1. Requested /\ Counted
  BY DEF TypeOK, Requested, Counted
<1>2. request' = [request EXCEPT ![r] = [request[r] EXCEPT !.pc = pc]]
  BY DEF Continue
<1> QED BY <1>1, <1>2, RequestType DEF Continue, Counted

RowsTyped ==
  /\ user \in [Emails -> {"absent", "enabled", "disabled"}]
  /\ session \in [Sessions -> SessionRows]
  /\ invitation \in [Invitations -> InvitationRows]

WebTyped ==
  /\ cookies \in [Clients -> Cookies]
  /\ emailLock \in [Emails -> Requests \cup {NoRequest}]

LEMMA TypeParts == TypeOK <=> Requested /\ Counted /\ RowsTyped /\ WebTyped
  BY DEF TypeOK, Requested, Counted, RowsTyped, WebTyped

LEMMA NextTypeParts == TypeOK' <=> Requested' /\ Counted' /\ RowsTyped' /\ WebTyped'
  BY DEF TypeOK, Requested, Counted, RowsTyped, WebTyped

LEMMA KeptRows == TypeOK /\ UNCHANGED rows => RowsTyped'
  BY DEF TypeOK, RowsTyped

LEMMA KeptWeb == TypeOK /\ UNCHANGED <<cookies, emailLock>> => WebTyped'
  BY DEF TypeOK, WebTyped

\* A row that is not free has its data.
LEMMA SessionRow ==
  ASSUME TypeOK, NEW s \in Sessions, Live(s)
  PROVE  /\ session[s].email \in Emails /\ session[s].token \in 1..MaxTokens
         /\ session[s] \in [row : {"live", "deleted"}, email : Emails, token : 1..MaxTokens,
                            expired : BOOLEAN]
  BY DEF TypeOK, SessionRows, Live, NoSessionRow

LEMMA DeletedType ==
  ASSUME TypeOK, NEW s
  PROVE  Deleted(s) \in [Sessions -> SessionRows]
<1>1. CASE Live(s)
  <2>1. s \in Sessions
    BY <1>1 DEF Live
  <2>2. [session[s] EXCEPT !.row = "deleted"] \in SessionRows
    BY <1>1, <2>1, SessionRow DEF SessionRows
  <2> QED BY <1>1, <2>1, <2>2 DEF Deleted, TypeOK
<1>2. CASE ~Live(s)
  BY <1>2 DEF Deleted, TypeOK
<1> QED BY <1>1, <1>2

LEMMA OpenRow ==
  ASSUME TypeOK, NEW i \in Invitations, Open(i)
  PROVE  invitation[i] \in [row : {"open", "accepted", "revoked"}, email : Emails,
                            link : 1..MaxLinks, expired : BOOLEAN]
  BY DEF TypeOK, InvitationRows, NoInvitationRow, Open

LEMMA InvitationRow ==
  ASSUME TypeOK, NEW i \in Invitations, Open(i)
  PROVE  /\ invitation[i].email \in Emails /\ invitation[i].link \in 1..MaxLinks
         /\ \A row \in {"open", "accepted", "revoked"} :
              [invitation[i] EXCEPT !.row = row] \in InvitationRows
  BY OpenRow DEF InvitationRows

LEMMA RequestRow ==
  ASSUME TypeOK, NEW r \in Requests
  PROVE  Typed(request[r])
  BY DEF TypeOK, Typed

LEMMA SessionRequestType ==
  ASSUME TypeOK, NEW r \in Requests, SessionRequest(r)
  PROVE  TypeOK'
<1>a. /\ request[r] \in RequestRows /\ HoldsItsData(request[r])
      /\ IdleRequest \in RequestRows
  BY RequestRow, IdleType DEF Typed
<1>b. {"insertSession", "rotate", "deleteRefresh", "deleteAccess", "clearCookies", "respond",
       "checkUser"} \subseteq Steps
  BY DEF Steps, ClientSteps, SessionSteps, SignOutSteps
<1>1. ASSUME NEW c \in Clients, StartRefresh(r, c) PROVE TypeOK'
  <2> DEFINE x == [IdleRequest EXCEPT !.pc = "rotate", !.client = c,
                                      !.session = cookies[c].session,
                                      !.token = cookies[c].token]
  <2>1. cookies[c] \in Cookies /\ cookies[c].session # NoSession
    BY <1>1 DEF StartRefresh, TypeOK
  <2>2. x \in RequestRows
    BY <2>1, <1>a, <1>b DEF RequestRows, IdleRequest, Cookies
  <2>3. HoldsItsData(x)
    BY <2>1 DEF HoldsItsData, IdleRequest, Cookies, ClientSteps, SessionSteps, SignOutSteps,
           AddressSteps, WaitingSteps, LockedSteps
  <2>4. Requested' /\ Counted'
    BY <1>1, <2>2, <2>3, StartType DEF StartRefresh, Typed
  <2> QED BY <1>1, <2>4, KeptRows, KeptWeb, NextTypeParts DEF StartRefresh
<1>2. ASSUME NEW c \in Clients, StartSignOut(r, c) PROVE TypeOK'
  <2> DEFINE x == [IdleRequest EXCEPT !.pc = "deleteRefresh", !.client = c,
                                      !.access = cookies[c].access,
                                      !.session = cookies[c].session,
                                      !.token = cookies[c].token]
  <2>1. cookies[c] \in Cookies
    BY DEF TypeOK
  <2>2. x \in RequestRows
    BY <2>1, <1>a, <1>b DEF RequestRows, IdleRequest, Cookies
  <2>3. HoldsItsData(x)
    BY DEF HoldsItsData, IdleRequest, ClientSteps, SessionSteps, SignOutSteps,
           AddressSteps, WaitingSteps, LockedSteps
  <2>4. Requested' /\ Counted'
    BY <1>2, <2>2, <2>3, StartType DEF StartSignOut, Typed
  <2> QED BY <1>2, <2>4, KeptRows, KeptWeb, NextTypeParts DEF StartSignOut
<1>3. ASSUME NEW c \in Clients, NEW e \in Emails, SignInReads(r, c, e) PROVE TypeOK'
  <2> DEFINE x == [IdleRequest EXCEPT !.pc = "insertSession", !.client = c, !.email = e]
  <2>1. x \in RequestRows
    BY <1>a, <1>b DEF RequestRows, IdleRequest
  <2>2. HoldsItsData(x)
    BY DEF HoldsItsData, IdleRequest, ClientSteps, SessionSteps, SignOutSteps,
           AddressSteps, WaitingSteps, LockedSteps
  <2>3. Requested' /\ Counted'
    BY <1>3, <2>1, <2>2, StartType DEF SignInReads, Typed
  <2> QED BY <1>3, <2>3, KeptRows, KeptWeb, NextTypeParts DEF SignInReads
<1>4. ASSUME NEW s \in Sessions, InsertSession(r, s) PROVE TypeOK'
  <2> DEFINE x == [request[r] EXCEPT !.pc = "respond", !.session = s, !.token = 1]
  <2>1. x \in RequestRows
    BY <1>a, <1>b, Numbers DEF RequestRows
  <2>2. HoldsItsData(x) /\ request[r].email \in Emails
    BY <1>4, <1>a DEF InsertSession, RequestRows, HoldsItsData, ClientSteps, SessionSteps, SignOutSteps,
           AddressSteps, WaitingSteps, LockedSteps
  <2>3. Requested' /\ Counted'
    BY <1>4, <2>1, <2>2, RequestType, TypeParts DEF InsertSession, Counted, Typed
  <2>4. RowsTyped'
    BY <1>4, <2>2, Numbers, TypeParts DEF InsertSession, RowsTyped, SessionRows
  <2> QED BY <1>4, <2>3, <2>4, KeptWeb, NextTypeParts DEF InsertSession
<1>5. CASE Respond(r)
  <2>1. Requested' /\ Counted'
    BY <1>5, FinishType DEF Respond
  <2>2. request[r].session \in Sessions /\ request[r].token \in 0..MaxTokens
    BY <1>5, <1>a DEF Respond, RequestRows, HoldsItsData, SessionSteps
  <2>3. WebTyped'
    BY <1>5, <2>2, TypeParts DEF Respond, WebTyped, Cookies
  <2> QED BY <1>5, <2>1, <2>3, KeptRows, NextTypeParts DEF Respond
<1>6. CASE Rotate(r)
  <2> DEFINE s == request[r].session
             x == [request[r] EXCEPT !.pc = "checkUser", !.email = session[s].email,
                                     !.token = session[s].token + 1]
  <2>1. s \in Sessions /\ request[r].client \in Clients
    BY <1>6, <1>a DEF Rotate, HoldsItsData, ClientSteps, SessionSteps
  <2>2. CASE Finish(r) /\ session' \in {session, Deleted(s)}
    <3>1. RowsTyped'
      BY <1>6, <2>2, DeletedType, TypeParts DEF Rotate, RowsTyped
    <3> QED BY <1>6, <2>2, <3>1, FinishType, KeptWeb, NextTypeParts DEF Rotate
  <2>3. CASE /\ Live(s) /\ session[s].token < MaxTokens
             /\ session' = [session EXCEPT ![s].token = @ + 1]
             /\ request' = [request EXCEPT ![r] = x]
             /\ UNCHANGED counts
    <3>1. session[s] \in [row : {"live", "deleted"}, email : Emails,
                          token : 1..MaxTokens, expired : BOOLEAN]
      BY <2>1, <2>3, SessionRow
    <3>2. session[s].email \in Emails /\ session[s].token + 1 \in 1..MaxTokens
      BY <3>1, <2>3, AccountBounds
    <3>3. x \in RequestRows
      BY <1>a, <1>b, <3>2, Numbers DEF RequestRows
    <3>4. HoldsItsData(x)
      BY <1>a, <2>1, <3>2 DEF HoldsItsData, RequestRows, ClientSteps, SessionSteps, SignOutSteps,
           AddressSteps, WaitingSteps, LockedSteps
    <3>5. Requested' /\ Counted'
      BY <2>3, <3>3, <3>4, RequestType, TypeParts DEF Counted, Typed
    <3>6. [session[s] EXCEPT !.token = session[s].token + 1] \in SessionRows
      BY <3>1, <3>2 DEF SessionRows
    <3>7. RowsTyped'
      BY <1>6, <2>3, <2>1, <3>6, TypeParts DEF Rotate, RowsTyped
    <3> QED BY <1>6, <3>5, <3>7, KeptWeb, NextTypeParts DEF Rotate
  <2> QED BY <1>6, <2>2, <2>3 DEF Rotate, TokenMatches
<1>7. CASE CheckUser(r)
  <2> DEFINE x == [request[r] EXCEPT !.pc = "respond"]
  <2>1. x \in RequestRows
    BY <1>a, <1>b DEF RequestRows
  <2>2. HoldsItsData(x)
    BY <1>7, <1>a DEF CheckUser, RequestRows, HoldsItsData, ClientSteps, SessionSteps, SignOutSteps,
           AddressSteps, WaitingSteps, LockedSteps
  <2>3. Requested' /\ Counted'
    BY <1>7, <2>1, <2>2, ContinueType, FinishType DEF CheckUser, Typed
  <2>4. RowsTyped'
    BY <1>7, DeletedType, TypeParts DEF CheckUser, RowsTyped
  <2> QED BY <1>7, <2>3, <2>4, KeptWeb, NextTypeParts DEF CheckUser
<1>8. CASE DeleteByRefresh(r) \/ DeleteByAccess(r)
  <2>1. PICK pc \in {"deleteAccess", "clearCookies"} :
          Continue(r, pc) /\ request[r].pc \in {"deleteRefresh", "deleteAccess"}
    BY <1>8 DEF DeleteByRefresh, DeleteByAccess
  <2> DEFINE x == [request[r] EXCEPT !.pc = pc]
  <2>2. x \in RequestRows
    BY <2>1, <1>a, <1>b DEF RequestRows
  <2>3. HoldsItsData(x)
    BY <2>1, <1>a DEF RequestRows, HoldsItsData, ClientSteps, SessionSteps, SignOutSteps,
           AddressSteps, WaitingSteps, LockedSteps
  <2>4. Requested' /\ Counted'
    BY <2>1, <2>2, <2>3, ContinueType DEF Typed
  <2>5. RowsTyped'
    BY <1>8, DeletedType, TypeParts DEF DeleteByRefresh, DeleteByAccess, RowsTyped
  <2> QED BY <1>8, <2>4, <2>5, KeptWeb, NextTypeParts DEF DeleteByRefresh, DeleteByAccess
<1>9. CASE ClearCookies(r)
  <2>1. NoCookies \in Cookies
    BY Numbers DEF NoCookies, Cookies
  <2>2. WebTyped'
    BY <1>9, <2>1, TypeParts DEF ClearCookies, WebTyped
  <2> QED BY <1>9, <2>2, FinishType, KeptRows, NextTypeParts DEF ClearCookies
<1> QED BY <1>1, <1>2, <1>3, <1>4, <1>5, <1>6, <1>7, <1>8, <1>9 DEF SessionRequest

LEMMA InvitationRequestType ==
  ASSUME TypeOK, NEW r \in Requests, InvitationRequest(r)
  PROVE  TypeOK'
<1>a. /\ request[r] \in RequestRows /\ HoldsItsData(request[r])
      /\ IdleRequest \in RequestRows
  BY RequestRow, IdleType DEF Typed
<1>b. WaitingSteps \cup LockedSteps \subseteq Steps
  BY StepNames
<1>1. ASSUME NEW e \in Emails, NEW pc \in {"inviteLock", "createLock"},
             Start(r, [IdleRequest EXCEPT !.pc = pc, !.email = e]),
             UNCHANGED <<rows, cookies, emailLock>>
      PROVE  TypeOK'
  <2> DEFINE x == [IdleRequest EXCEPT !.pc = pc, !.email = e]
  <2>1. x \in RequestRows
    BY <1>a, <1>b DEF RequestRows, IdleRequest, WaitingSteps
  <2>2. HoldsItsData(x)
    BY DEF HoldsItsData, IdleRequest, ClientSteps, SessionSteps, SignOutSteps,
           AddressSteps, WaitingSteps, LockedSteps
  <2>3. Requested' /\ Counted'
    BY <1>1, <2>1, <2>2, StartType DEF Typed
  <2> QED BY <1>1, <2>3, KeptRows, KeptWeb, NextTypeParts
<1>2. ASSUME NEW i \in Invitations, PreviewLink(r, i) PROVE TypeOK'
  <2> DEFINE x == [IdleRequest EXCEPT !.pc = "acceptLock", !.email = invitation[i].email,
                                      !.invitation = i, !.link = invitation[i].link]
  <2>1. invitation[i].email \in Emails /\ invitation[i].link \in 1..MaxLinks
    BY <1>2, InvitationRow DEF PreviewLink, Open
  <2>2. x \in RequestRows
    BY <1>a, <1>b, <2>1, Numbers DEF RequestRows, IdleRequest, WaitingSteps
  <2>3. HoldsItsData(x)
    BY <2>1 DEF HoldsItsData, IdleRequest, ClientSteps, SessionSteps, SignOutSteps,
           AddressSteps, WaitingSteps, LockedSteps
  <2>4. Requested' /\ Counted'
    BY <1>2, <2>2, <2>3, StartType DEF PreviewLink, Typed
  <2> QED BY <1>2, <2>4, KeptRows, KeptWeb, NextTypeParts DEF PreviewLink
<1>3. CASE TakeEmailLock(r)
  <2> DEFINE x == [request[r] EXCEPT !.pc = FirstStep(request[r].pc)]
  <2>1. /\ request[r].pc \in WaitingSteps
        /\ FirstStep(request[r].pc) \in {"inviteReads", "createCommits", "acceptCommits"}
        /\ FirstStep(request[r].pc) = "acceptCommits" => request[r].pc = "acceptLock"
    BY <1>3 DEF TakeEmailLock, WaitingSteps, FirstStep
  <2>2. x \in RequestRows
    BY <1>a, <1>b, <2>1 DEF RequestRows, LockedSteps
  <2>3. HoldsItsData(x)
    BY <1>a, <2>1 DEF HoldsItsData, RequestRows, ClientSteps, SessionSteps, SignOutSteps,
           AddressSteps, WaitingSteps, LockedSteps
  <2>4. Requested' /\ Counted'
    BY <1>3, <2>2, <2>3, ContinueType DEF TakeEmailLock, Typed
  <2>5. WebTyped'
    BY <1>3, TypeParts DEF TakeEmailLock, WebTyped
  <2> QED BY <1>3, <2>4, <2>5, KeptRows, NextTypeParts DEF TakeEmailLock
<1>4. CASE EmailIsBusy(r) \/ ReleaseEmailLock(r)
  <2>1. WebTyped'
    BY <1>4, TypeParts DEF EmailIsBusy, ReleaseEmailLock, WebTyped
  <2> QED BY <1>4, <2>1, FinishType, KeptRows, NextTypeParts DEF EmailIsBusy, ReleaseEmailLock
<1>5. ASSUME request[r].pc \in LockedSteps, Continue(r, "release") PROVE Requested' /\ Counted'
  <2> DEFINE x == [request[r] EXCEPT !.pc = "release"]
  <2>1. x \in RequestRows
    BY <1>a, <1>b DEF RequestRows, LockedSteps
  <2>2. HoldsItsData(x)
    BY <1>a, <1>5 DEF HoldsItsData, RequestRows, ClientSteps, SessionSteps, SignOutSteps,
           AddressSteps, WaitingSteps, LockedSteps
  <2> QED BY <1>5, <2>1, <2>2, ContinueType DEF Typed
<1>6. CASE InviteReads(r)
  <2> DEFINE x == [request[r] EXCEPT !.pc = "inviteWrites", !.seen = OpenFor(request[r].email)]
  <2>1. x \in RequestRows
    BY <1>a, <1>b DEF RequestRows, LockedSteps, OpenFor
  <2>2. HoldsItsData(x)
    BY <1>a, <1>6 DEF InviteReads, HoldsItsData, RequestRows, ClientSteps, SessionSteps, SignOutSteps,
           AddressSteps, WaitingSteps, LockedSteps
  <2>3. Requested' /\ Counted'
    <3>1. CASE Continue(r, "release")
      BY <1>6, <3>1, <1>5 DEF InviteReads, LockedSteps
    <3>2. CASE request' = [request EXCEPT ![r] = x] /\ UNCHANGED counts
      BY <3>2, <2>1, <2>2, RequestType, TypeParts DEF Counted, Typed
    <3> QED BY <1>6, <3>1, <3>2 DEF InviteReads
  <2> QED BY <1>6, <2>3, KeptRows, KeptWeb, NextTypeParts DEF InviteReads
<1>7. ASSUME NEW e \in Emails PROVE [row |-> "open", email |-> e, link |-> 1, expired |-> FALSE]
                                   \in InvitationRows
  BY Numbers DEF InvitationRows
<1>8. \A i \in Invitations : \A e : i \in OpenFor(e) =>
        /\ [invitation[i] EXCEPT !.row = "revoked"] \in InvitationRows
        /\ [invitation[i] EXCEPT !.row = "accepted"] \in InvitationRows
  BY InvitationRow DEF OpenFor, Open
<1>9. CASE InviteWrites(r)
  <2>1. request[r].email \in Emails
    BY <1>9, <1>a DEF InviteWrites, HoldsItsData, AddressSteps, LockedSteps
  <2>2. invitation' \in [Invitations -> InvitationRows]
    BY <1>9, <2>1, <1>7, <1>8, TypeParts DEF InviteWrites, RowsTyped
  <2>3. RowsTyped'
    BY <1>9, <2>2, TypeParts DEF InviteWrites, RowsTyped
  <2> QED BY <1>9, <1>5, <2>3, KeptWeb, NextTypeParts DEF InviteWrites, LockedSteps
<1>10. CASE AcceptCommits(r)
  <2>1. RowsTyped'
    <3> DEFINE i == request[r].invitation
    <3>1. Open(i) => [invitation[i] EXCEPT !.row = "accepted"] \in InvitationRows
      BY InvitationRow DEF Open
    <3>2. CASE UNCHANGED <<user, invitation>>
      BY <1>10, <3>2, TypeParts DEF AcceptCommits, RowsTyped
    <3>3. CASE /\ Open(i)
               /\ user' = [user EXCEPT ![request[r].email] = "enabled"]
               /\ invitation' = [invitation EXCEPT ![i].row = "accepted"]
      <4>1. session' = session
        BY <1>10 DEF AcceptCommits
      <4> QED BY <3>1, <3>3, <4>1, TypeParts DEF RowsTyped
    <3> QED BY <1>10, <3>2, <3>3 DEF AcceptCommits
  <2>2. "release" \in LockedSteps /\ request[r].pc \in LockedSteps
    BY <1>10 DEF AcceptCommits, LockedSteps
  <2>3. Requested' /\ Counted'
    BY <1>10, <1>5, <2>2 DEF AcceptCommits
  <2> QED BY <1>10, <2>1, <2>3, KeptWeb, NextTypeParts DEF AcceptCommits
<1>11. CASE CreateCommits(r)
  <2>1. invitation' \in [Invitations -> InvitationRows]
    BY <1>11, <1>8, TypeParts DEF CreateCommits, RowsTyped
  <2>2. RowsTyped'
    <3>1. user' = [user EXCEPT ![request[r].email] = "enabled"] \/ user' = user
      BY <1>11 DEF CreateCommits
    <3>2. user' \in [Emails -> {"absent", "enabled", "disabled"}]
      BY <3>1, TypeParts DEF RowsTyped
    <3>3. session' = session
      BY <1>11 DEF CreateCommits
    <3> QED BY <2>1, <3>2, <3>3, TypeParts DEF RowsTyped
  <2> QED BY <1>11, <1>5, <2>2, KeptWeb, NextTypeParts DEF CreateCommits, LockedSteps
<1> QED
  BY <1>1, <1>2, <1>3, <1>4, <1>6, <1>9, <1>10, <1>11
     DEF InvitationRequest, StartInvitation, StartUser

LEMMA OthersType ==
  ASSUME TypeOK,
         TimePasses \/ Administration \/ \E r \in Requests : RequestFails(r)
  PROVE  TypeOK'
<1>1. ASSUME NEW c \in Clients, AccessExpires(c) PROVE TypeOK'
  <2>1. WebTyped'
    BY <1>1, TypeParts DEF AccessExpires, WebTyped, Cookies
  <2> QED BY <1>1, <2>1, KeptRows, TypeParts, NextTypeParts
          DEF AccessExpires, Requested, Counted
<1>2. ASSUME NEW s \in Sessions, SessionExpires(s) PROVE TypeOK'
  <2>1. [session[s] EXCEPT !.expired = TRUE] \in SessionRows
    BY <1>2, SessionRow DEF SessionExpires, SessionRows
  <2>2. RowsTyped'
    BY <1>2, <2>1, TypeParts DEF SessionExpires, RowsTyped
  <2> QED BY <1>2, <2>2, KeptWeb, TypeParts, NextTypeParts
          DEF SessionExpires, Requested, Counted
<1>3. ASSUME NEW i \in Invitations, InvitationExpires(i) PROVE TypeOK'
  <2>1. [invitation[i] EXCEPT !.expired = TRUE] \in InvitationRows
    BY <1>3, OpenRow DEF InvitationExpires, InvitationRows
  <2>2. RowsTyped'
    BY <1>3, <2>1, TypeParts DEF InvitationExpires, RowsTyped
  <2> QED BY <1>3, <2>2, KeptWeb, TypeParts, NextTypeParts
          DEF InvitationExpires, Requested, Counted
<1>4. ASSUME edits < MaxEdits, edits' = edits + 1, UNCHANGED <<request, starts, faults>>
      PROVE  Requested' /\ Counted'
  BY <1>4, AccountBounds, TypeParts DEF Requested, Counted
<1>5. ASSUME NEW i \in Invitations, ResendInvitation(i) PROVE TypeOK'
  <2> DEFINE x == [invitation[i] EXCEPT !.link = @ + 1, !.expired = FALSE]
  <2>1. Open(i) /\ invitation[i].link < MaxLinks /\ UNCHANGED <<user, session>>
        /\ invitation' = [invitation EXCEPT ![i].link = @ + 1, ![i].expired = FALSE]
    BY <1>5 DEF ResendInvitation
  <2>2. /\ invitation[i] \in [row : {"open", "accepted", "revoked"}, email : Emails,
                              link : 1..MaxLinks, expired : BOOLEAN]
        /\ invitation[i].link + 1 \in 1..MaxLinks
    BY <2>1, OpenRow, AccountBounds
  <2>3. x \in InvitationRows
    BY <2>2 DEF InvitationRows
  <2>4. invitation' = [invitation EXCEPT ![i] = x]
    BY <2>1, TypeParts DEF RowsTyped
  <2> HIDE DEF x
  <2>5. RowsTyped'
    BY <2>1, <2>3, <2>4, TypeParts DEF RowsTyped
  <2>6. UNCHANGED <<cookies, emailLock>> /\ Requested' /\ Counted'
    BY <1>5, <1>4 DEF ResendInvitation
  <2> QED BY <2>5, <2>6, KeptWeb, NextTypeParts
<1>6. ASSUME NEW i \in Invitations, RevokeInvitation(i) PROVE TypeOK'
  <2>1. [invitation[i] EXCEPT !.row = "revoked"] \in InvitationRows
    BY <1>6, InvitationRow DEF RevokeInvitation, Open
  <2>2. RowsTyped'
    BY <1>6, <2>1, TypeParts DEF RevokeInvitation, RowsTyped
  <2> QED BY <1>6, <1>4, <2>2, KeptWeb, NextTypeParts DEF RevokeInvitation
<1>7. ASSUME NEW E \in SUBSET Emails, NEW status \in {"enabled", "disabled"},
             UpdateStatus(E, status)
      PROVE  TypeOK'
  <2>1. \A s \in Sessions : Live(s) => [session[s] EXCEPT !.row = "deleted"] \in SessionRows
    BY SessionRow DEF SessionRows
  <2>2. session' \in [Sessions -> SessionRows]
    BY <1>7, <2>1, TypeParts DEF UpdateStatus, RowsTyped
  <2>3. RowsTyped'
    BY <1>7, <2>2, TypeParts DEF UpdateStatus, RowsTyped
  <2> QED BY <1>7, <1>4, <2>3, KeptWeb, NextTypeParts DEF UpdateStatus
<1>8. ASSUME NEW r \in Requests, RequestFails(r) PROVE TypeOK'
  <2>1. Requested'
    BY <1>8, IdleType, RequestType, TypeParts DEF RequestFails
  <2>2. Counted'
    BY <1>8, AccountBounds, TypeParts DEF RequestFails, Counted
  <2>3. WebTyped'
    BY <1>8, TypeParts DEF RequestFails, WebTyped
  <2> QED BY <1>8, <2>1, <2>2, <2>3, KeptRows, NextTypeParts DEF RequestFails
<1> QED BY <1>1, <1>2, <1>3, <1>5, <1>6, <1>7, <1>8 DEF TimePasses, Administration

LEMMA NextType == TypeOK /\ [Next]_vars => TypeOK'
<1> SUFFICES ASSUME TypeOK, [Next]_vars PROVE TypeOK'
  OBVIOUS
<1>1. CASE UNCHANGED vars
  BY <1>1 DEF vars, TypeOK
<1> QED
  BY <1>1, SessionRequestType, InvitationRequestType, OthersType DEF Next

(***************************************************************************)
(* Every reachable state is well typed: a step that uses a client, an      *)
(* address, a session or an invitation really holds one.                   *)
(***************************************************************************)
THEOREM AccountTypes == Spec => []TypeOK
  BY InitType, NextType, PTL DEF Spec

----------------------------------------------------------------------------
(* Sessions of disabled users. *)

\* The only statement that writes a user's status deletes the sessions.
LEMMA BanStep ==
  ASSUME TypeOK, NEW s \in Sessions, Next, Revived(s)', session[s].row # "free"
  PROVE  Revived(s)
<1> USE DEF Revived
<1>1. ASSUME UNCHANGED <<user, session>> PROVE Revived(s)
  BY <1>1
<1>2. ASSUME UNCHANGED user,
             \/ UNCHANGED session
             \/ \E t : session' = Deleted(t)
             \/ \E t \in Sessions : /\ session' = [session EXCEPT ![t] = session'[t]]
                                  /\ session'[t].row = session[t].row
                                  /\ session'[t].email = session[t].email
             \/ \E t \in Sessions : /\ session[t].row = "free"
                                  /\ session' = [session EXCEPT ![t] = session'[t]]
      PROVE  Revived(s)
  <2>1. session'[s].row = "live" => session[s].row = "live" /\ session'[s].email = session[s].email
    <3>1. CASE \E t : session' = Deleted(t)
      BY <3>1 DEF Deleted, Live, TypeOK
    <3>2. CASE UNCHANGED session
      BY <3>2
    <3>3. CASE \E t \in Sessions : /\ session' = [session EXCEPT ![t] = session'[t]]
                                  /\ session'[t].row = session[t].row
                                  /\ session'[t].email = session[t].email
      BY <3>3 DEF TypeOK
    <3>4. CASE \E t \in Sessions : /\ session[t].row = "free"
                                  /\ session' = [session EXCEPT ![t] = session'[t]]
      BY <3>4 DEF TypeOK
    <3> QED BY <1>2, <3>1, <3>2, <3>3, <3>4
  <2> QED BY <1>2, <2>1
<1>3. ASSUME NEW r \in Requests, SessionRequest(r) PROVE Revived(s)
  <2>1. CASE \E c \in Clients : StartRefresh(r, c) \/ StartSignOut(r, c)
    BY <2>1, <1>1 DEF StartRefresh, StartSignOut, rows
  <2>2. CASE \E c \in Clients, e \in Emails : SignInReads(r, c, e)
    BY <2>2, <1>1 DEF SignInReads, rows
  <2>3. CASE \E t \in Sessions : InsertSession(r, t)
    BY <2>3, <1>2 DEF InsertSession, TypeOK
  <2>4. CASE Respond(r) \/ ClearCookies(r)
    BY <2>4, <1>1 DEF Respond, ClearCookies, rows
  <2>5. CASE Rotate(r)
    <3> DEFINE t == request[r].session
    <3>1. CASE TokenMatches(r) /\ session' = [session EXCEPT ![t].token = @ + 1]
      <4>1. t \in Sessions
        BY <3>1 DEF TokenMatches, Live
      <4>2. session' = [session EXCEPT ![t] = session'[t]] /\ session'[t].row = session[t].row
            /\ session'[t].email = session[t].email
        BY <3>1, <4>1, SessionRow DEF TypeOK, TokenMatches, Live
      <4> QED BY <2>5, <4>1, <4>2, <1>2 DEF Rotate
    <3> QED BY <2>5, <3>1, <1>2 DEF Rotate
  <2>6. CASE CheckUser(r) \/ DeleteByRefresh(r) \/ DeleteByAccess(r)
    BY <2>6, <1>2 DEF CheckUser, DeleteByRefresh, DeleteByAccess
  <2> QED BY <1>3, <2>1, <2>2, <2>3, <2>4, <2>5, <2>6 DEF SessionRequest
<1>6. ASSUME UNCHANGED session,
             \/ UNCHANGED user
             \/ \E e \in Emails : user' = [user EXCEPT ![e] = "enabled"]
      PROVE  Revived(s)
  <2>1. session[s].email \in Emails
    BY <1>6, SessionRow DEF Live
  <2> QED BY <1>6, <2>1 DEF TypeOK
<1>7. ASSUME NEW r \in Requests, InvitationRequest(r) \/ RequestFails(r) PROVE Revived(s)
  <2>1. CASE RequestFails(r) \/ \E e \in Emails : StartInvitation(r, e) \/ StartUser(r, e)
    BY <2>1, <1>1 DEF RequestFails, StartInvitation, StartUser, rows
  <2>2. CASE \E i \in Invitations : PreviewLink(r, i)
    BY <2>2, <1>1 DEF PreviewLink, rows
  <2>3. CASE TakeEmailLock(r) \/ EmailIsBusy(r) \/ ReleaseEmailLock(r) \/ InviteReads(r)
    BY <2>3, <1>1 DEF TakeEmailLock, EmailIsBusy, ReleaseEmailLock, InviteReads, rows
  <2>4. CASE InviteWrites(r)
    BY <2>4, <1>1 DEF InviteWrites
  <2>5. CASE AcceptCommits(r) \/ CreateCommits(r)
    <3>1. request[r].email \in Emails
      BY <2>5, RequestRow DEF AcceptCommits, CreateCommits, Typed, HoldsItsData, AddressSteps, LockedSteps
    <3> QED BY <2>5, <3>1, <1>6 DEF AcceptCommits, CreateCommits
  <2> QED BY <1>7, <2>1, <2>2, <2>3, <2>4, <2>5 DEF InvitationRequest
<1>4. ASSUME NEW E \in SUBSET Emails, NEW status \in {"enabled", "disabled"},
             UpdateStatus(E, status)
      PROVE  Revived(s)
  BY <1>4, SessionRow DEF UpdateStatus, Live, TypeOK
<1>5. ASSUME NEW t \in Sessions, SessionExpires(t) PROVE Revived(s)
  BY <1>5 DEF SessionExpires, TypeOK
<1> QED
  BY <1>1, <1>3, <1>4, <1>5, <1>7
     DEF Next, TimePasses, Administration, AccessExpires, InvitationExpires, ResendInvitation,
         RevokeInvitation

(***************************************************************************)
(* A ban ends every session of the user: one that a ban left could only be *)
(* inserted after it, by a sign-in that had read the user before.          *)
(***************************************************************************)
THEOREM BansEndSessions == Spec => DisablingEndsSessions
<1>1. TypeOK /\ [Next]_vars
        => [\A s \in Sessions : Revived(s)' => Revived(s) \/ session[s].row = "free"]_vars
  BY BanStep
<1> QED BY <1>1, AccountTypes, PTL DEF Spec, DisablingEndsSessions

-----------------------------------------------------------------------------
(***************************************************************************)
(* Invitations.  That an account and an open invitation never share an     *)
(* address rests on four facts at once: who is inside the critical section *)
(* holds the e-mail lock, an invitation in the making is for an address    *)
(* without account, a previewed invitation keeps its address, and the      *)
(* unique index on openEmail leaves one open invitation for an address.    *)
(***************************************************************************)
HIDE DEF rows, counts

\* What the steps of a request may rely on.
Guarded(r) ==
  LET x == request[r] IN
  /\ x.pc \in LockedSteps => emailLock[x.email] = r
  /\ x.pc = "inviteWrites" => user[x.email] = "absent"
  /\ x.pc \in {"acceptLock", "acceptCommits"} =>
       invitation[x.invitation].row # "free" /\ invitation[x.invitation].email = x.email

AllGuarded == \A r \in Requests : Guarded(r)

OneOpen == \A i, j \in Invitations :
  Open(i) /\ Open(j) /\ invitation[i].email = invitation[j].email => i = j

AddressInv == TypeOK /\ AllGuarded /\ OneOpen /\ AccountClosesInvitations

-----------------------------------------------------------------------------
(* Frames: what a step leaves alone. *)

\* A step of r changes no other request.
OnlyMoves(r) == \A q \in Requests \ {r} : request'[q] = request[q]

LEMMA MovesOne ==
  ASSUME TypeOK, NEW r \in Requests
  PROVE  /\ \A x : request' = [request EXCEPT ![r] = x] => OnlyMoves(r) /\ request'[r] = x
         /\ \A pc : Continue(r, pc) => /\ OnlyMoves(r)
                                       /\ request'[r] = [request[r] EXCEPT !.pc = pc]
         /\ Finish(r) => OnlyMoves(r) /\ request'[r].pc = "idle"
<1>1. request \in [Requests -> RequestRows]
  BY DEF TypeOK
<1>2. request[r] \in RequestRows
  BY <1>1
<1> QED BY <1>1, <1>2 DEF OnlyMoves, Continue, Finish, IdleRequest, RequestRows

LEMMA StartMoves ==
  ASSUME TypeOK, NEW r \in Requests, NEW x, Start(r, x)
  PROVE  OnlyMoves(r) /\ request'[r] = x
  BY MovesOne DEF Start

LEMMA Released ==
  ASSUME TypeOK, NEW r \in Requests, Continue(r, "release")
  PROVE  OnlyMoves(r) /\ request'[r].email = request[r].email /\ request'[r].pc = "release"
<1>1. request[r] \in RequestRows
  BY RequestRow DEF Typed
<1>2. LET y == [request[r] EXCEPT !.pc = "release"]
      IN  y.pc = "release" /\ y.email = request[r].email
  BY <1>1 DEF RequestRows
<1>3. OnlyMoves(r) /\ request'[r] = [request[r] EXCEPT !.pc = "release"]
  BY MovesOne
<1> QED BY <1>2, <1>3

LEMMA SessionRequestFrame ==
  ASSUME TypeOK, NEW r \in Requests, SessionRequest(r)
  PROVE  /\ UNCHANGED <<user, invitation, emailLock>>
         /\ OnlyMoves(r)
         /\ request'[r].pc \in ClientSteps \cup {"idle"}
<1>a. request[r] \in RequestRows
  BY RequestRow DEF Typed
<1>b. {"insertSession", "rotate", "deleteRefresh", "deleteAccess", "clearCookies", "respond",
       "checkUser"} \subseteq ClientSteps
  BY DEF ClientSteps, SessionSteps, SignOutSteps
<1>1. ASSUME NEW c \in Clients, StartRefresh(r, c) \/ StartSignOut(r, c)
      PROVE  OnlyMoves(r) /\ request'[r].pc \in ClientSteps
  <2> DEFINE x(pc) == [IdleRequest EXCEPT !.pc = pc, !.client = c,
                                          !.session = cookies[c].session,
                                          !.token = cookies[c].token]
             y(pc) == [IdleRequest EXCEPT !.pc = pc, !.client = c,
                                          !.access = cookies[c].access,
                                          !.session = cookies[c].session,
                                          !.token = cookies[c].token]
  <2>1. x("rotate").pc = "rotate" /\ y("deleteRefresh").pc = "deleteRefresh"
    BY DEF IdleRequest
  <2>2. Start(r, x("rotate")) \/ Start(r, y("deleteRefresh"))
    BY <1>1 DEF StartRefresh, StartSignOut
  <2>3. \/ OnlyMoves(r) /\ request'[r] = x("rotate")
        \/ OnlyMoves(r) /\ request'[r] = y("deleteRefresh")
    BY <2>2, StartMoves
  <2> QED BY <1>b, <2>1, <2>3
<1>2. ASSUME NEW c \in Clients, NEW e \in Emails, SignInReads(r, c, e)
      PROVE  OnlyMoves(r) /\ request'[r].pc \in ClientSteps
  <2> DEFINE x == [IdleRequest EXCEPT !.pc = "insertSession", !.client = c, !.email = e]
  <2>1. x.pc = "insertSession"
    BY DEF IdleRequest
  <2>2. OnlyMoves(r) /\ request'[r] = x
    BY <1>2, StartMoves DEF SignInReads
  <2> QED BY <1>b, <2>1, <2>2
<1>3. ASSUME NEW s \in Sessions, InsertSession(r, s)
      PROVE  OnlyMoves(r) /\ request'[r].pc \in ClientSteps
  <2> DEFINE x == [request[r] EXCEPT !.pc = "respond", !.session = s, !.token = 1]
  <2>1. x.pc = "respond"
    BY <1>a DEF RequestRows
  <2>2. request' = [request EXCEPT ![r] = x]
    BY <1>3 DEF InsertSession
  <2> HIDE DEF x
  <2>3. OnlyMoves(r) /\ request'[r] = x
    BY <2>2, MovesOne
  <2> QED BY <1>b, <2>1, <2>3
<1>4. Finish(r) => OnlyMoves(r) /\ request'[r].pc = "idle"
  BY MovesOne
<1>5. ASSUME NEW pc \in ClientSteps, Continue(r, pc)
      PROVE  OnlyMoves(r) /\ request'[r].pc \in ClientSteps
  <2>1. [request[r] EXCEPT !.pc = pc].pc = pc
    BY <1>a DEF RequestRows
  <2>2. OnlyMoves(r) /\ request'[r] = [request[r] EXCEPT !.pc = pc]
    BY <1>5, MovesOne
  <2> QED BY <2>1, <2>2
<1>6. ASSUME Rotate(r) PROVE OnlyMoves(r) /\ request'[r].pc \in ClientSteps \cup {"idle"}
  <2> DEFINE x == [request[r] EXCEPT !.pc = "checkUser",
                                     !.email = session[request[r].session].email,
                                     !.token = session[request[r].session].token + 1]
  <2>1. x.pc = "checkUser"
    BY <1>a DEF RequestRows
  <2>2. Finish(r) \/ request' = [request EXCEPT ![r] = x]
    BY <1>6 DEF Rotate
  <2> HIDE DEF x
  <2>3. Finish(r) \/ (OnlyMoves(r) /\ request'[r] = x)
    BY <2>2, MovesOne
  <2> QED BY <1>b, <1>4, <2>1, <2>3
<1>7. UNCHANGED <<user, invitation, emailLock>>
  BY DEF SessionRequest, StartRefresh, StartSignOut, SignInReads, InsertSession, Respond, Rotate,
         CheckUser, DeleteByRefresh, DeleteByAccess, ClearCookies, rows
<1> QED BY <1>b, <1>1, <1>2, <1>3, <1>4, <1>5, <1>6, <1>7
        DEF SessionRequest, Respond, CheckUser, DeleteByRefresh, DeleteByAccess, ClearCookies

LEMMA KeptAddresses ==
  ASSUME OneOpen, AccountClosesInvitations, UNCHANGED <<user, invitation>>
  PROVE  OneOpen' /\ AccountClosesInvitations'
  BY DEF OneOpen, AccountClosesInvitations, Open

\* A step of r that keeps the rows and the locks need only guard r.
LEMMA MoveGuarded ==
  ASSUME AddressInv, NEW r \in Requests, OnlyMoves(r), Guarded(r)',
         UNCHANGED <<user, invitation, emailLock>>
  PROVE  AllGuarded' /\ OneOpen' /\ AccountClosesInvitations'
<1>1. AllGuarded'
  BY DEF AddressInv, AllGuarded, Guarded, OnlyMoves
<1> QED BY <1>1, KeptAddresses DEF AddressInv

-----------------------------------------------------------------------------
(* The steps. *)

LEMMA SessionRequestAddresses ==
  ASSUME AddressInv, NEW r \in Requests, SessionRequest(r)
  PROVE  AllGuarded' /\ OneOpen' /\ AccountClosesInvitations'
<1>1. TypeOK
  BY DEF AddressInv
<1>2. Guarded(r)'
  BY <1>1, SessionRequestFrame
     DEF Guarded, ClientSteps, SessionSteps, SignOutSteps, LockedSteps
<1> QED BY <1>1, <1>2, SessionRequestFrame, MoveGuarded

LEMMA StartAddresses ==
  ASSUME AddressInv, NEW r \in Requests,
         \/ \E e \in Emails : StartInvitation(r, e) \/ StartUser(r, e)
         \/ \E i \in Invitations : PreviewLink(r, i)
         \/ EmailIsBusy(r)
  PROVE  AllGuarded' /\ OneOpen' /\ AccountClosesInvitations'
<1>1. TypeOK
  BY DEF AddressInv
<1>2. ASSUME NEW e \in Emails, StartInvitation(r, e) \/ StartUser(r, e)
      PROVE  AllGuarded' /\ OneOpen' /\ AccountClosesInvitations'
  <2> DEFINE x(pc) == [IdleRequest EXCEPT !.pc = pc, !.email = e]
  <2>1. x("inviteLock").pc = "inviteLock" /\ x("createLock").pc = "createLock"
    BY DEF IdleRequest
  <2>2. OnlyMoves(r) /\ request'[r] \in {x("inviteLock"), x("createLock")}
    BY <1>1, <1>2, StartMoves DEF StartInvitation, StartUser
  <2>3. Guarded(r)'
    BY <2>1, <2>2 DEF Guarded, LockedSteps
  <2> QED BY <1>2, <2>2, <2>3, MoveGuarded DEF StartInvitation, StartUser, rows
<1>3. ASSUME NEW i \in Invitations, PreviewLink(r, i)
      PROVE  AllGuarded' /\ OneOpen' /\ AccountClosesInvitations'
  <2> DEFINE x == [IdleRequest EXCEPT !.pc = "acceptLock", !.email = invitation[i].email,
                                      !.invitation = i, !.link = invitation[i].link]
  <2>1. x.pc = "acceptLock" /\ x.invitation = i /\ x.email = invitation[i].email
    BY DEF IdleRequest
  <2>2. OnlyMoves(r) /\ request'[r] = x
    BY <1>1, <1>3, StartMoves DEF PreviewLink
  <2>3. Guarded(r)'
    BY <1>3, <2>1, <2>2 DEF Guarded, LockedSteps, PreviewLink, Open, rows
  <2> QED BY <1>3, <2>2, <2>3, MoveGuarded DEF PreviewLink, rows
<1>4. CASE EmailIsBusy(r)
  <2>1. OnlyMoves(r) /\ Guarded(r)'
    BY <1>1, <1>4, MovesOne DEF EmailIsBusy, Guarded, LockedSteps
  <2> QED BY <1>4, <2>1, MoveGuarded DEF EmailIsBusy, rows
<1> QED BY <1>2, <1>3, <1>4

\* The lock goes to a request that waits, from nobody.
LEMMA LockAddresses ==
  ASSUME AddressInv, NEW r \in Requests, TakeEmailLock(r) \/ ReleaseEmailLock(r)
  PROVE  AllGuarded' /\ OneOpen' /\ AccountClosesInvitations'
<1> DEFINE e == request[r].email
<1>1. TypeOK /\ request[r] \in RequestRows /\ UNCHANGED <<user, invitation>>
  BY RequestRow DEF AddressInv, Typed, TakeEmailLock, ReleaseEmailLock, rows
<1>2. e \in Emails /\ emailLock \in [Emails -> Requests \cup {NoRequest}]
  BY <1>1, RequestRow DEF TypeOK, Typed, HoldsItsData, AddressSteps, TakeEmailLock,
                          ReleaseEmailLock, LockedSteps
<1>3. CASE TakeEmailLock(r)
  <2>1. /\ OnlyMoves(r)
        /\ request'[r] = [request[r] EXCEPT !.pc = FirstStep(request[r].pc)]
    BY <1>1, <1>3, MovesOne DEF TakeEmailLock
  <2>2. emailLock[e] = NoRequest /\ emailLock' = [emailLock EXCEPT ![e] = r]
        /\ request[r].pc \in WaitingSteps
    BY <1>3 DEF TakeEmailLock
  <2>3. \A q \in Requests \ {r} : Guarded(q)'
    BY <1>1, <1>2, <2>1, <2>2, AccountNulls DEF AddressInv, AllGuarded, Guarded, OnlyMoves
  <2>4. /\ request'[r].pc = FirstStep(request[r].pc) /\ request'[r].email = e
        /\ request'[r].invitation = request[r].invitation
    BY <1>1, <2>1 DEF RequestRows
  <2>5. Guarded(r)'
    BY <1>1, <1>2, <2>2, <2>4
       DEF AddressInv, AllGuarded, Guarded, FirstStep, WaitingSteps, LockedSteps
  <2> QED BY <1>1, <2>3, <2>5, KeptAddresses DEF AddressInv, AllGuarded
<1>4. CASE ReleaseEmailLock(r)
  <2>1. OnlyMoves(r) /\ request'[r].pc = "idle"
    BY <1>1, <1>4, MovesOne DEF ReleaseEmailLock
  <2>2. emailLock[e] = r /\ emailLock' = [emailLock EXCEPT ![e] = NoRequest]
    BY <1>4 DEF ReleaseEmailLock, AddressInv, AllGuarded, Guarded, LockedSteps
  <2>3. \A q \in Requests \ {r} : Guarded(q)'
    BY <1>1, <1>2, <2>1, <2>2 DEF AddressInv, AllGuarded, Guarded, OnlyMoves
  <2>4. Guarded(r)'
    BY <2>1 DEF Guarded, LockedSteps
  <2> QED BY <1>1, <2>3, <2>4, KeptAddresses DEF AddressInv, AllGuarded
<1> QED BY <1>3, <1>4

LEMMA InviteAddresses ==
  ASSUME AddressInv, NEW r \in Requests, InviteReads(r) \/ InviteWrites(r)
  PROVE  AllGuarded' /\ OneOpen' /\ AccountClosesInvitations'
<1> DEFINE e == request[r].email
<1>1. TypeOK /\ request[r] \in RequestRows /\ UNCHANGED <<user, emailLock>>
  BY RequestRow DEF AddressInv, Typed, InviteReads, InviteWrites, rows
<1>2. e \in Emails /\ emailLock[e] = r
  BY <1>1, RequestRow DEF Typed, HoldsItsData, AddressSteps, InviteReads, InviteWrites,
                          LockedSteps, AddressInv, AllGuarded, Guarded
<1>3. CASE InviteReads(r)
  <2> DEFINE x == [request[r] EXCEPT !.pc = "inviteWrites", !.seen = OpenFor(e)]
             y == [request[r] EXCEPT !.pc = "release"]
  <2>a. x.pc = "inviteWrites" /\ y.pc = "release" /\ x.email = e /\ y.email = e
    BY <1>1 DEF RequestRows
  <2>b. \/ request' = [request EXCEPT ![r] = x] /\ user[e] = "absent"
        \/ Continue(r, "release")
    BY <1>3 DEF InviteReads
  <2>c. OnlyMoves(r) /\ ((request'[r] = x /\ user[e] = "absent") \/ request'[r] = y)
    <3> HIDE DEF x
    <3> QED BY <1>1, <2>b, MovesOne
  <2>1. /\ OnlyMoves(r) /\ UNCHANGED invitation /\ request'[r].email = e
        /\ \/ request'[r].pc = "release"
           \/ request'[r].pc = "inviteWrites" /\ user[e] = "absent"
    BY <1>3, <2>a, <2>c DEF InviteReads, rows
  <2>2. Guarded(r)'
    BY <1>1, <1>2, <2>1 DEF Guarded, LockedSteps
  <2> QED BY <1>1, <2>1, <2>2, MoveGuarded
<1>4. CASE InviteWrites(r)
  <2>1. OnlyMoves(r) /\ request'[r].email = e /\ request'[r].pc = "release"
    BY <1>1, <1>4, Released DEF InviteWrites
  <2>2. user[e] = "absent"
    BY <1>4 DEF InviteWrites, AddressInv, AllGuarded, Guarded
  <2>3. Guarded(r)'
    BY <1>1, <1>2, <2>1 DEF Guarded, LockedSteps
  <2>4. CASE UNCHANGED invitation
    BY <1>1, <2>1, <2>3, <2>4, MoveGuarded
  <2>5. CASE ~UNCHANGED invitation
    <3>1. PICK n \in Invitations :
            /\ invitation[n].row = "free"
            /\ \A i \in Invitations \ {n} :
                 \/ invitation'[i] = invitation[i] /\ ~(Open(i) /\ invitation[i].email = e)
                 \/ invitation'[i] = [invitation[i] EXCEPT !.row = "revoked"] /\ Open(i)
            /\ invitation'[n] = [row |-> "open", email |-> e, link |-> 1, expired |-> FALSE]
      BY <1>4, <2>5 DEF InviteWrites, OpenFor
    <3>2. \A i \in Invitations : Open(i) =>
            /\ [invitation[i] EXCEPT !.row = "revoked"].row = "revoked"
            /\ [invitation[i] EXCEPT !.row = "revoked"].email = invitation[i].email
      BY <1>1, OpenRow
    <3>3. \A i \in Invitations \ {n} :
            /\ Open(i)' => Open(i) /\ invitation'[i].email = invitation[i].email
                           /\ invitation[i].email # e
            /\ invitation[i].row # "free" =>
                 invitation'[i].row # "free" /\ invitation'[i].email = invitation[i].email
      BY <3>1, <3>2 DEF Open
    <3>4. invitation'[n].email = e
      BY <3>1
    <3>5. OneOpen'
      BY <3>3, <3>4 DEF OneOpen, AddressInv
    <3>6. AccountClosesInvitations'
      BY <1>1, <2>2, <3>3, <3>4 DEF AccountClosesInvitations, AddressInv
    <3>7. \A q \in Requests \ {r} : Guarded(q)'
      <4>1. \A q \in Requests : request[q].pc \in {"acceptLock", "acceptCommits"} =>
              request[q].invitation \in Invitations
        BY <1>1 DEF TypeOK, HoldsItsData
      <4> QED BY <1>1, <2>1, <3>1, <3>3, <4>1 DEF AddressInv, AllGuarded, Guarded, OnlyMoves
    <3> QED BY <2>3, <3>5, <3>6, <3>7 DEF AllGuarded
  <2> QED BY <2>4, <2>5
<1> QED BY <1>3, <1>4

LEMMA AcceptAddresses ==
  ASSUME AddressInv, NEW r \in Requests, AcceptCommits(r)
  PROVE  AllGuarded' /\ OneOpen' /\ AccountClosesInvitations'
<1> DEFINE e == request[r].email
           i == request[r].invitation
<1>1. /\ TypeOK /\ e \in Emails /\ i \in Invitations /\ emailLock[e] = r
      /\ invitation[i].row # "free" /\ invitation[i].email = e
  BY RequestRow DEF AddressInv, AllGuarded, Guarded, Typed, HoldsItsData, AddressSteps,
                    LockedSteps, AcceptCommits
<1>2. /\ OnlyMoves(r) /\ request'[r].email = e /\ request'[r].pc = "release"
      /\ UNCHANGED emailLock
  BY <1>1, Released DEF AcceptCommits
<1>3. Guarded(r)'
  BY <1>1, <1>2 DEF Guarded, LockedSteps
<1>4. CASE UNCHANGED <<user, invitation>>
  BY <1>2, <1>3, <1>4, MoveGuarded
<1>5. CASE ~UNCHANGED <<user, invitation>>
  <2>1. /\ Open(i) /\ user[e] = "absent"
        /\ user' = [user EXCEPT ![e] = "enabled"]
        /\ invitation' = [invitation EXCEPT ![i].row = "accepted"]
    BY <1>5 DEF AcceptCommits
  <2>2. /\ invitation'[i].row = "accepted" /\ invitation'[i].email = e
        /\ \A j \in Invitations \ {i} : invitation'[j] = invitation[j]
    BY <1>1, <2>1, OpenRow DEF TypeOK
  <2>3. \A f \in Emails \ {e} : user'[f] = user[f]
    BY <2>1 DEF TypeOK
  <2>4. OneOpen'
    BY <2>2 DEF OneOpen, Open, AddressInv
  <2>5. \A j \in Invitations : Open(j)' =>
          Open(j) /\ j # i /\ invitation[j].email \in Emails \ {e}
    BY <1>1, <2>1, <2>2, InvitationRow DEF OneOpen, Open, AddressInv
  <2>6. AccountClosesInvitations'
    BY <2>2, <2>3, <2>5 DEF AccountClosesInvitations, AddressInv
  <2>7. ASSUME NEW q \in Requests \ {r} PROVE Guarded(q)'
    <3>1. Guarded(q) /\ request'[q] = request[q]
      BY <1>2 DEF AddressInv, AllGuarded, OnlyMoves
    <3>2. request[q].pc \in LockedSteps => request[q].email \in Emails \ {e}
      BY <1>1, <3>1, RequestRow DEF Guarded, Typed, HoldsItsData, AddressSteps
    <3>3. request[q].pc \in {"acceptLock", "acceptCommits"} => request[q].invitation \in Invitations
      BY <1>1 DEF TypeOK, HoldsItsData
    <3> QED BY <1>1, <1>2, <2>2, <2>3, <3>1, <3>2, <3>3 DEF Guarded, LockedSteps
  <2> QED BY <1>3, <2>4, <2>6, <2>7 DEF AllGuarded
<1> QED BY <1>4, <1>5

LEMMA CreateAddresses ==
  ASSUME AddressInv, NEW r \in Requests, CreateCommits(r)
  PROVE  AllGuarded' /\ OneOpen' /\ AccountClosesInvitations'
<1> DEFINE e == request[r].email
<1>1. TypeOK /\ e \in Emails /\ emailLock[e] = r
  BY RequestRow DEF AddressInv, AllGuarded, Guarded, Typed, HoldsItsData, AddressSteps,
                    LockedSteps, CreateCommits
<1>2. /\ OnlyMoves(r) /\ request'[r].email = e /\ request'[r].pc = "release"
      /\ UNCHANGED emailLock
  BY <1>1, Released DEF CreateCommits
<1>3. Guarded(r)'
  BY <1>1, <1>2 DEF Guarded, LockedSteps
<1>4. CASE UNCHANGED <<user, invitation>>
  BY <1>2, <1>3, <1>4, MoveGuarded
<1>5. CASE ~UNCHANGED <<user, invitation>>
  <2>1. /\ user' = [user EXCEPT ![e] = "enabled"]
        /\ invitation' = [j \in Invitations |->
                            IF Open(j) /\ invitation[j].email = e
                            THEN [invitation[j] EXCEPT !.row = "revoked"] ELSE invitation[j]]
    BY <1>5 DEF CreateCommits, OpenFor
  <2>2. \A j \in Invitations : Open(j) =>
          /\ [invitation[j] EXCEPT !.row = "revoked"].row = "revoked"
          /\ [invitation[j] EXCEPT !.row = "revoked"].email = invitation[j].email
    BY <1>1, OpenRow
  <2>3. \A j \in Invitations :
          /\ Open(j)' => Open(j) /\ invitation'[j].email = invitation[j].email
                         /\ invitation[j].email \in Emails \ {e}
          /\ invitation[j].row # "free" =>
               invitation'[j].row # "free" /\ invitation'[j].email = invitation[j].email
    BY <1>1, <2>1, <2>2, InvitationRow DEF Open
  <2>4. \A f \in Emails \ {e} : user'[f] = user[f]
    BY <1>1, <2>1 DEF TypeOK
  <2>5. OneOpen' /\ AccountClosesInvitations'
    BY <2>3, <2>4 DEF OneOpen, AccountClosesInvitations, AddressInv
  <2>6. ASSUME NEW q \in Requests \ {r} PROVE Guarded(q)'
    <3>1. Guarded(q) /\ request'[q] = request[q]
      BY <1>2 DEF AddressInv, AllGuarded, OnlyMoves
    <3>2. request[q].pc \in LockedSteps => request[q].email \in Emails \ {e}
      BY <1>1, <3>1, RequestRow DEF Guarded, Typed, HoldsItsData, AddressSteps
    <3>3. request[q].pc \in {"acceptLock", "acceptCommits"} => request[q].invitation \in Invitations
      BY <1>1 DEF TypeOK, HoldsItsData
    <3> QED BY <1>1, <1>2, <2>3, <2>4, <3>1, <3>2, <3>3 DEF Guarded, LockedSteps
  <2> QED BY <1>3, <2>5, <2>6 DEF AllGuarded
<1> QED BY <1>4, <1>5

\* Nobody but the request itself uses its lock, so losing one is harmless.
LEMMA FailAddresses ==
  ASSUME AddressInv, NEW r \in Requests, RequestFails(r)
  PROVE  AllGuarded' /\ OneOpen' /\ AccountClosesInvitations'
<1>1. TypeOK /\ UNCHANGED <<user, invitation>>
  BY DEF AddressInv, RequestFails, rows
<1>2. OnlyMoves(r) /\ request'[r] = IdleRequest
  BY <1>1, MovesOne DEF RequestFails
<1>3. ASSUME NEW q \in Requests \ {r} PROVE Guarded(q)'
  <2>1. Guarded(q) /\ request'[q] = request[q]
    BY <1>2 DEF AddressInv, AllGuarded, OnlyMoves
  <2>2. request[q].pc \in LockedSteps => request[q].email \in Emails
    BY <1>1, RequestRow DEF Typed, HoldsItsData, AddressSteps
  <2> QED BY <1>1, <2>1, <2>2 DEF Guarded, RequestFails
<1>4. Guarded(r)'
  BY <1>2 DEF Guarded, LockedSteps, IdleRequest
<1> QED BY <1>1, <1>3, <1>4, KeptAddresses DEF AddressInv, AllGuarded

\* What the others do keeps addresses, opens nothing and creates nobody.
LEMMA EditAddresses ==
  ASSUME AddressInv, TimePasses \/ Administration
  PROVE  AllGuarded' /\ OneOpen' /\ AccountClosesInvitations'
<1>1. TypeOK /\ UNCHANGED <<request, emailLock>>
  BY DEF AddressInv, TimePasses, Administration, AccessExpires, SessionExpires,
         InvitationExpires, UpdateStatus, ResendInvitation, RevokeInvitation, rows
<1>2. \A e \in Emails : user[e] = "absent" <=> user'[e] = "absent"
  BY <1>1 DEF TimePasses, Administration, AccessExpires, SessionExpires,
              InvitationExpires, UpdateStatus, ResendInvitation, RevokeInvitation, rows
<1>3. \A i \in Invitations :
        /\ Open(i)' => Open(i)
        /\ invitation[i].row # "free" =>
             invitation'[i].row # "free" /\ invitation'[i].email = invitation[i].email
  <2>1. CASE UNCHANGED invitation
    BY <2>1 DEF Open
  <2>2. ASSUME NEW i \in Invitations, ResendInvitation(i)
        PROVE  /\ invitation'[i].row = "open" /\ invitation'[i].email = invitation[i].email
               /\ Open(i) /\ \A j \in Invitations \ {i} : invitation'[j] = invitation[j]
    BY <1>1, <2>2, OpenRow DEF ResendInvitation, Open, TypeOK
  <2>3. ASSUME NEW i \in Invitations, RevokeInvitation(i)
        PROVE  /\ invitation'[i].row = "revoked" /\ invitation'[i].email = invitation[i].email
               /\ Open(i) /\ \A j \in Invitations \ {i} : invitation'[j] = invitation[j]
    BY <1>1, <2>3, OpenRow DEF RevokeInvitation, Open, TypeOK
  <2>4. ASSUME NEW i \in Invitations, InvitationExpires(i)
        PROVE  /\ invitation'[i].row = "open" /\ invitation'[i].email = invitation[i].email
               /\ Open(i) /\ \A j \in Invitations \ {i} : invitation'[j] = invitation[j]
    BY <1>1, <2>4, OpenRow DEF InvitationExpires, Open, TypeOK
  <2>5. \/ UNCHANGED invitation
        \/ \E i \in Invitations : ResendInvitation(i) \/ RevokeInvitation(i) \/ InvitationExpires(i)
    BY DEF TimePasses, Administration, AccessExpires, SessionExpires, UpdateStatus, rows
  <2> QED BY <2>1, <2>2, <2>3, <2>4, <2>5 DEF Open
<1>4. OneOpen' /\ AccountClosesInvitations'
  BY <1>1, <1>2, <1>3, InvitationRow DEF OneOpen, AccountClosesInvitations, AddressInv, Open
<1>5. AllGuarded'
  BY <1>1, <1>2, <1>3 DEF AllGuarded, Guarded, AddressInv, TypeOK, HoldsItsData, LockedSteps,
                          AddressSteps
<1> QED BY <1>4, <1>5

LEMMA AddressInit == Init => AddressInv
<1> SUFFICES ASSUME Init PROVE AddressInv
  OBVIOUS
<1>1. TypeOK
  BY InitType
<1>2. \A r \in Requests : Guarded(r)
  BY DEF Init, Guarded, LockedSteps, IdleRequest
<1> QED BY <1>1, <1>2
        DEF Init, AddressInv, AllGuarded, OneOpen, AccountClosesInvitations, Open, NoInvitationRow

LEMMA AddressNext == AddressInv /\ [Next]_vars => AddressInv'
<1> SUFFICES ASSUME AddressInv, [Next]_vars PROVE AddressInv'
  OBVIOUS
<1>1. TypeOK'
  BY NextType DEF AddressInv
<1>2. CASE UNCHANGED vars
  BY <1>1, <1>2
     DEF vars, rows, counts, AddressInv, AllGuarded, Guarded, OneOpen, AccountClosesInvitations, Open
<1>3. ASSUME NEW r \in Requests, InvitationRequest(r)
      PROVE  AllGuarded' /\ OneOpen' /\ AccountClosesInvitations'
  BY <1>3, StartAddresses, LockAddresses, InviteAddresses, AcceptAddresses, CreateAddresses
     DEF InvitationRequest
<1> QED
  BY <1>1, <1>2, <1>3, SessionRequestAddresses, FailAddresses, EditAddresses DEF Next, AddressInv

(***************************************************************************)
(* No invitation is open for an address that has an account: whatever      *)
(* requests meet and wherever one of them fails, nobody can make a second  *)
(* account of an address or replace the one an administrator has created.  *)
(***************************************************************************)
THEOREM AccountsCloseInvitations == Spec => []AccountClosesInvitations
<1>1. Spec => []AddressInv
  BY AddressInit, AddressNext, PTL DEF Spec
<1> QED BY <1>1, PTL DEF AddressInv

-----------------------------------------------------------------------------
(* What a closed invitation was and stays. *)

\* Every step that writes an invitation writes one that is free or open; it
\* is accepted by a request that holds its newest link.
LEMMA ClosedStep ==
  ASSUME TypeOK, [Next]_vars, NEW i \in Invitations, invitation'[i] # invitation[i]
  PROVE  /\ invitation[i].row \in {"free", "open"}
         /\ invitation'[i].row = "accepted" =>
              \E r \in Requests : /\ request[r].pc = "acceptCommits"
                                  /\ request[r].invitation = i
                                  /\ request[r].link = invitation[i].link
<1>1. ASSUME NEW r \in Requests, AcceptCommits(r)
      PROVE  /\ request[r].pc = "acceptCommits" /\ request[r].invitation = i /\ Open(i)
             /\ request[r].link = invitation[i].link
  BY <1>1 DEF AcceptCommits, TypeOK
<1>2. ASSUME NEW r \in Requests, CreateCommits(r) \/ InviteWrites(r)
      PROVE  invitation[i].row \in {"free", "open"} /\ invitation'[i].row # "accepted"
  <2>1. Open(i) => [invitation[i] EXCEPT !.row = "revoked"].row = "revoked"
    BY OpenRow
  <2>2. \/ invitation'[i] = [invitation[i] EXCEPT !.row = "revoked"] /\ Open(i)
        \/ invitation[i].row = "free" /\ invitation'[i].row = "open"
    <3>1. CASE CreateCommits(r)
      BY <3>1 DEF CreateCommits, OpenFor
    <3>2. CASE InviteWrites(r)
      <4>1. \E n \in Invitations :
              /\ invitation[n].row = "free"
              /\ i = n => invitation'[i].row = "open"
              /\ i # n => invitation'[i] = [invitation[i] EXCEPT !.row = "revoked"] /\ Open(i)
        BY <3>2 DEF InviteWrites, OpenFor
      <4> QED BY <4>1
    <3> QED BY <1>2, <3>1, <3>2
  <2> QED BY <2>1, <2>2 DEF Open
<1>3. ASSUME NEW j \in Invitations,
             ResendInvitation(j) \/ RevokeInvitation(j) \/ InvitationExpires(j)
      PROVE  Open(i) /\ invitation'[i].row # "accepted"
  BY <1>3, OpenRow DEF ResendInvitation, RevokeInvitation, InvitationExpires, TypeOK, Open
<1>4. \/ \E r \in Requests : AcceptCommits(r) \/ CreateCommits(r) \/ InviteWrites(r)
      \/ \E j \in Invitations : ResendInvitation(j) \/ RevokeInvitation(j) \/ InvitationExpires(j)
  <2>1. CASE UNCHANGED vars
    BY <2>1 DEF vars, rows
  <2>2. ASSUME NEW r \in Requests, SessionRequest(r) PROVE FALSE
    BY <2>2, SessionRequestFrame
  <2>3. ASSUME NEW r \in Requests, InvitationRequest(r)
        PROVE  AcceptCommits(r) \/ CreateCommits(r) \/ InviteWrites(r)
    BY <2>3 DEF InvitationRequest, StartInvitation, StartUser, PreviewLink, TakeEmailLock,
                EmailIsBusy, ReleaseEmailLock, InviteReads, rows
  <2> QED
    BY <2>1, <2>2, <2>3 DEF Next, RequestFails, TimePasses, Administration, AccessExpires,
                            SessionExpires, UpdateStatus, rows
<1> QED BY <1>1, <1>2, <1>3, <1>4 DEF Open

(***************************************************************************)
(* An invitation is closed once, by whichever of an acceptance, a          *)
(* revocation and a direct creation comes first.                           *)
(***************************************************************************)
THEOREM ClosedOnce == Spec => ClosedIsFinal
<1>1. TypeOK /\ [Next]_vars =>
        [\A i \in Invitations :
           invitation[i].row \in {"accepted", "revoked"} => invitation'[i] = invitation[i]]_vars
  BY ClosedStep
<1> QED BY <1>1, AccountTypes, PTL DEF Spec, ClosedIsFinal

(***************************************************************************)
(* A link that a resend replaced makes no account, also when its holder    *)
(* had seen it valid and was waiting for the e-mail lock.                  *)
(***************************************************************************)
THEOREM OnlyNewestLink == Spec => NewestLinkIsAccepted
<1>1. TypeOK /\ [Next]_vars =>
        [\A i \in Invitations :
           invitation[i].row # "accepted" /\ invitation'[i].row = "accepted" =>
             \E r \in Requests : /\ request[r].pc = "acceptCommits"
                                 /\ request[r].invitation = i
                                 /\ request[r].link = invitation[i].link]_vars
  BY ClosedStep
<1> QED BY <1>1, AccountTypes, PTL DEF Spec, NewestLinkIsAccepted

----------------------------------------------------------------------------
(* Tokens: what browsers and requests hold. *)

Bringing == {"checkUser", "respond"}

\* The session handed out this token, and perhaps later ones.
Issued(s, token) == session[s].row # "free" /\ token <= session[s].token

CookieHeld(c) ==
  /\ cookies[c].access \in {NoSession, cookies[c].session}
  /\ cookies[c].session # NoSession => Issued(cookies[c].session, cookies[c].token)

RequestHeld(r) ==
  /\ request[r].pc \in SignOutSteps => request[r].access \in {NoSession, request[r].session}
  /\ request[r].pc \in SessionSteps \cup SignOutSteps /\ request[r].session # NoSession =>
       Issued(request[r].session, request[r].token)

\* A browser holds the session, or a request of it does.
Belongs(s, c) ==
  \/ cookies[c].session = s
  \/ \E r \in Requests : /\ request[r].pc \in SessionSteps
                         /\ request[r].session = s /\ request[r].client = c

OneBrowser ==
  \A s \in Sessions, c, d \in Clients : Belongs(s, c) /\ Belongs(s, d) => c = d

\* The request that brings a token brings the newest, and everybody else is behind.
BringsNewest(r) ==
  LET s == request[r].session IN
  request[r].pc \in Bringing /\ Live(s) =>
    /\ request[r].token = session[s].token
    /\ \A c \in Clients : cookies[c].session = s => cookies[c].token < session[s].token
    /\ \A q \in Requests \ {r} :
         request[q].pc \in SessionSteps /\ request[q].session = s =>
           request[q].token < session[s].token

\* What a sign-out has deleted so far.
SignedOut(r) ==
  /\ request[r].pc \in {"deleteAccess", "clearCookies"} /\ Live(request[r].session) =>
       request[r].token # session[request[r].session].token
  /\ request[r].pc = "clearCookies" => ~Live(request[r].access)

TokenInv ==
  /\ \A c \in Clients : CookieHeld(c)
  /\ \A r \in Requests : RequestHeld(r)
  /\ OneBrowser
  /\ \A r \in Requests : BringsNewest(r)
  /\ \A r \in Requests : SignedOut(r)

\* The session keeps its token, and at most it is deleted.
Steady(s) ==
  /\ session'[s].token = session[s].token
  /\ session'[s].row = "free" <=> session[s].row = "free"
  /\ Live(s)' => Live(s)

\* The browser keeps what it holds, or loses some of it.
SteadyCookies(c) ==
  /\ cookies'[c].access \in {NoSession, cookies[c].access}
  /\ \/ cookies'[c].session = cookies[c].session /\ cookies'[c].token = cookies[c].token
     \/ cookies'[c].session = NoSession /\ cookies'[c].access = NoSession

\* The request holds nothing it did not hold.
SteadyRequest(q) ==
  /\ request'[q].pc \in SessionSteps =>
       /\ request[q].pc \in SessionSteps
       /\ request'[q].pc \in Bringing => request[q].pc \in Bringing
       /\ request'[q].client = request[q].client
       /\ request'[q].session = request[q].session
       /\ request'[q].token = request[q].token
  /\ request'[q].pc \in SignOutSteps =>
       /\ request[q].pc \in SignOutSteps
       /\ request'[q].access = request[q].access
       /\ request'[q].session = request[q].session
       /\ request'[q].token = request[q].token

LEMMA PcSets ==
  /\ Bringing \subseteq SessionSteps
  /\ SessionSteps \cap SignOutSteps = {}
  /\ "idle" \notin SessionSteps \cup SignOutSteps
  /\ "insertSession" \notin SessionSteps \cup SignOutSteps
  BY DEF Bringing, SessionSteps, SignOutSteps

LEMMA HeldType ==
  ASSUME TypeOK
  PROVE  /\ \A c \in Clients : /\ cookies[c].session \in Sessions \cup {NoSession}
                               /\ cookies[c].token \in Nat
         /\ \A r \in Requests : /\ request[r].session \in Sessions \cup {NoSession}
                                /\ request[r].token \in Nat
                                /\ request[r].pc \in SessionSteps =>
                                     request[r].session \in Sessions /\ request[r].client \in Clients
                                /\ request[r].pc \in SignOutSteps => request[r].client \in Clients
         /\ \A s \in Sessions : session[s].token \in Nat
         /\ NoSession \notin Sessions
<1>1. \A c \in Clients : cookies[c] \in Cookies
  BY DEF TypeOK
<1>2. \A r \in Requests : request[r] \in RequestRows /\ HoldsItsData(request[r])
  BY DEF TypeOK
<1>3. \A s \in Sessions : session[s].token \in Nat
  BY AccountBounds DEF TypeOK, SessionRows, NoSessionRow
<1>4. \A n \in 0..MaxTokens : n \in Nat
  BY AccountBounds
<1> QED BY <1>1, <1>2, <1>3, <1>4, StepNames, AccountNulls DEF Cookies, RequestRows, HoldsItsData

LEMMA SteadySignOut ==
  ASSUME \A s \in Sessions : Steady(s), NEW q, SignedOut(q), request'[q] = request[q]
  PROVE  SignedOut(q)'
  BY DEF SignedOut, Steady, Live

LEMMA SteadyTokens ==
  ASSUME TypeOK, TokenInv,
         \A s \in Sessions : Steady(s),
         \A c \in Clients : SteadyCookies(c),
         \A q \in Requests : SteadyRequest(q) /\ SignedOut(q)'
  PROVE  TokenInv'
<1>1. \A s \in Sessions : /\ session'[s].row = "free" <=> session[s].row = "free"
                        /\ session'[s].token = session[s].token
  BY DEF Steady
<1>2. \A c \in Clients : CookieHeld(c)'
  <2> SUFFICES ASSUME NEW c \in Clients PROVE CookieHeld(c)'
    OBVIOUS
  <2>1. CookieHeld(c) /\ SteadyCookies(c)
    BY DEF TokenInv
  <2>2. CASE cookies'[c].session = NoSession /\ cookies'[c].access = NoSession
    BY <2>2 DEF CookieHeld
  <2>3. CASE cookies'[c].session = cookies[c].session /\ cookies'[c].token = cookies[c].token
    <3>1. cookies'[c].access \in {NoSession, cookies'[c].session}
      BY <2>1, <2>3 DEF CookieHeld, SteadyCookies
    <3>2. cookies[c].session \in Sessions =>
            /\ session'[cookies[c].session].row # "free"
            /\ cookies[c].token <= session'[cookies[c].session].token
      BY <1>1, <2>1, HeldType DEF CookieHeld, Issued
    <3> QED BY <2>3, <3>1, <3>2, HeldType DEF CookieHeld, Issued
  <2> QED BY <2>1, <2>2, <2>3 DEF SteadyCookies
<1>3. \A q \in Requests : RequestHeld(q)'
  <2> SUFFICES ASSUME NEW q \in Requests PROVE RequestHeld(q)'
    OBVIOUS
  <2>1. RequestHeld(q) /\ SteadyRequest(q)
    BY DEF TokenInv
  <2>2. request'[q].pc \in SignOutSteps => request'[q].access \in {NoSession, request'[q].session}
    BY <2>1 DEF RequestHeld, SteadyRequest
  <2>3. ASSUME request'[q].pc \in SessionSteps \cup SignOutSteps, request'[q].session # NoSession
        PROVE  /\ session'[request'[q].session].row # "free"
               /\ request'[q].token <= session'[request'[q].session].token
    <3>1. /\ request[q].pc \in SessionSteps \cup SignOutSteps
          /\ request'[q].session = request[q].session /\ request'[q].token = request[q].token
      BY <2>1, <2>3 DEF SteadyRequest
    <3>2. request[q].session \in Sessions /\ Issued(request[q].session, request[q].token)
      BY <2>1, <2>3, <3>1, HeldType DEF RequestHeld
    <3> QED BY <1>1, <3>1, <3>2 DEF Issued
  <2> QED BY <2>2, <2>3 DEF RequestHeld, Issued
<1>4. OneBrowser'
  <2>1. \A s \in Sessions, c \in Clients : Belongs(s, c)' => Belongs(s, c)
    BY HeldType DEF Belongs, SteadyCookies, SteadyRequest
  <2> QED BY <2>1 DEF TokenInv, OneBrowser
<1>5. \A q \in Requests : BringsNewest(q)'
  <2> SUFFICES ASSUME NEW q \in Requests, request'[q].pc \in Bringing, Live(request[q].session)'
               PROVE  LET s == request'[q].session IN
                      /\ request'[q].token = session'[s].token
                      /\ \A c \in Clients : cookies'[c].session = s =>
                                              cookies'[c].token < session'[s].token
                      /\ \A p \in Requests \ {q} :
                           request'[p].pc \in SessionSteps /\ request'[p].session = s =>
                             request'[p].token < session'[s].token
    BY DEF BringsNewest, Live
  <2>1. /\ request[q].pc \in Bringing /\ request'[q].session = request[q].session
        /\ request'[q].token = request[q].token
    BY PcSets DEF SteadyRequest
  <2>2. PICK s \in Sessions : s = request[q].session
    BY <2>1, PcSets, HeldType
  <2>3. Live(s) /\ session'[s].token = session[s].token
    <3>1. Live(request[q].session)' = (s \in Sessions /\ session'[s].row = "live")
      BY <2>1, <2>2 DEF Live
    <3>2. Steady(s)
      OBVIOUS
    <3> QED BY <3>1, <3>2 DEF Steady, Live
  <2>4. /\ request[q].token = session[s].token
        /\ \A c \in Clients : cookies[c].session = s => cookies[c].token < session[s].token
        /\ \A p \in Requests \ {q} :
             request[p].pc \in SessionSteps /\ request[p].session = s =>
               request[p].token < session[s].token
    BY <2>1, <2>2, <2>3 DEF TokenInv, BringsNewest
  <2>5. \A c \in Clients : cookies'[c].session = s => cookies'[c].token < session[s].token
    BY <2>2, <2>4, HeldType DEF SteadyCookies
  <2>6. \A p \in Requests \ {q} :
          request'[p].pc \in SessionSteps /\ request'[p].session = s =>
            request'[p].token < session[s].token
    BY <2>4 DEF SteadyRequest
  <2> QED BY <2>1, <2>2, <2>3, <2>4, <2>5, <2>6
<1> QED BY <1>2, <1>3, <1>4, <1>5 DEF TokenInv

\* A response that carries a token stays on its way while its session lives.
KeepsBringing(q) ==
  request[q].pc \in Bringing /\ session'[request[q].session].row = "live" =>
    /\ request'[q].pc \in Bringing
    /\ request'[q].client = request[q].client
    /\ request'[q].session = request[q].session
    /\ request'[q].token = request[q].token

LEMMA SteadyDelivery ==
  ASSUME TypeOK, NewestTokenIsDelivered,
         \A s \in Sessions : Steady(s),
         \A c \in Clients : SteadyCookies(c),
         faults' = 0 => faults = 0 /\ \A q \in Requests : KeepsBringing(q)
  PROVE  NewestTokenIsDelivered'
<1> SUFFICES ASSUME faults' = 0, NEW c \in Clients, Live(cookies[c].session)',
                    session'[cookies'[c].session].token # cookies'[c].token
             PROVE  \E r \in Requests : BringsToken(r, c)'
  BY DEF NewestTokenIsDelivered, Live
<1>1. cookies'[c].session \in Sessions /\ session'[cookies'[c].session].row = "live"
  BY DEF Live
<1>2. cookies'[c].session = cookies[c].session /\ cookies'[c].token = cookies[c].token
  BY <1>1, AccountNulls DEF SteadyCookies
<1>3. PICK s \in Sessions : s = cookies[c].session
  BY <1>1, <1>2
<1>4. /\ session'[s].row = "live" /\ session[s].row = "live"
      /\ session'[s].token = session[s].token
  BY <1>1, <1>2, <1>3 DEF Steady, Live
<1>5. PICK r \in Requests : BringsToken(r, c)
  BY <1>2, <1>3, <1>4 DEF NewestTokenIsDelivered, Live
<1>6. KeepsBringing(r)
  OBVIOUS
<1>7. BringsToken(r, c)'
  BY <1>2, <1>3, <1>4, <1>5, <1>6 DEF BringsToken, KeepsBringing, Bringing
<1> QED BY <1>7

DeliveryInv == TypeOK /\ TokenInv /\ NewestTokenIsDelivered

LEMMA UnchangedIsSteady ==
  /\ UNCHANGED session => \A s \in Sessions : Steady(s)
  /\ UNCHANGED cookies => \A c \in Clients : SteadyCookies(c)
  /\ \A q \in Requests : request'[q] = request[q] => SteadyRequest(q) /\ KeepsBringing(q)
  BY DEF Steady, Live, SteadyCookies, SteadyRequest, KeepsBringing

LEMMA DeletedIsSteady ==
  ASSUME TypeOK, NEW x
  PROVE  /\ session' = Deleted(x) => \A s \in Sessions : Steady(s)
         /\ session' = Deleted(x) /\ x \in Sessions => session'[x].row # "live"
<1>1. CASE Live(x)
  <2>1. /\ [session[x] EXCEPT !.row = "deleted"].row = "deleted"
        /\ [session[x] EXCEPT !.row = "deleted"].token = session[x].token
    BY <1>1, SessionRow DEF Live
  <2> QED BY <1>1, <2>1 DEF Deleted, Steady, Live, TypeOK
<1>2. CASE ~Live(x)
  BY <1>2 DEF Deleted, Steady, Live
<1> QED BY <1>1, <1>2

LEMMA NotSigningOut ==
  ASSUME NEW q, request'[q].pc \notin SignOutSteps
  PROVE  SignedOut(q)'
  BY DEF SignedOut, SignOutSteps

\* A step of one request that hands out no token.
LEMMA SteadyStep ==
  ASSUME DeliveryInv, NEW r \in Requests, OnlyMoves(r), UNCHANGED faults,
         \A s \in Sessions : Steady(s), \A c \in Clients : SteadyCookies(c),
         SteadyRequest(r), SignedOut(r)', KeepsBringing(r)
  PROVE  TokenInv' /\ NewestTokenIsDelivered'
<1>1. \A q \in Requests \ {r} : SteadyRequest(q) /\ SignedOut(q)' /\ KeepsBringing(q)
  BY UnchangedIsSteady, SteadySignOut DEF OnlyMoves, DeliveryInv, TokenInv
<1>2. TokenInv'
  BY <1>1, SteadyTokens DEF DeliveryInv
<1>3. NewestTokenIsDelivered'
  BY <1>1, SteadyDelivery DEF DeliveryInv
<1> QED BY <1>2, <1>3

LEMMA FinishIsSteady ==
  ASSUME TypeOK, NEW r \in Requests, Finish(r)
  PROVE  /\ OnlyMoves(r) /\ UNCHANGED faults
         /\ request'[r].pc = "idle" /\ SteadyRequest(r) /\ SignedOut(r)'
<1>1. OnlyMoves(r) /\ request'[r].pc = "idle" /\ UNCHANGED faults
  BY MovesOne DEF Finish, counts
<1> QED BY <1>1, PcSets, NotSigningOut DEF SteadyRequest

LEMMA ContinueKeeps ==
  ASSUME TypeOK, NEW r \in Requests, NEW pc, Continue(r, pc)
  PROVE  /\ OnlyMoves(r) /\ UNCHANGED faults /\ request'[r].pc = pc
         /\ request'[r].client = request[r].client /\ request'[r].access = request[r].access
         /\ request'[r].session = request[r].session /\ request'[r].token = request[r].token
<1>1. request[r] \in RequestRows
  BY RequestRow DEF Typed
<1>2. OnlyMoves(r) /\ request'[r] = [request[r] EXCEPT !.pc = pc] /\ UNCHANGED faults
  BY MovesOne DEF Continue, counts
<1> QED BY <1>1, <1>2 DEF RequestRows

LEMMA CheckUserTokens ==
  ASSUME DeliveryInv, NEW r \in Requests, CheckUser(r)
  PROVE  TokenInv' /\ NewestTokenIsDelivered'
<1>1. TypeOK /\ UNCHANGED cookies /\ request[r].pc = "checkUser"
  BY DEF DeliveryInv, CheckUser
<1>2. request[r].session \in Sessions
  BY <1>1, HeldType DEF SessionSteps
<1>3. CASE Continue(r, "respond") /\ UNCHANGED session
  <2>1. SteadyRequest(r) /\ KeepsBringing(r) /\ SignedOut(r)'
    BY <1>1, <1>3, ContinueKeeps, NotSigningOut
       DEF SteadyRequest, KeepsBringing, Bringing, SessionSteps, SignOutSteps
  <2> QED BY <1>1, <1>3, <2>1, ContinueKeeps, UnchangedIsSteady, SteadyStep
<1>4. CASE Finish(r) /\ session' = Deleted(request[r].session)
  <2>1. KeepsBringing(r)
    BY <1>1, <1>2, <1>4, DeletedIsSteady DEF KeepsBringing
  <2> QED BY <1>1, <1>4, <2>1, FinishIsSteady, UnchangedIsSteady, DeletedIsSteady, SteadyStep
<1> QED BY <1>3, <1>4 DEF CheckUser

LEMMA SignOutTokens ==
  ASSUME DeliveryInv, NEW r \in Requests,
         DeleteByRefresh(r) \/ DeleteByAccess(r) \/ ClearCookies(r)
  PROVE  TokenInv' /\ NewestTokenIsDelivered'
<1>1. TypeOK /\ request[r].pc \in SignOutSteps /\ SignedOut(r) /\ RequestHeld(r)
  BY DEF DeliveryInv, TokenInv, DeleteByRefresh, DeleteByAccess, ClearCookies, SignOutSteps
<1>2. KeepsBringing(r)
  BY <1>1, PcSets DEF KeepsBringing
<1>3. CASE DeleteByRefresh(r)
  <2>1. UNCHANGED cookies /\ Continue(r, "deleteAccess")
        /\ session' \in {session, Deleted(request[r].session)}
    BY <1>3 DEF DeleteByRefresh
  <2>2. SteadyRequest(r)
    BY <1>1, <2>1, ContinueKeeps DEF SteadyRequest, SessionSteps
  <2>3. ASSUME request[r].session \in Sessions, session'[request[r].session].row = "live"
        PROVE  request[r].token # session'[request[r].session].token
    <3>1. ~TokenMatches(r) /\ session' = session
      BY <1>1, <1>3, <2>3, DeletedIsSteady DEF DeleteByRefresh
    <3> QED BY <2>3, <3>1 DEF TokenMatches, Live
  <2>4. SignedOut(r)'
    BY <1>1, <2>1, <2>3, ContinueKeeps DEF SignedOut, Live
  <2> QED BY <1>1, <1>2, <2>1, <2>2, <2>4, ContinueKeeps, UnchangedIsSteady, DeletedIsSteady,
             SteadyStep
<1>4. CASE DeleteByAccess(r)
  <2>1. UNCHANGED cookies /\ Continue(r, "clearCookies") /\ session' = Deleted(request[r].access)
        /\ request[r].pc = "deleteAccess"
    BY <1>4 DEF DeleteByAccess
  <2>2. SteadyRequest(r)
    BY <1>1, <2>1, ContinueKeeps DEF SteadyRequest, SessionSteps
  <2>3. /\ \A s \in Sessions : Steady(s)
        /\ request[r].access \in Sessions => session'[request[r].access].row # "live"
    BY <1>1, <2>1, DeletedIsSteady
  <2>4. ASSUME request[r].session \in Sessions, session'[request[r].session].row = "live"
        PROVE  request[r].token # session'[request[r].session].token
    BY <1>1, <2>1, <2>3, <2>4 DEF SignedOut, Steady, Live
  <2>5. SignedOut(r)'
    BY <1>1, <2>1, <2>3, <2>4, ContinueKeeps DEF SignedOut, Live
  <2> QED BY <1>1, <1>2, <2>1, <2>2, <2>3, <2>5, ContinueKeeps, UnchangedIsSteady, SteadyStep
<1>5. CASE ClearCookies(r)
  <2>1. /\ UNCHANGED session /\ Finish(r)
        /\ cookies' = [cookies EXCEPT ![request[r].client] = NoCookies]
    BY <1>5 DEF ClearCookies, rows
  <2>2. \A c \in Clients : cookies'[c] \in {cookies[c], NoCookies}
    BY <1>1, <2>1 DEF TypeOK
  <2>3. \A c \in Clients : SteadyCookies(c)
    BY <2>2 DEF SteadyCookies, NoCookies
  <2> QED BY <1>1, <1>2, <2>1, <2>3, FinishIsSteady, UnchangedIsSteady, SteadyStep
<1> QED BY <1>3, <1>4, <1>5

\* The request takes what its browser holds: refresh or sign-out.
LEMMA TakesTokens ==
  ASSUME DeliveryInv, NEW r \in Requests, NEW c \in Clients,
         StartRefresh(r, c) \/ StartSignOut(r, c)
  PROVE  TokenInv' /\ NewestTokenIsDelivered'
<1>1. TypeOK /\ request[r].pc = "idle" /\ UNCHANGED <<session, cookies, faults>>
  BY DEF DeliveryInv, StartRefresh, StartSignOut, Start, rows
<1>2. /\ OnlyMoves(r)
      /\ request'[r].pc \in {"rotate", "deleteRefresh"} /\ request'[r].client = c
      /\ request'[r].session = cookies[c].session /\ request'[r].token = cookies[c].token
      /\ request'[r].pc = "deleteRefresh" => request'[r].access = cookies[c].access
  <2> DEFINE x == [IdleRequest EXCEPT !.pc = "rotate", !.client = c,
                                      !.session = cookies[c].session,
                                      !.token = cookies[c].token]
             y == [IdleRequest EXCEPT !.pc = "deleteRefresh", !.client = c,
                                      !.access = cookies[c].access,
                                      !.session = cookies[c].session,
                                      !.token = cookies[c].token]
  <2>1. Start(r, x) \/ Start(r, y)
    BY DEF StartRefresh, StartSignOut
  <2>2. OnlyMoves(r) /\ (request'[r] = x \/ request'[r] = y)
    BY <1>1, <2>1, StartMoves
  <2>3. /\ x.pc = "rotate" /\ x.client = c
        /\ x.session = cookies[c].session /\ x.token = cookies[c].token
    BY DEF IdleRequest
  <2>4. /\ y.pc = "deleteRefresh" /\ y.client = c /\ y.access = cookies[c].access
        /\ y.session = cookies[c].session /\ y.token = cookies[c].token
    BY DEF IdleRequest
  <2> HIDE DEF x, y
  <2> QED BY <2>2, <2>3, <2>4
<1>3. /\ request'[r].pc = "deleteRefresh" => request'[r].pc \notin SessionSteps
      /\ request'[r].pc \notin Bringing /\ request'[r].pc \notin {"deleteAccess", "clearCookies"}
  BY <1>2 DEF SessionSteps, Bringing
<1>4. \A d \in Clients : CookieHeld(d)'
  BY <1>1 DEF DeliveryInv, TokenInv, CookieHeld, Issued
<1>5. \A q \in Requests : RequestHeld(q)'
  <2>1. RequestHeld(r)'
    BY <1>1, <1>2 DEF DeliveryInv, TokenInv, CookieHeld, RequestHeld, Issued, SignOutSteps
  <2>2. \A q \in Requests \ {r} : RequestHeld(q)'
    BY <1>1, <1>2 DEF DeliveryInv, TokenInv, RequestHeld, Issued, OnlyMoves
  <2> QED BY <2>1, <2>2
<1>6. OneBrowser'
  <2>1. \A s \in Sessions, d \in Clients : Belongs(s, d)' => Belongs(s, d)
    BY <1>1, <1>2 DEF Belongs, OnlyMoves
  <2> QED BY <2>1 DEF DeliveryInv, TokenInv, OneBrowser
<1>7. \A q \in Requests : BringsNewest(q)'
  <2>1. BringsNewest(r)'
    BY <1>3 DEF BringsNewest
  <2>2. ASSUME NEW q \in Requests \ {r} PROVE BringsNewest(q)'
    <3>1. BringsNewest(q) /\ request'[q] = request[q]
      BY <1>2 DEF DeliveryInv, TokenInv, OnlyMoves
    <3> QED BY <1>1, <1>2, <1>3, <3>1 DEF BringsNewest, OnlyMoves, Live
  <2> QED BY <2>1, <2>2
<1>8. \A q \in Requests : SignedOut(q)'
  <2>1. SignedOut(r)'
    BY <1>3 DEF SignedOut
  <2> QED BY <1>1, <1>2, <2>1, UnchangedIsSteady, SteadySignOut DEF DeliveryInv, TokenInv, OnlyMoves
<1>9. NewestTokenIsDelivered'
  <2>1. KeepsBringing(r)
    BY <1>1, PcSets DEF KeepsBringing, Bringing
  <2>2. \A q \in Requests : KeepsBringing(q)
    BY <1>2, <2>1, UnchangedIsSteady DEF OnlyMoves
  <2> QED BY <1>1, <2>2, UnchangedIsSteady, SteadyDelivery DEF DeliveryInv
<1> QED BY <1>4, <1>5, <1>6, <1>7, <1>8, <1>9 DEF TokenInv

\* A new session is nobody's yet.
LEMMA InsertTokens ==
  ASSUME DeliveryInv, NEW r \in Requests, NEW s \in Sessions, InsertSession(r, s)
  PROVE  TokenInv' /\ NewestTokenIsDelivered'
<1>1. /\ TypeOK /\ request[r].pc = "insertSession" /\ session[s].row = "free"
      /\ UNCHANGED <<cookies, faults>>
  BY DEF DeliveryInv, InsertSession, counts
<1>2. /\ OnlyMoves(r) /\ request'[r].pc = "respond" /\ request'[r].session = s
      /\ request'[r].token = 1 /\ request'[r].client = request[r].client
  <2> DEFINE x == [request[r] EXCEPT !.pc = "respond", !.session = s, !.token = 1]
  <2>1. request[r] \in RequestRows
    BY <1>1, RequestRow DEF Typed
  <2>2. x.pc = "respond" /\ x.session = s /\ x.token = 1 /\ x.client = request[r].client
    BY <2>1 DEF RequestRows
  <2>3. request' = [request EXCEPT ![r] = x]
    BY DEF InsertSession
  <2> HIDE DEF x
  <2> QED BY <1>1, <2>2, <2>3, MovesOne
<1>3. /\ session'[s].row = "live" /\ session'[s].token = 1
      /\ \A t \in Sessions \ {s} : session'[t] = session[t]
  BY DEF InsertSession, DeliveryInv, TypeOK
<1>4. /\ \A c \in Clients : cookies[c].session # s
      /\ \A q \in Requests : request[q].pc \in SessionSteps \cup SignOutSteps =>
                               request[q].session # s
  BY <1>1, HeldType DEF DeliveryInv, TokenInv, CookieHeld, RequestHeld, Issued
<1>5. \A c \in Clients : CookieHeld(c)'
  BY <1>1, <1>3, <1>4, HeldType DEF DeliveryInv, TokenInv, CookieHeld, Issued
<1>6. \A q \in Requests : RequestHeld(q)'
  <2>1. RequestHeld(r)'
    BY <1>2, <1>3 DEF RequestHeld, Issued, SignOutSteps
  <2>2. ASSUME NEW q \in Requests \ {r} PROVE RequestHeld(q)'
    <3>1. RequestHeld(q) /\ request'[q] = request[q]
      BY <1>2 DEF DeliveryInv, TokenInv, OnlyMoves
    <3> QED BY <1>1, <1>3, <1>4, <3>1, HeldType DEF RequestHeld, Issued
  <2> QED BY <2>1, <2>2
<1>7. OneBrowser'
  <2>1. \A t \in Sessions \ {s}, c \in Clients : Belongs(t, c)' => Belongs(t, c)
    BY <1>1, <1>2 DEF Belongs, OnlyMoves
  <2>2. \A c \in Clients : Belongs(s, c)' => c = request[r].client
    BY <1>1, <1>2, <1>4 DEF Belongs, OnlyMoves
  <2> QED BY <2>1, <2>2 DEF DeliveryInv, TokenInv, OneBrowser
<1>8. \A q \in Requests : BringsNewest(q)'
  <2>1. BringsNewest(r)'
    BY <1>1, <1>2, <1>3, <1>4 DEF BringsNewest, OnlyMoves
  <2>2. ASSUME NEW q \in Requests \ {r} PROVE BringsNewest(q)'
    <3>1. BringsNewest(q) /\ request'[q] = request[q]
      BY <1>2 DEF DeliveryInv, TokenInv, OnlyMoves
    <3>2. request[q].pc \in Bringing =>
            request[q].session \in Sessions \ {s} /\ request[q].session # request'[r].session
      BY <1>1, <1>2, <1>4, PcSets, HeldType
    <3> QED BY <1>1, <1>2, <1>3, <3>1, <3>2 DEF BringsNewest, OnlyMoves, Live
  <2> QED BY <2>1, <2>2
<1>9. \A q \in Requests : SignedOut(q)'
  <2>1. SignedOut(r)'
    BY <1>2 DEF SignedOut
  <2>2. ASSUME NEW q \in Requests \ {r} PROVE SignedOut(q)'
    <3>1. /\ SignedOut(q) /\ request'[q] = request[q]
          /\ request[q].pc \in SignOutSteps =>
               request[q].session # s /\ request[q].access \in {NoSession, request[q].session}
      BY <1>2, <1>4 DEF DeliveryInv, TokenInv, OnlyMoves, RequestHeld
    <3> QED BY <1>1, <1>3, <3>1, AccountNulls DEF SignedOut, SignOutSteps, Live
  <2> QED BY <2>1, <2>2
<1>10. NewestTokenIsDelivered'
  <2> SUFFICES ASSUME faults' = 0, NEW c \in Clients, Live(cookies[c].session)',
                      session'[cookies'[c].session].token # cookies'[c].token
               PROVE  \E q \in Requests : BringsToken(q, c)'
    BY DEF NewestTokenIsDelivered, Live
  <2>1. PICK t \in Sessions \ {s} : t = cookies[c].session
    BY <1>1, <1>4 DEF Live
  <2>2. Live(t) /\ session[t].token # cookies[c].token
    BY <1>1, <1>3, <2>1 DEF Live
  <2>3. PICK q \in Requests : BringsToken(q, c)
    BY <1>1, <2>1, <2>2 DEF DeliveryInv, NewestTokenIsDelivered
  <2>4. request'[q] = request[q]
    BY <1>1, <1>2, <2>3 DEF BringsToken, OnlyMoves
  <2>5. BringsToken(q, c)'
    BY <1>1, <1>3, <2>1, <2>3, <2>4 DEF BringsToken
  <2> QED BY <2>5
<1> QED BY <1>5, <1>6, <1>7, <1>8, <1>9, <1>10 DEF TokenInv

\* Two responses never bring tokens of one session: each would be the newest.
LEMMA OneBringer ==
  ASSUME DeliveryInv, NEW q \in Requests, NEW r \in Requests, q # r,
         request[q].pc \in Bringing, request[r].pc \in SessionSteps,
         Live(request[q].session), request[r].session = request[q].session
  PROVE  request[r].token # session[request[r].session].token
<1>1. request[r].token < session[request[r].session].token
  BY DEF DeliveryInv, TokenInv, BringsNewest
<1>2. request[r].token \in Nat /\ session[request[r].session].token \in Nat
  BY HeldType DEF DeliveryInv
<1> QED BY <1>1, <1>2

LEMMA RespondTokens ==
  ASSUME DeliveryInv, NEW r \in Requests, Respond(r)
  PROVE  TokenInv' /\ NewestTokenIsDelivered'
<1>1. /\ TypeOK /\ request[r].pc = "respond" /\ UNCHANGED <<session, faults>>
      /\ OnlyMoves(r) /\ request'[r].pc = "idle"
  BY MovesOne DEF DeliveryInv, Respond, Finish, counts, rows
<1>2. PICK s \in Sessions, b \in Clients : s = request[r].session /\ b = request[r].client
  BY <1>1, HeldType DEF SessionSteps
<1>3. /\ cookies'[b].access = s /\ cookies'[b].session = s
      /\ cookies'[b].token = request[r].token
      /\ \A c \in Clients \ {b} : cookies'[c] = cookies[c]
  BY <1>1, <1>2 DEF Respond, TypeOK
<1>4. \A c \in Clients : CookieHeld(c)'
  <2>1. Issued(s, request[r].token)
    BY <1>1, <1>2, AccountNulls DEF DeliveryInv, TokenInv, RequestHeld, SessionSteps
  <2>2. CookieHeld(b)'
    BY <1>1, <1>3, <2>1 DEF CookieHeld, Issued
  <2>3. \A c \in Clients \ {b} : CookieHeld(c)'
    BY <1>1, <1>3 DEF DeliveryInv, TokenInv, CookieHeld, Issued
  <2> QED BY <2>2, <2>3
<1>5. \A q \in Requests : RequestHeld(q)'
  BY <1>1, PcSets DEF DeliveryInv, TokenInv, RequestHeld, Issued, OnlyMoves
<1>6. OneBrowser'
  <2>1. Belongs(s, b)
    BY <1>1, <1>2 DEF Belongs, SessionSteps
  <2>2. \A t \in Sessions, c \in Clients : Belongs(t, c)' => Belongs(t, c)
    BY <1>1, <1>3, <2>1, PcSets DEF Belongs, OnlyMoves
  <2> QED BY <2>2 DEF DeliveryInv, TokenInv, OneBrowser
<1>7. Live(s) => request[r].token = session[s].token
  BY <1>1, <1>2 DEF DeliveryInv, TokenInv, BringsNewest, Bringing
<1>8. \A q \in Requests : BringsNewest(q)'
  <2>1. BringsNewest(r)'
    BY <1>1 DEF BringsNewest, Bringing
  <2>2. ASSUME NEW q \in Requests \ {r} PROVE BringsNewest(q)'
    <3>1. BringsNewest(q) /\ request'[q] = request[q]
      BY <1>1 DEF DeliveryInv, TokenInv, OnlyMoves
    <3>2. request[q].pc \in Bringing /\ Live(request[q].session) => request[q].session # s
      BY <1>1, <1>2, <1>7, OneBringer DEF SessionSteps
    <3> QED BY <1>1, <1>3, <3>1, <3>2, PcSets DEF BringsNewest, OnlyMoves, Live
  <2> QED BY <2>1, <2>2
<1>9. \A q \in Requests : SignedOut(q)'
  BY <1>1, NotSigningOut, PcSets, UnchangedIsSteady, SteadySignOut
     DEF DeliveryInv, TokenInv, OnlyMoves
<1>10. NewestTokenIsDelivered'
  <2> SUFFICES ASSUME faults' = 0, NEW c \in Clients, Live(cookies[c].session)',
                      session'[cookies'[c].session].token # cookies'[c].token
               PROVE  \E q \in Requests : BringsToken(q, c)'
    BY DEF NewestTokenIsDelivered, Live
  <2>1. c # b
    BY <1>1, <1>3, <1>7 DEF Live
  <2>2. Live(cookies[c].session) /\ session[cookies[c].session].token # cookies[c].token
    <3>1. Live(cookies[c].session)' = (cookies'[c].session \in Sessions
                                       /\ session'[cookies'[c].session].row = "live")
      BY DEF Live
    <3> QED BY <1>1, <1>3, <2>1, <3>1 DEF Live
  <2>3. PICK q \in Requests : BringsToken(q, c)
    BY <1>1, <2>2 DEF DeliveryInv, NewestTokenIsDelivered
  <2>4. request'[q] = request[q]
    BY <1>1, <1>2, <2>1, <2>3 DEF BringsToken, OnlyMoves
  <2>5. BringsToken(q, c)'
    BY <1>1, <1>3, <2>1, <2>3, <2>4 DEF BringsToken
  <2> QED BY <2>5
<1> QED BY <1>4, <1>5, <1>6, <1>8, <1>9, <1>10 DEF TokenInv

\* The newest token is used once: whoever holds another is behind for good.
LEMMA RotateTokens ==
  ASSUME DeliveryInv, NEW r \in Requests, Rotate(r)
  PROVE  TokenInv' /\ NewestTokenIsDelivered'
<1>1. TypeOK /\ request[r].pc = "rotate" /\ UNCHANGED <<cookies, faults>>
  BY DEF DeliveryInv, Rotate, Finish, counts
<1>2. PICK s \in Sessions : s = request[r].session
  BY <1>1, HeldType DEF SessionSteps
<1>3. CASE Finish(r) /\ session' \in {session, Deleted(s)}
  <2>1. KeepsBringing(r)
    BY <1>1 DEF KeepsBringing, Bringing
  <2> QED BY <1>1, <1>3, <2>1, FinishIsSteady, UnchangedIsSteady, DeletedIsSteady, SteadyStep
<1>4. CASE /\ TokenMatches(r)
           /\ session' = [session EXCEPT ![s].token = @ + 1]
           /\ request' = [request EXCEPT ![r] = [@ EXCEPT !.pc = "checkUser",
                                                          !.email = session[s].email,
                                                          !.token = session[s].token + 1]]
  <2>1. PICK t \in Nat : t = session[s].token
    BY <1>1, HeldType
  <2>2. Live(s) /\ request[r].token = t
    BY <1>2, <1>4, <2>1 DEF TokenMatches
  <2>3. /\ session'[s].token = t + 1 /\ session'[s].row = "live"
        /\ \A u \in Sessions \ {s} : session'[u] = session[u]
    <3>1. session' = [session EXCEPT ![s] = [session[s] EXCEPT !.token = t + 1]]
      BY <1>4, <2>1
    <3>2. /\ [session[s] EXCEPT !.token = t + 1].token = t + 1
          /\ [session[s] EXCEPT !.token = t + 1].row = session[s].row
      BY <1>1, <2>2, SessionRow
    <3> QED BY <1>1, <2>2, <3>1, <3>2 DEF TypeOK, Live
  <2>4. /\ OnlyMoves(r) /\ request'[r].pc = "checkUser" /\ request'[r].client = request[r].client
        /\ request'[r].session = s /\ request'[r].token = t + 1
    <3> DEFINE x == [request[r] EXCEPT !.pc = "checkUser", !.email = session[s].email,
                                       !.token = t + 1]
    <3>1. request[r] \in RequestRows
      BY <1>1, RequestRow DEF Typed
    <3>2. x.pc = "checkUser" /\ x.client = request[r].client /\ x.session = s /\ x.token = t + 1
      BY <1>2, <3>1 DEF RequestRows
    <3>3. request' = [request EXCEPT ![r] = x]
      BY <1>4, <2>1
    <3> HIDE DEF x
    <3> QED BY <1>1, <3>2, <3>3, MovesOne
  <2>5. /\ \A c \in Clients : cookies[c].session = s => cookies[c].token <= t
        /\ \A q \in Requests : request[q].pc \in SessionSteps \cup SignOutSteps
                               /\ request[q].session = s => request[q].token <= t
    BY <2>1, AccountNulls DEF DeliveryInv, TokenInv, CookieHeld, RequestHeld, Issued
  <2>6. /\ \A c \in Clients : cookies[c].token \in Nat
        /\ \A q \in Requests : request[q].token \in Nat
    BY <1>1, HeldType
  <2>7. /\ \A c \in Clients : cookies[c].session = s => cookies[c].token < t + 1
        /\ \A q \in Requests : request[q].pc \in SessionSteps \cup SignOutSteps
                               /\ request[q].session = s =>
                                 request[q].token < t + 1 /\ request[q].token # t + 1
    BY <2>5, <2>6
  <2>8. \A c \in Clients : CookieHeld(c)'
    <3> SUFFICES ASSUME NEW c \in Clients PROVE CookieHeld(c)'
      OBVIOUS
    <3>1. CookieHeld(c) /\ cookies[c].session \in Sessions \cup {NoSession}
      BY <1>1, HeldType DEF DeliveryInv, TokenInv
    <3>2. cookies[c].session = s => cookies[c].token <= t + 1
      BY <2>5, <2>6
    <3> QED BY <1>1, <2>3, <3>1, <3>2 DEF CookieHeld, Issued
  <2>9. \A q \in Requests : RequestHeld(q)'
    <3>1. RequestHeld(r)'
      BY <2>3, <2>4 DEF RequestHeld, Issued, SignOutSteps
    <3>2. ASSUME NEW q \in Requests \ {r} PROVE RequestHeld(q)'
      <4>1. /\ RequestHeld(q) /\ request'[q] = request[q]
            /\ request[q].session \in Sessions \cup {NoSession}
        BY <1>1, <2>4, HeldType DEF DeliveryInv, TokenInv, OnlyMoves
      <4>2. request[q].pc \in SessionSteps \cup SignOutSteps /\ request[q].session = s =>
              request[q].token <= t + 1
        BY <2>5, <2>6
      <4> QED BY <2>3, <4>1, <4>2 DEF RequestHeld, Issued
    <3> QED BY <3>1, <3>2
  <2>10. OneBrowser'
    <3>1. \A u \in Sessions, c \in Clients : Belongs(u, c)' => Belongs(u, c)
      BY <1>1, <1>2, <2>4 DEF Belongs, OnlyMoves, SessionSteps
    <3> QED BY <3>1 DEF DeliveryInv, TokenInv, OneBrowser
  <2>11. \A q \in Requests \ {r} : request[q].pc \in Bringing => request[q].session # s
    BY <1>1, <1>2, <2>1, <2>2, OneBringer DEF SessionSteps
  <2>12. \A q \in Requests : BringsNewest(q)'
    <3>1. BringsNewest(r)'
      BY <1>1, <2>3, <2>4, <2>7 DEF BringsNewest, OnlyMoves
    <3>2. ASSUME NEW q \in Requests \ {r} PROVE BringsNewest(q)'
      <4>1. BringsNewest(q) /\ request'[q] = request[q]
        BY <2>4 DEF DeliveryInv, TokenInv, OnlyMoves
      <4>2. request[q].pc \in Bringing => request[q].session \in Sessions \ {s}
        BY <1>1, <2>11, PcSets, HeldType
      <4> QED BY <1>1, <2>3, <2>4, <4>1, <4>2 DEF BringsNewest, OnlyMoves, Live
    <3> QED BY <3>1, <3>2
  <2>13. \A q \in Requests : SignedOut(q)'
    <3>1. SignedOut(r)'
      BY <2>4 DEF SignedOut
    <3>2. ASSUME NEW q \in Requests \ {r} PROVE SignedOut(q)'
      <4>1. /\ SignedOut(q) /\ request'[q] = request[q]
        BY <2>4 DEF DeliveryInv, TokenInv, OnlyMoves
      <4>2. \A u \in Sessions : Live(u)' => Live(u)
        BY <2>2, <2>3 DEF Live
      <4>3. request[q].pc \in SignOutSteps /\ request[q].session = s =>
              request[q].token # session'[s].token
        BY <2>3, <2>7
      <4> QED BY <2>3, <4>1, <4>2, <4>3 DEF SignedOut, SignOutSteps, Live
    <3> QED BY <3>1, <3>2
  <2>14. NewestTokenIsDelivered'
    <3> SUFFICES ASSUME faults' = 0, NEW c \in Clients, Live(cookies[c].session)',
                        session'[cookies'[c].session].token # cookies'[c].token
                 PROVE  \E q \in Requests : BringsToken(q, c)'
      BY DEF NewestTokenIsDelivered, Live
    <3>1. CASE cookies[c].session = s
      <4>1. Belongs(s, c) /\ Belongs(s, request[r].client) /\ request[r].client \in Clients
        BY <1>1, <1>2, <3>1, HeldType DEF Belongs, SessionSteps
      <4>2. request[r].client = c
        BY <4>1 DEF DeliveryInv, TokenInv, OneBrowser
      <4>3. BringsToken(r, c)'
        BY <1>1, <2>3, <2>4, <3>1, <4>2 DEF BringsToken
      <4> QED BY <4>3
    <3>2. CASE cookies[c].session # s
      <4>1. PICK u \in Sessions \ {s} : u = cookies[c].session
        BY <1>1, <3>2 DEF Live
      <4>2. Live(u) /\ session[u].token # cookies[c].token
        BY <1>1, <2>3, <4>1 DEF Live
      <4>3. PICK q \in Requests : BringsToken(q, c)
        BY <1>1, <4>1, <4>2 DEF DeliveryInv, NewestTokenIsDelivered
      <4>4. request'[q] = request[q]
        BY <1>1, <2>4, <4>3 DEF BringsToken, OnlyMoves
      <4>5. BringsToken(q, c)'
        BY <1>1, <2>3, <4>1, <4>3, <4>4 DEF BringsToken
      <4> QED BY <4>5
    <3> QED BY <3>1, <3>2
  <2> QED BY <2>8, <2>9, <2>10, <2>12, <2>13, <2>14 DEF TokenInv
<1> QED BY <1>2, <1>3, <1>4 DEF Rotate

LEMMA SessionRequestTokens ==
  ASSUME DeliveryInv, NEW r \in Requests, SessionRequest(r)
  PROVE  TokenInv' /\ NewestTokenIsDelivered'
<1>1. ASSUME NEW c \in Clients, NEW e \in Emails, SignInReads(r, c, e)
      PROVE  TokenInv' /\ NewestTokenIsDelivered'
  <2> DEFINE x == [IdleRequest EXCEPT !.pc = "insertSession", !.client = c, !.email = e]
  <2>1. x.pc = "insertSession"
    BY DEF IdleRequest
  <2>2. OnlyMoves(r) /\ request'[r] = x
    BY <1>1, StartMoves DEF SignInReads, DeliveryInv
  <2>3. request[r].pc = "idle" /\ UNCHANGED <<session, cookies, faults>>
    BY <1>1 DEF SignInReads, Start, rows
  <2>4. SteadyRequest(r) /\ SignedOut(r)' /\ KeepsBringing(r)
    BY <2>1, <2>2, <2>3, PcSets, NotSigningOut DEF SteadyRequest, KeepsBringing
  <2> QED BY <2>2, <2>3, <2>4, UnchangedIsSteady, SteadyStep
<1> QED BY <1>1, TakesTokens, InsertTokens, RespondTokens, RotateTokens, CheckUserTokens,
           SignOutTokens DEF SessionRequest

LEMMA InvitationRequestTokens ==
  ASSUME DeliveryInv, NEW r \in Requests, InvitationRequest(r)
  PROVE  TokenInv' /\ NewestTokenIsDelivered'
<1>1. TypeOK /\ UNCHANGED <<session, cookies, faults>>
  BY DEF DeliveryInv, InvitationRequest, StartInvitation, StartUser, PreviewLink, TakeEmailLock,
         EmailIsBusy, ReleaseEmailLock, InviteReads, InviteWrites, AcceptCommits, CreateCommits,
         Start, Continue, Finish, rows, counts
<1>2. request[r].pc \in WaitingSteps \cup LockedSteps \cup {"idle"}
  BY DEF InvitationRequest, StartInvitation, StartUser, PreviewLink, TakeEmailLock, EmailIsBusy,
         ReleaseEmailLock, InviteReads, InviteWrites, AcceptCommits, CreateCommits, Start,
         WaitingSteps, LockedSteps
<1>3. OnlyMoves(r) /\ request'[r].pc \in WaitingSteps \cup LockedSteps \cup {"idle"}
  <2>1. ASSUME NEW pc, Continue(r, pc), pc \in WaitingSteps \cup LockedSteps
        PROVE  OnlyMoves(r) /\ request'[r].pc \in WaitingSteps \cup LockedSteps
    BY <1>1, <2>1, ContinueKeeps
  <2>2. Finish(r) => OnlyMoves(r) /\ request'[r].pc = "idle"
    BY <1>1, MovesOne
  <2>3. ASSUME NEW e \in Emails, StartInvitation(r, e) \/ StartUser(r, e)
        PROVE  OnlyMoves(r) /\ request'[r].pc \in WaitingSteps
    <3> DEFINE x(pc) == [IdleRequest EXCEPT !.pc = pc, !.email = e]
    <3>1. \A pc : x(pc).pc = pc
      BY DEF IdleRequest
    <3>2. Start(r, x("inviteLock")) \/ Start(r, x("createLock"))
      BY <2>3 DEF StartInvitation, StartUser
    <3>3. OnlyMoves(r) /\ (request'[r] = x("inviteLock") \/ request'[r] = x("createLock"))
      BY <1>1, <3>2, StartMoves
    <3> QED BY <3>1, <3>3 DEF WaitingSteps
  <2>4. ASSUME NEW i \in Invitations, PreviewLink(r, i)
        PROVE  OnlyMoves(r) /\ request'[r].pc \in WaitingSteps
    <3> DEFINE x == [IdleRequest EXCEPT !.pc = "acceptLock", !.email = invitation[i].email,
                                        !.invitation = i, !.link = invitation[i].link]
    <3>1. x.pc = "acceptLock"
      BY DEF IdleRequest
    <3>2. OnlyMoves(r) /\ request'[r] = x
      BY <1>1, <2>4, StartMoves DEF PreviewLink
    <3> QED BY <3>1, <3>2 DEF WaitingSteps
  <2>5. CASE TakeEmailLock(r)
    BY <2>1, <2>5 DEF TakeEmailLock, FirstStep, WaitingSteps, LockedSteps
  <2>6. CASE InviteReads(r)
    <3> DEFINE x == [request[r] EXCEPT !.pc = "inviteWrites", !.seen = OpenFor(request[r].email)]
    <3>1. request[r] \in RequestRows
      BY <1>1, RequestRow DEF Typed
    <3>2. x.pc = "inviteWrites"
      BY <3>1 DEF RequestRows
    <3>3. Continue(r, "release") \/ request' = [request EXCEPT ![r] = x]
      BY <2>6 DEF InviteReads
    <3> HIDE DEF x
    <3> QED BY <1>1, <2>1, <3>2, <3>3, MovesOne DEF LockedSteps
  <2>7. CASE InviteWrites(r) \/ AcceptCommits(r) \/ CreateCommits(r)
    BY <2>1, <2>7 DEF InviteWrites, AcceptCommits, CreateCommits, LockedSteps
  <2>8. CASE EmailIsBusy(r) \/ ReleaseEmailLock(r)
    BY <2>2, <2>8 DEF EmailIsBusy, ReleaseEmailLock
  <2> QED BY <2>3, <2>4, <2>5, <2>6, <2>7, <2>8 DEF InvitationRequest
<1>4. (WaitingSteps \cup LockedSteps \cup {"idle"}) \cap (SessionSteps \cup SignOutSteps) = {}
  BY DEF WaitingSteps, LockedSteps, SessionSteps, SignOutSteps
<1>5. SteadyRequest(r) /\ SignedOut(r)' /\ KeepsBringing(r)
  BY <1>2, <1>3, <1>4, PcSets, NotSigningOut DEF SteadyRequest, KeepsBringing
<1> QED BY <1>1, <1>3, <1>5, UnchangedIsSteady, SteadyStep

LEMMA FailTokens ==
  ASSUME DeliveryInv, NEW r \in Requests, RequestFails(r)
  PROVE  TokenInv' /\ NewestTokenIsDelivered'
<1>1. TypeOK /\ UNCHANGED <<session, cookies>> /\ faults' = faults + 1 /\ faults \in Nat
  BY AccountBounds DEF DeliveryInv, TypeOK, RequestFails, rows
<1>2. OnlyMoves(r) /\ request'[r].pc = "idle"
  <2>1. OnlyMoves(r) /\ request'[r] = IdleRequest
    BY <1>1, MovesOne DEF RequestFails
  <2> QED BY <2>1 DEF IdleRequest
<1>3. \A q \in Requests : SteadyRequest(q) /\ SignedOut(q)'
  BY <1>1, <1>2, PcSets, NotSigningOut, UnchangedIsSteady, SteadySignOut
     DEF SteadyRequest, OnlyMoves, DeliveryInv, TokenInv
<1>4. faults' # 0
  BY <1>1
<1> QED BY <1>1, <1>3, <1>4, UnchangedIsSteady, SteadyTokens
        DEF DeliveryInv, NewestTokenIsDelivered

LEMMA OtherTokens ==
  ASSUME DeliveryInv, TimePasses \/ Administration \/ UNCHANGED vars
  PROVE  TokenInv' /\ NewestTokenIsDelivered'
<1>1. TypeOK /\ UNCHANGED <<request, faults>>
  BY DEF DeliveryInv, TimePasses, Administration, AccessExpires, SessionExpires,
         InvitationExpires, UpdateStatus, ResendInvitation, RevokeInvitation, rows, counts, vars
<1>2. \A c \in Clients : SteadyCookies(c)
  <2>1. CASE UNCHANGED cookies
    BY <2>1, UnchangedIsSteady
  <2>2. ASSUME NEW c \in Clients, AccessExpires(c)
        PROVE  \A d \in Clients : SteadyCookies(d)
    <3>1. cookies \in [Clients -> Cookies] /\ cookies' = [cookies EXCEPT ![c].access = NoSession]
      BY <1>1, <2>2 DEF TypeOK, AccessExpires
    <3> QED BY <3>1 DEF SteadyCookies, Cookies
  <2> QED BY <2>1, <2>2 DEF TimePasses, Administration, SessionExpires,
         InvitationExpires, UpdateStatus, ResendInvitation, RevokeInvitation, vars
<1>3. \A s \in Sessions : Steady(s)
  <2>1. CASE UNCHANGED session
    BY <2>1, UnchangedIsSteady
  <2>2. ASSUME NEW s \in Sessions, SessionExpires(s)
        PROVE  \A t \in Sessions : Steady(t)
    <3>1. /\ [session[s] EXCEPT !.expired = TRUE].row = session[s].row
          /\ [session[s] EXCEPT !.expired = TRUE].token = session[s].token
      BY <1>1, <2>2, SessionRow DEF SessionExpires
    <3>2. session' = [session EXCEPT ![s] = [session[s] EXCEPT !.expired = TRUE]]
      BY <2>2 DEF SessionExpires
    <3> QED BY <1>1, <3>1, <3>2 DEF TypeOK, Steady, Live
  <2>3. ASSUME NEW E \in SUBSET Emails, NEW status \in {"enabled", "disabled"},
               UpdateStatus(E, status), NEW s \in Sessions
        PROVE  Steady(s)
    <3>1. Live(s) => /\ [session[s] EXCEPT !.row = "deleted"].row = "deleted"
                     /\ [session[s] EXCEPT !.row = "deleted"].token = session[s].token
      BY <1>1, SessionRow
    <3>2. \/ session'[s] = session[s]
          \/ Live(s) /\ session'[s] = [session[s] EXCEPT !.row = "deleted"]
      BY <2>3 DEF UpdateStatus
    <3> QED BY <3>1, <3>2 DEF Steady, Live
  <2> QED BY <2>1, <2>2, <2>3 DEF TimePasses, Administration, AccessExpires,
         InvitationExpires, ResendInvitation, RevokeInvitation, vars, rows
<1>4. \A q \in Requests : SteadyRequest(q) /\ SignedOut(q)' /\ KeepsBringing(q)
  BY <1>1, <1>3, UnchangedIsSteady, SteadySignOut DEF DeliveryInv, TokenInv
<1> QED BY <1>1, <1>2, <1>3, <1>4, SteadyTokens, SteadyDelivery DEF DeliveryInv

LEMMA InitTokens == Init => DeliveryInv
<1> SUFFICES ASSUME Init PROVE DeliveryInv
  OBVIOUS
<1>1. TypeOK
  BY InitType
<1>2. /\ \A c \in Clients : cookies[c].session = NoSession /\ cookies[c].access = NoSession
      /\ \A r \in Requests : request[r].pc = "idle"
  BY DEF Init, NoCookies, IdleRequest
<1>3. TokenInv
  BY <1>2, PcSets, AccountNulls DEF TokenInv, CookieHeld, RequestHeld, OneBrowser, Belongs,
                                     BringsNewest, SignedOut
<1>4. NewestTokenIsDelivered
  BY <1>2, AccountNulls DEF NewestTokenIsDelivered, Live
<1> QED BY <1>1, <1>3, <1>4 DEF DeliveryInv

LEMMA Deliveries == Spec => []DeliveryInv
<1>1. DeliveryInv /\ [Next]_vars => DeliveryInv'
  <2> SUFFICES ASSUME DeliveryInv, [Next]_vars PROVE DeliveryInv'
    OBVIOUS
  <2>1. TypeOK'
    BY NextType DEF DeliveryInv
  <2>2. TokenInv' /\ NewestTokenIsDelivered'
    BY SessionRequestTokens, InvitationRequestTokens, FailTokens, OtherTokens DEF Next
  <2> QED BY <2>1, <2>2 DEF DeliveryInv
<1> QED BY <1>1, InitTokens, PTL DEF Spec

(***************************************************************************)
(* A sign-out that answers has ended the session of its cookies, also when *)
(* another tab rotated the refresh token meanwhile: only if the access     *)
(* cookie had expired too does that session go on.                         *)
(***************************************************************************)
THEOREM SignOutsEndSessions == Spec => []SignOutEndsSession
<1>1. DeliveryInv => SignOutEndsSession
  <2> SUFFICES ASSUME DeliveryInv, NEW r \in Requests, request[r].pc = "clearCookies",
                      NEW s \in {request[r].access, request[r].session}, Live(s)
               PROVE  request[r].access = NoSession /\ session[s].token # request[r].token
    BY DEF SignOutEndsSession
  <2>1. SignedOut(r) /\ RequestHeld(r)
    BY DEF DeliveryInv, TokenInv
  <2> QED BY <2>1 DEF SignedOut, RequestHeld, SignOutSteps
<1> QED BY <1>1, Deliveries, PTL

(***************************************************************************)
(* Tabs that refresh together do not sign each other out: while no request *)
(* fails, the newest token of a browser's session is in the browser or in  *)
(* a response on its way there, however sign-ins, refreshes and sign-outs  *)
(* of it and of other browsers overlap.                                    *)
(***************************************************************************)
THEOREM NewestTokensAreDelivered == Spec => []NewestTokenIsDelivered
  BY Deliveries, PTL DEF DeliveryInv

=============================================================================
