------------------------------ MODULE Accounts ------------------------------
(***************************************************************************)
(* Users, their sessions and the invitations that create them.  A request  *)
(* is the statements between two of its awaits.  A transaction that locks  *)
(* the rows it reads is one step; createInvitation, which also reads a     *)
(* snapshot, is two.  Tokens and links are counted, newest last: the       *)
(* database stores the digest of the newest only.                          *)
(*                                                                         *)
(* Passwords are right, names and roles are left out: Emails are the users *)
(* that updateStatus accepts, not administrators.                          *)
(***************************************************************************)
EXTENDS Naturals, FiniteSets

CONSTANTS Emails, Clients,          \* a client is a browser: tabs share cookies
          Sessions, Invitations,    \* row ids
          Requests,                 \* HTTP requests in progress
          NoEmail, NoClient, NoSession, NoInvitation, NoRequest,
          MaxTokens, MaxLinks,      \* bounds on rotations and on links sent
          MaxStarts, MaxEdits,      \* bounds on requests and on administrator edits
          MaxFaults                 \* bound on requests that fail half-way

ASSUME AccountNulls ==
  /\ NoEmail \notin Emails
  /\ NoClient \notin Clients
  /\ NoSession \notin Sessions
  /\ NoInvitation \notin Invitations
  /\ NoRequest \notin Requests
ASSUME AccountBounds ==
  /\ MaxTokens \in Nat \ {0} /\ MaxLinks \in Nat \ {0}
  /\ MaxStarts \in Nat /\ MaxEdits \in Nat /\ MaxFaults \in Nat

VARIABLES
  user,        \* the user row of an e-mail
  session,     \* session rows
  cookies,     \* what each browser holds: access and refresh cookie
  invitation,  \* user_invitation rows
  emailLock,   \* GET_LOCK of accountEmailLockName: the request that holds it
  request,     \* what each request has read and does next
  starts, edits, faults

rows == <<user, session, invitation>>
counts == <<starts, edits, faults>>
vars == <<rows, cookies, emailLock, request, counts>>

NoSessionRow == [row |-> "free", email |-> NoEmail, token |-> 0, expired |-> FALSE]
NoInvitationRow == [row |-> "free", email |-> NoEmail, link |-> 0, expired |-> FALSE]
NoCookies == [access |-> NoSession, session |-> NoSession, token |-> 0]
IdleRequest == [pc |-> "idle", client |-> NoClient, email |-> NoEmail,
                access |-> NoSession, session |-> NoSession, token |-> 0,
                invitation |-> NoInvitation, link |-> 0, seen |-> {}]

Init ==
  /\ user \in [Emails -> {"absent", "enabled"}]
  /\ session = [s \in Sessions |-> NoSessionRow]
  /\ cookies = [c \in Clients |-> NoCookies]
  /\ invitation = [i \in Invitations |-> NoInvitationRow]
  /\ emailLock = [e \in Emails |-> NoRequest]
  /\ request = [r \in Requests |-> IdleRequest]
  /\ starts = 0 /\ edits = 0 /\ faults = 0

-----------------------------------------------------------------------------
Live(s) == s \in Sessions /\ session[s].row = "live"
Open(i) == i \in Invitations /\ invitation[i].row = "open"
OpenFor(e) == {i \in Invitations : Open(i) /\ invitation[i].email = e}

Start(r, next) ==
  /\ request[r].pc = "idle"
  /\ starts < MaxStarts
  /\ starts' = starts + 1
  /\ request' = [request EXCEPT ![r] = next]
  /\ UNCHANGED <<edits, faults>>

Continue(r, pc) == request' = [request EXCEPT ![r].pc = pc] /\ UNCHANGED counts
Finish(r) == request' = [request EXCEPT ![r] = IdleRequest] /\ UNCHANGED counts

\* DELETE FROM session WHERE id = ? finds the row or nothing.
Deleted(s) == IF Live(s) THEN [session EXCEPT ![s].row = "deleted"] ELSE session

-----------------------------------------------------------------------------
(* Sessions *)

\* signIn reads the user and checks the password.
SignInReads(r, c, e) ==
  /\ user[e] = "enabled"
  /\ Start(r, [IdleRequest EXCEPT !.pc = "insertSession", !.client = c, !.email = e])
  /\ UNCHANGED <<rows, cookies, emailLock>>

InsertSession(r, s) ==
  /\ request[r].pc = "insertSession"
  /\ session[s].row = "free"
  /\ session' = [session EXCEPT ![s] = [row |-> "live", email |-> request[r].email,
                                        token |-> 1, expired |-> FALSE]]
  /\ request' = [request EXCEPT ![r] = [@ EXCEPT !.pc = "respond", !.session = s,
                                                 !.token = 1]]
  /\ UNCHANGED <<user, cookies, invitation, emailLock, counts>>

\* setCookies, and the response reaches the browser.
Respond(r) ==
  /\ request[r].pc = "respond"
  /\ cookies' = [cookies EXCEPT ![request[r].client] =
                   [access |-> request[r].session, session |-> request[r].session,
                    token |-> request[r].token]]
  /\ Finish(r)
  /\ UNCHANGED <<rows, emailLock>>

\* refresh, with the cookie the browser held when it sent the request.
StartRefresh(r, c) ==
  /\ cookies[c].session # NoSession
  /\ Start(r, [IdleRequest EXCEPT !.pc = "rotate", !.client = c,
                                  !.session = cookies[c].session,
                                  !.token = cookies[c].token])
  /\ UNCHANGED <<rows, cookies, emailLock>>

TokenMatches_Skipped(r) == Live(request[r].session)

TokenMatches(r) ==
  LET s == request[r].session IN Live(s) /\ session[s].token = request[r].token

\* The row lock makes reading, comparing and rotating one step.
Rotate(r) ==
  LET s == request[r].session IN
  /\ request[r].pc = "rotate"
  /\ \/ /\ ~TokenMatches(r)
        /\ Finish(r)
        /\ UNCHANGED session
     \/ /\ TokenMatches(r) /\ session[s].expired
        /\ session' = Deleted(s)
        /\ Finish(r)
     \/ /\ TokenMatches(r) /\ ~session[s].expired
        /\ session[s].token < MaxTokens
        /\ session' = [session EXCEPT ![s].token = @ + 1]
        /\ request' = [request EXCEPT ![r] = [@ EXCEPT !.pc = "checkUser",
                                                       !.email = session[s].email,
                                                       !.token = session[s].token + 1]]
        /\ UNCHANGED counts
  /\ UNCHANGED <<user, cookies, invitation, emailLock>>

\* Behind the transaction, refresh reads the user again.
CheckUser(r) ==
  /\ request[r].pc = "checkUser"
  /\ IF user[request[r].email] = "enabled"
     THEN Continue(r, "respond") /\ UNCHANGED session
     ELSE Finish(r) /\ session' = Deleted(request[r].session)
  /\ UNCHANGED <<user, cookies, invitation, emailLock>>

StartSignOut(r, c) ==
  /\ Start(r, [IdleRequest EXCEPT !.pc = "deleteRefresh", !.client = c,
                                  !.access = cookies[c].access,
                                  !.session = cookies[c].session,
                                  !.token = cookies[c].token])
  /\ UNCHANGED <<rows, cookies, emailLock>>

DeleteByRefresh(r) ==
  /\ request[r].pc = "deleteRefresh"
  /\ session' = IF TokenMatches(r) THEN Deleted(request[r].session) ELSE session
  /\ Continue(r, "deleteAccess")
  /\ UNCHANGED <<user, cookies, invitation, emailLock>>

DeleteByAccess_Forgotten(r) ==
  /\ request[r].pc = "deleteAccess"
  /\ Continue(r, "clearCookies")
  /\ UNCHANGED <<rows, cookies, emailLock>>

DeleteByAccess(r) ==
  /\ request[r].pc = "deleteAccess"
  /\ session' = Deleted(request[r].access)
  /\ Continue(r, "clearCookies")
  /\ UNCHANGED <<user, cookies, invitation, emailLock>>

ClearCookies(r) ==
  /\ request[r].pc = "clearCookies"
  /\ cookies' = [cookies EXCEPT ![request[r].client] = NoCookies]
  /\ Finish(r)
  /\ UNCHANGED <<rows, emailLock>>

\* The access cookie and its JWT live 15 minutes, a session 24 hours or more.
AccessExpires(c) ==
  /\ cookies[c].access # NoSession
  /\ cookies' = [cookies EXCEPT ![c].access = NoSession]
  /\ UNCHANGED <<rows, emailLock, request, counts>>

SessionExpires(s) ==
  /\ Live(s) /\ ~session[s].expired
  /\ session' = [session EXCEPT ![s].expired = TRUE]
  /\ UNCHANGED <<user, cookies, invitation, emailLock, request, counts>>

UpdateStatus_KeepsSessions(E, status) ==
  /\ edits < MaxEdits
  /\ E # {} /\ \A e \in E : user[e] # "absent"
  /\ user' = [e \in Emails |-> IF e \in E THEN status ELSE user[e]]
  /\ edits' = edits + 1
  /\ UNCHANGED <<session, cookies, invitation, emailLock, request, starts, faults>>

\* updateStatus: all users or none.  The foreign key makes the insert of a
\* session wait for the locked user row, so the transaction is one step.
UpdateStatus(E, status) ==
  /\ edits < MaxEdits
  /\ E # {} /\ \A e \in E : user[e] # "absent"
  /\ user' = [e \in Emails |-> IF e \in E THEN status ELSE user[e]]
  /\ session' = [s \in Sessions |->
                   IF status = "disabled" /\ Live(s) /\ session[s].email \in E
                   THEN [session[s] EXCEPT !.row = "deleted"] ELSE session[s]]
  /\ edits' = edits + 1
  /\ UNCHANGED <<cookies, invitation, emailLock, request, starts, faults>>

-----------------------------------------------------------------------------
(* Invitations *)

StartInvitation(r, e) ==
  /\ Start(r, [IdleRequest EXCEPT !.pc = "inviteLock", !.email = e])
  /\ UNCHANGED <<rows, cookies, emailLock>>

StartUser(r, e) ==
  /\ Start(r, [IdleRequest EXCEPT !.pc = "createLock", !.email = e])
  /\ UNCHANGED <<rows, cookies, emailLock>>

\* acceptInvitation previews the link; a replaced one is found no more.
PreviewLink(r, i) ==
  /\ Open(i) /\ ~invitation[i].expired
  /\ Start(r, [IdleRequest EXCEPT !.pc = "acceptLock", !.email = invitation[i].email,
                                  !.invitation = i, !.link = invitation[i].link])
  /\ UNCHANGED <<rows, cookies, emailLock>>

WaitingSteps == {"inviteLock", "createLock", "acceptLock"}

\* What a request does first with the lock.
FirstStep(pc) == CASE pc = "inviteLock" -> "inviteReads"
                   [] pc = "createLock" -> "createCommits"
                   [] pc = "acceptLock" -> "acceptCommits"

TakeEmailLock_Shared(r) ==
  LET e == request[r].email IN
  /\ request[r].pc \in WaitingSteps
  /\ emailLock' = [emailLock EXCEPT ![e] = r]
  /\ Continue(r, FirstStep(request[r].pc))
  /\ UNCHANGED <<rows, cookies>>

TakeEmailLock(r) ==
  LET e == request[r].email IN
  /\ request[r].pc \in WaitingSteps
  /\ emailLock[e] = NoRequest
  /\ emailLock' = [emailLock EXCEPT ![e] = r]
  /\ Continue(r, FirstStep(request[r].pc))
  /\ UNCHANGED <<rows, cookies>>

\* GET_LOCK gives up after ten seconds.
EmailIsBusy(r) ==
  /\ request[r].pc \in WaitingSteps
  /\ emailLock[request[r].email] # NoRequest
  /\ Finish(r)
  /\ UNCHANGED <<rows, cookies, emailLock>>

\* createInvitation: the first SELECT fixes what the later one sees.
InviteReads(r) ==
  LET e == request[r].email IN
  /\ request[r].pc = "inviteReads"
  /\ IF user[e] # "absent"
     THEN Continue(r, "release")
     ELSE /\ request' = [request EXCEPT ![r] = [@ EXCEPT !.pc = "inviteWrites",
                                                         !.seen = OpenFor(e)]]
          /\ UNCHANGED counts
  /\ UNCHANGED <<rows, cookies, emailLock>>

\* The UPDATE revokes what is expired by now; a pending invitation, or the
\* unique index on openEmail, refuses the insert.
InviteWrites(r) ==
  LET e == request[r].email
      stale == {i \in OpenFor(e) : invitation[i].expired}
  IN
  /\ request[r].pc = "inviteWrites"
  /\ IF request[r].seen \cup OpenFor(e) \subseteq stale
     THEN \E n \in Invitations :
            /\ invitation[n].row = "free"
            /\ invitation' =
                 [i \in Invitations |->
                    IF i = n THEN [row |-> "open", email |-> e, link |-> 1,
                                   expired |-> FALSE]
                    ELSE IF i \in stale THEN [invitation[i] EXCEPT !.row = "revoked"]
                    ELSE invitation[i]]
     ELSE UNCHANGED invitation
  /\ Continue(r, "release")
  /\ UNCHANGED <<user, session, cookies, emailLock>>

AcceptCommits_ById(r) ==
  LET i == request[r].invitation IN
  /\ request[r].pc = "acceptCommits"
  /\ IF /\ Open(i) /\ ~invitation[i].expired
        /\ user[request[r].email] = "absent"
     THEN /\ user' = [user EXCEPT ![request[r].email] = "enabled"]
          /\ invitation' = [invitation EXCEPT ![i].row = "accepted"]
     ELSE UNCHANGED <<user, invitation>>
  /\ Continue(r, "release")
  /\ UNCHANGED <<session, cookies, emailLock>>

\* The unique index on email refuses a second account; the transaction is
\* rolled back.
AcceptCommits(r) ==
  LET i == request[r].invitation IN
  /\ request[r].pc = "acceptCommits"
  /\ IF /\ Open(i) /\ ~invitation[i].expired /\ invitation[i].link = request[r].link
        /\ user[request[r].email] = "absent"
     THEN /\ user' = [user EXCEPT ![request[r].email] = "enabled"]
          /\ invitation' = [invitation EXCEPT ![i].row = "accepted"]
     ELSE UNCHANGED <<user, invitation>>
  /\ Continue(r, "release")
  /\ UNCHANGED <<session, cookies, emailLock>>

\* insertUser closes every open link of the address, expired ones too.
CreateCommits(r) ==
  LET e == request[r].email IN
  /\ request[r].pc = "createCommits"
  /\ IF user[e] = "absent"
     THEN /\ user' = [user EXCEPT ![e] = "enabled"]
          /\ invitation' = [i \in Invitations |->
                              IF i \in OpenFor(e)
                              THEN [invitation[i] EXCEPT !.row = "revoked"]
                              ELSE invitation[i]]
     ELSE UNCHANGED <<user, invitation>>
  /\ Continue(r, "release")
  /\ UNCHANGED <<session, cookies, emailLock>>

ReleaseEmailLock(r) ==
  /\ request[r].pc = "release"
  /\ emailLock' = [emailLock EXCEPT ![request[r].email] = NoRequest]
  /\ Finish(r)
  /\ UNCHANGED <<rows, cookies>>

\* resendInvitation and revokeInvitation take the row lock only.
ResendInvitation(i) ==
  /\ edits < MaxEdits
  /\ Open(i) /\ invitation[i].link < MaxLinks
  /\ invitation' = [invitation EXCEPT ![i].link = @ + 1, ![i].expired = FALSE]
  /\ edits' = edits + 1
  /\ UNCHANGED <<user, session, cookies, emailLock, request, starts, faults>>

RevokeInvitation(i) ==
  /\ edits < MaxEdits
  /\ Open(i)
  /\ invitation' = [invitation EXCEPT ![i].row = "revoked"]
  /\ edits' = edits + 1
  /\ UNCHANGED <<user, session, cookies, emailLock, request, starts, faults>>

InvitationExpires(i) ==
  /\ Open(i) /\ ~invitation[i].expired
  /\ invitation' = [invitation EXCEPT ![i].expired = TRUE]
  /\ UNCHANGED <<user, session, cookies, emailLock, request, counts>>

\* A statement throws, or the response is lost.  What was committed stays;
\* finally, or the end of the connection, gives the lock back.
RequestFails(r) ==
  /\ request[r].pc # "idle"
  /\ faults < MaxFaults
  /\ faults' = faults + 1
  /\ request' = [request EXCEPT ![r] = IdleRequest]
  /\ emailLock' = [e \in Emails |-> IF emailLock[e] = r THEN NoRequest ELSE emailLock[e]]
  /\ UNCHANGED <<rows, cookies, starts, edits>>

-----------------------------------------------------------------------------
SessionRequest(r) ==
  \/ \E c \in Clients : StartRefresh(r, c) \/ StartSignOut(r, c)
  \/ \E c \in Clients, e \in Emails : SignInReads(r, c, e)
  \/ \E s \in Sessions : InsertSession(r, s)
  \/ Respond(r) \/ Rotate(r) \/ CheckUser(r)
  \/ DeleteByRefresh(r) \/ DeleteByAccess(r) \/ ClearCookies(r)

InvitationRequest(r) ==
  \/ \E e \in Emails : StartInvitation(r, e) \/ StartUser(r, e)
  \/ \E i \in Invitations : PreviewLink(r, i)
  \/ TakeEmailLock(r) \/ EmailIsBusy(r) \/ ReleaseEmailLock(r)
  \/ InviteReads(r) \/ InviteWrites(r) \/ AcceptCommits(r) \/ CreateCommits(r)

TimePasses ==
  \/ \E c \in Clients : AccessExpires(c)
  \/ \E s \in Sessions : SessionExpires(s)
  \/ \E i \in Invitations : InvitationExpires(i)

Administration ==
  \/ \E E \in SUBSET Emails, status \in {"enabled", "disabled"} : UpdateStatus(E, status)
  \/ \E i \in Invitations : ResendInvitation(i) \/ RevokeInvitation(i)

Next ==
  \/ \E r \in Requests : SessionRequest(r) \/ InvitationRequest(r) \/ RequestFails(r)
  \/ TimePasses
  \/ Administration

Spec == Init /\ [][Next]_vars

-----------------------------------------------------------------------------
SessionRows ==
  {NoSessionRow} \cup [row : {"live", "deleted"}, email : Emails, token : 1..MaxTokens,
                      expired : BOOLEAN]
InvitationRows ==
  {NoInvitationRow} \cup [row : {"open", "accepted", "revoked"}, email : Emails,
                         link : 1..MaxLinks, expired : BOOLEAN]
Cookies == [access : Sessions \cup {NoSession}, session : Sessions \cup {NoSession},
            token : 0..MaxTokens]

SessionSteps == {"respond", "rotate", "checkUser"}
SignOutSteps == {"deleteRefresh", "deleteAccess", "clearCookies"}
ClientSteps == {"insertSession"} \cup SessionSteps \cup SignOutSteps
LockedSteps == {"inviteReads", "inviteWrites", "acceptCommits", "createCommits", "release"}
AddressSteps == {"insertSession", "checkUser"} \cup WaitingSteps \cup LockedSteps
Steps == {"idle"} \cup ClientSteps \cup WaitingSteps \cup LockedSteps
RequestRows ==
  [pc : Steps,
   client : Clients \cup {NoClient}, email : Emails \cup {NoEmail},
   access : Sessions \cup {NoSession}, session : Sessions \cup {NoSession},
   token : 0..MaxTokens, invitation : Invitations \cup {NoInvitation},
   link : 0..MaxLinks, seen : SUBSET Invitations]

\* What a request holds at the step it is about to take.
HoldsItsData(x) ==
  /\ x.pc \in ClientSteps => x.client \in Clients
  /\ x.pc \in AddressSteps => x.email \in Emails
  /\ x.pc \in SessionSteps => x.session \in Sessions
  /\ x.pc \in {"acceptLock", "acceptCommits"} => x.invitation \in Invitations

(***************************************************************************)
(* Types.  A step that uses a client, an address, a session or an          *)
(* invitation holds one, and a row that is not free names its user.        *)
(***************************************************************************)
TypeOK ==
  /\ user \in [Emails -> {"absent", "enabled", "disabled"}]
  /\ session \in [Sessions -> SessionRows]
  /\ cookies \in [Clients -> Cookies]
  /\ invitation \in [Invitations -> InvitationRows]
  /\ emailLock \in [Emails -> Requests \cup {NoRequest}]
  /\ request \in [Requests -> RequestRows]
  /\ \A r \in Requests : HoldsItsData(request[r])
  /\ starts \in 0..MaxStarts /\ edits \in 0..MaxEdits /\ faults \in 0..MaxFaults

Revived(s) == session[s].row = "live" /\ user[session[s].email] = "disabled"

(***************************************************************************)
(* Disabling a user ends every session there is, also one that is being    *)
(* refreshed.  A disabled user's session can only be a new one: of a       *)
(* sign-in that read the user before and inserts after.                    *)
(***************************************************************************)
DisablingEndsSessions ==
  [][\A s \in Sessions : Revived(s)' => Revived(s) \/ session[s].row = "free"]_vars

(***************************************************************************)
(* When a sign-out answers, the session of the cookies it was sent with is *)
(* gone, although another tab may have rotated the refresh token in        *)
(* between: the access cookie finds it then, unless that has expired.      *)
(***************************************************************************)
SignOutEndsSession ==
  \A r \in Requests : request[r].pc = "clearCookies" =>
    \A s \in {request[r].access, request[r].session} :
      Live(s) => request[r].access = NoSession /\ session[s].token # request[r].token

(***************************************************************************)
(* Tabs that refresh at the same time do not sign each other out: as long  *)
(* as no request fails, a browser holds the newest token of its session,   *)
(* or a response that carries it is on its way.                            *)
(***************************************************************************)
BringsToken(r, c) ==
  LET s == cookies[c].session IN
  /\ request[r].pc \in {"checkUser", "respond"}
  /\ request[r].client = c /\ request[r].session = s
  /\ request[r].token = session[s].token

NewestTokenIsDelivered ==
  faults = 0 => \A c \in Clients :
    LET s == cookies[c].session IN
    Live(s) => session[s].token = cookies[c].token \/ \E r \in Requests : BringsToken(r, c)

(***************************************************************************)
(* No invitation is open for an address that has an account, however       *)
(* invitations, acceptances, direct creations and resends meet: the e-mail *)
(* lock makes up for the snapshot createInvitation reads.                  *)
(***************************************************************************)
AccountClosesInvitations ==
  \A i \in Invitations : Open(i) => user[invitation[i].email] = "absent"

(***************************************************************************)
(* An invitation is closed once: an accepted one is not revoked by a late  *)
(* revocation or creation, a revoked one is not accepted by a request that *)
(* previewed it before.                                                    *)
(***************************************************************************)
ClosedIsFinal ==
  [][\A i \in Invitations :
       invitation[i].row \in {"accepted", "revoked"} => invitation'[i] = invitation[i]]_vars

(***************************************************************************)
(* An account made by an invitation was made with its newest link: one     *)
(* that a resend replaced while the acceptance waited for the e-mail lock  *)
(* is refused.                                                             *)
(***************************************************************************)
NewestLinkIsAccepted ==
  [][\A i \in Invitations :
       invitation[i].row # "accepted" /\ invitation'[i].row = "accepted" =>
         \E r \in Requests : /\ request[r].pc = "acceptCommits"
                             /\ request[r].invitation = i
                             /\ request[r].link = invitation[i].link]_vars

=============================================================================
