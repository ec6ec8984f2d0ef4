------------------------------- MODULE Workspace -------------------------------
(***************************************************************************)
(* Workspaces, the members that manage them, their sessions, and the invites  *)
(* by which members join.  One database, cache or queue call per step;        *)
(* requests and workers run between two of them.                             *)
(*                                                                         *)
(* Nothing makes e-mail addresses unique, and the transaction around the      *)
(* creation does not cover its two inserts, which take a context of their own. *)
(*                                                                         *)
(* UpdateOrgDetails, ResetWorkspaceMemberPassword, ResendInvite and            *)
(* AcknowledgeWorkspaceInvite are handlers that no route calls yet: they are    *)
(* modelled as their code stands, and called with any input.                  *)
(***************************************************************************)
EXTENDS Repository, Sequences

CONSTANTS
  Emails, Devices, Names,
  WsIds, MemIds, InvIds,  \* ids of documents: bound those of a behaviour
  Requests, Tasks,        \* requests, and invite tasks, that can be under way at once
  Passwords,
  MaxDevices,             \* bound on the devices of a member
  MayFail,                \* the sets of failures a behaviour may have
  None

ASSUME ConstantsAssumption ==
  /\ \A ids \in {WsIds, MemIds, InvIds} : ids \subseteq Nat \ {0} /\ IsFiniteSet(ids)
  /\ IsFiniteSet(Requests) /\ IsFiniteSet(Tasks) /\ MaxDevices \in Nat \ {0}
  /\ {} \in MayFail /\ None \notin Emails

VARIABLES
  ws, mem, inv,  \* the Workspaces, WorkspaceMembers and WorkspaceInvites collections
  codes,         \* addresses with an OTP token for "verify_workspace"
  session,       \* cache: of a device, the member and workspace of its token
  task,          \* invite tasks of the queue
  pc, req,       \* of a request: where it is, and its local variables
  mailed,        \* ghost: the address and workspace of every invite that was mailed
  seen,          \* ghost: the devices each address used
  early,         \* ghost: addresses whose verification came before their member
  faults         \* ghost: the kinds of failures so far

docs == <<ws, mem, inv>>
ghosts == <<mailed, early>>
vars == <<docs, codes, session, task, pc, req, ghosts, seen, faults>>

WsDoc  == [email : Emails, verified : BOOLEAN, superMember : MemIds, name : Names,
           workspacename : Names \cup {None}]
MemDoc == [email : Emails \cup {None}, ws : WsIds, name : Names \cup WsIds,
           verified : BOOLEAN, password : Passwords \cup {None},
           devices : UNION {[1..n -> Devices] : n \in 0..MaxDevices},
           invite : InvIds \cup {NoDoc}]
InvDoc == [email : Emails, ws : WsIds, accepted : BOOLEAN, resent : BOOLEAN]
Idle   == [email |-> None, device |-> None, ws |-> NoDoc, mem |-> NoDoc, inv |-> NoDoc,
           devices |-> <<>>, value |-> None]
NoTask == [st |-> "none", email |-> None, ws |-> NoDoc]

TypeOK ==
  /\ DOMAIN ws \subseteq WsIds /\ \A w \in DOMAIN ws : ws[w] \in WsDoc
  /\ DOMAIN mem \subseteq MemIds /\ \A m \in DOMAIN mem : mem[m] \in MemDoc
  /\ DOMAIN inv \subseteq InvIds /\ \A i \in DOMAIN inv : inv[i] \in InvDoc
  /\ codes \subseteq Emails
  /\ session \in [Devices -> [mem : MemIds, ws : WsIds] \cup {None}]
  /\ task \in [Tasks -> [st : {"none", "count", "mail", "create"},
                         email : Emails \cup {None}, ws : WsIds \cup {NoDoc}]]
  /\ pc \in [Requests -> {"idle", "insertWs", "insertMember", "sendCode", "setWs",
       "findMember", "setMember", "session", "setDevices", "saveLogin", "setPassword",
       "rename", "mailAgain", "accept", "createUser", "addMember"}]
  /\ \A r \in Requests : /\ req[r].ws \in WsIds \cup {NoDoc}
                         /\ req[r].mem \in MemIds \cup {NoDoc}
                         /\ req[r].inv \in InvIds \cup {NoDoc}
  /\ mailed \subseteq Emails \X WsIds /\ early \subseteq Emails /\ seen \subseteq Emails \X Devices /\ faults \in MayFail

Init ==
  /\ ws = <<>> /\ mem = <<>> /\ inv = <<>> /\ codes = {}
  /\ session = [d \in Devices |-> None] /\ task = [t \in Tasks |-> NoTask]
  /\ pc = [r \in Requests |-> "idle"] /\ req = [r \in Requests |-> Idle]
  /\ mailed = {} /\ early = {} /\ seen = {} /\ faults = {}

At(r, here)      == pc[r] = here
Goto(r, there)   == pc' = [pc EXCEPT ![r] = there]
Start(r, there, locals) ==
  /\ At(r, "idle") /\ Goto(r, there)
  /\ req' = [req EXCEPT ![r] = [k \in DOMAIN Idle |->
                                  IF k \in DOMAIN locals THEN locals[k] ELSE Idle[k]]]
Finish(r) == Goto(r, "idle") /\ req' = [req EXCEPT ![r] = Idle]

\* Ids are taken in order; a member's may be given out before it is inserted.
Fresh(ids, used) == {i \in ids \ used : \A j \in ids \ used : i <= j}
MemIdsUsed == DOMAIN mem \cup {ws[w].superMember : w \in DOMAIN ws}

\* Each kind fails at most once in a behaviour.  Many calls fail without anyone
\* noticing, as the handler drops their result: it then goes on as if they had been
\* made ("lookup", "setMember", "mark", "member", "mail", and "lost" for the others).
Fault(kind) == kind \notin faults /\ faults' = faults \cup {kind} /\ faults' \in MayFail
NoFault == UNCHANGED faults
Failures(kind) == IF kind \in faults THEN 1 ELSE 0

(***************************************************************************)
(* CreateWorkspace.                                                          *)
(***************************************************************************)
\* An address with a verified workspace is refused; one with an unverified one is
\* only sent a new code.  A lookup that fails counts as one that finds none.
FindExisting(r, e, d) ==
  /\ \/ /\ NoFault
        /\ \E w \in FindOneByFilter(ws, [email |-> e]) :
             \/ w = NoDoc /\ Start(r, "insertWs", [email |-> e, device |-> d])
             \/ w # NoDoc /\ ~ws[w].verified /\ Start(r, "sendCode", [email |-> e])
     \/ Fault("lookup") /\ Start(r, "insertWs", [email |-> e, device |-> d])
  /\ UNCHANGED <<docs, codes, session, task, ghosts, seen>>

InsertWorkspace(r) ==
  /\ At(r, "insertWs") /\ Goto(r, "insertMember")
  /\ \E w \in Fresh(WsIds, DOMAIN ws), m \in Fresh(MemIds, MemIdsUsed), n \in Names :
       /\ ws' = CreateOne(ws, w, [email |-> req[r].email, verified |-> FALSE,
                                  superMember |-> m, name |-> n, workspacename |-> None])
       /\ req' = [req EXCEPT ![r].ws = w, ![r].mem = m, ![r].value = n]
  /\ UNCHANGED <<mem, inv, codes, session, task, ghosts, seen, faults>>

\* Mutant of InsertMember: the member is built before its workspace has an id.
InsertMemberEarly(r) ==
  /\ At(r, "insertMember") /\ Goto(r, "sendCode") /\ UNCHANGED req
  /\ \E p \in Passwords :
       mem' = CreateOne(mem, req[r].mem,
                [email |-> req[r].email, ws |-> NoDoc, name |-> req[r].value,
                 verified |-> FALSE, password |-> p, devices |-> <<req[r].device>>,
                 invite |-> NoDoc])
  /\ seen' = seen \cup {<<req[r].email, req[r].device>>}
  /\ UNCHANGED <<ws, inv, codes, session, task, ghosts, faults>>

\* The insert may fail; the workspace stays.
InsertMember(r) ==
  /\ At(r, "insertMember")
  /\ \/ /\ NoFault /\ Goto(r, "sendCode") /\ UNCHANGED req
        /\ \E p \in Passwords :
             mem' = CreateOne(mem, req[r].mem,
                      [email |-> req[r].email, ws |-> req[r].ws, name |-> req[r].value,
                       verified |-> FALSE, password |-> p, devices |-> <<req[r].device>>,
                       invite |-> NoDoc])
        /\ seen' = seen \cup {<<req[r].email, req[r].device>>}
     \/ Fault("insert") /\ Finish(r) /\ UNCHANGED <<mem, seen>>
  /\ UNCHANGED <<ws, inv, codes, session, task, ghosts>>

\* The code is mailed, and verified by its reader (module OtpChannel).
SendCode(r) ==
  /\ At(r, "sendCode") /\ Finish(r) /\ codes' = codes \cup {req[r].email}
  /\ UNCHANGED <<docs, session, task, ghosts, seen, faults>>

ExpireCode(e) ==
  /\ e \in codes /\ codes' = codes \ {e}
  /\ UNCHANGED <<docs, session, task, pc, req, ghosts, seen, faults>>

(***************************************************************************)
(* VerifyWorkspaceAccount and LoginWorkspaceMember.                           *)
(***************************************************************************)
\* The device moves to the end.  A pointer to it is kept while the list is shifted:
\* what is appended is the device after it, if there is one.
WithDevice(list, d) ==
  LET at == {i \in DOMAIN list : list[i] = d}
      i == CHOOSE i \in at : \A j \in at : i <= j
  IN IF at = {} THEN Append(list, d)
     ELSE Append(SubSeq(list, 1, i - 1) \o SubSeq(list, i + 1, Len(list)),
                 list[IF i = Len(list) THEN i ELSE i + 1])

\* The lookup leaves out the flag that says the workspace is verified already.
FindWorkspace(r, e, d) ==
  /\ e \in codes
  /\ \E w \in Matching(ws, [email |-> e]) :
       Start(r, "setWs", [email |-> e, device |-> d, ws |-> w])
  /\ UNCHANGED <<docs, codes, session, task, ghosts, seen, faults>>

SetWorkspaceVerified(r) ==
  /\ At(r, "setWs") /\ Goto(r, "findMember")
  /\ ws' = UpdatePartialByFilter(ws, [email |-> req[r].email], [verified |-> TRUE])
  /\ UNCHANGED <<mem, inv, codes, session, task, req, ghosts, seen, faults>>

\* Without a member, or when the lookup fails, the request panics.
FindSuperAdmin(r) ==
  /\ At(r, "findMember")
  /\ \/ /\ NoFault
        /\ \E m \in FindOneByFilter(mem, [email |-> req[r].email]) :
             \/ /\ m = NoDoc /\ Finish(r) /\ early' = early \cup {req[r].email}
             \/ /\ m # NoDoc /\ Goto(r, "setMember") /\ UNCHANGED early
                /\ req' = [req EXCEPT ![r].devices = WithDevice(mem[m].devices, req[r].device)]
     \/ Fault("lookup") /\ Finish(r) /\ UNCHANGED early
  /\ UNCHANGED <<docs, codes, session, task, mailed, seen>>

\* The result is dropped: what is tested next are the results of SetWorkspaceVerified.
SetMemberVerified(r) ==
  /\ At(r, "setMember") /\ Len(req[r].devices) <= MaxDevices /\ Goto(r, "session")
  /\ \/ /\ NoFault
        /\ mem' = UpdatePartialByFilter(mem, [email |-> req[r].email],
                    [verified |-> TRUE, devices |-> req[r].devices])
        /\ seen' = seen \cup {<<req[r].email, req[r].device>>}
     \/ Fault("setMember") /\ UNCHANGED <<mem, seen>>
  /\ UNCHANGED <<ws, inv, codes, session, task, req, ghosts>>

\* The member is looked up again, and the request panics when that fails; the
\* workspace is the one found at first.
OpenSession(r) ==
  /\ At(r, "session") /\ Finish(r)
  /\ \/ /\ NoFault
        /\ \E m \in Matching(mem, [email |-> req[r].email]) :
             session' = [session EXCEPT ![req[r].device] = [mem |-> m, ws |-> req[r].ws]]
     \/ (Fault("lookup") \/ Fault("lost")) /\ UNCHANGED session
  /\ UNCHANGED <<docs, codes, task, ghosts, seen>>

\* The password is right: with a wrong one nothing changes.
FindMember(r, e, d) ==
  /\ \E m \in Matching(mem, [email |-> e]) :
       IF mem[m].verified
       THEN Start(r, "setDevices", [email |-> e, device |-> d, mem |-> m, ws |-> mem[m].ws,
                                    devices |-> WithDevice(mem[m].devices, d)])
       ELSE Start(r, "sendCode", [email |-> e])
  /\ UNCHANGED <<docs, codes, session, task, ghosts, seen, faults>>

SetDevices(r) ==
  /\ At(r, "setDevices") /\ Len(req[r].devices) <= MaxDevices /\ Goto(r, "saveLogin")
  /\ \/ /\ NoFault
        /\ mem' = UpdatePartialByFilter(mem, [email |-> req[r].email],
                                        [devices |-> req[r].devices])
        /\ seen' = seen \cup {<<req[r].email, req[r].device>>}
     \/ Fault("lost") /\ UNCHANGED <<mem, seen>>
  /\ UNCHANGED <<ws, inv, codes, session, task, req, ghosts>>

\* Mutant of SaveLogin: the session is for the first workspace of the address.
SaveLoginByEmail(r) ==
  /\ At(r, "saveLogin") /\ Finish(r)
  /\ \E w \in DOMAIN ws :
       session' = [session EXCEPT ![req[r].device] = [mem |-> req[r].mem, ws |-> w]]
  /\ UNCHANGED <<docs, codes, task, ghosts, seen, faults>>

SaveLogin(r) ==
  /\ At(r, "saveLogin") /\ Finish(r)
  /\ \/ /\ NoFault
        /\ session' = [session EXCEPT ![req[r].device] = [mem |-> req[r].mem, ws |-> req[r].ws]]
     \/ Fault("lost") /\ UNCHANGED session
  /\ UNCHANGED <<docs, codes, task, ghosts, seen>>

\* The member of the token; its workspace is read again.
WorkspaceRefreshToken(d) ==
  /\ session[d] # None
  /\ session' = [session EXCEPT ![d].ws = mem[session[d].mem].ws]
  /\ UNCHANGED <<docs, codes, task, pc, req, ghosts, seen, faults>>

(***************************************************************************)
(* ResetWorkspaceMemberPassword and UpdateOrgDetails.                         *)
(***************************************************************************)
\* The current password is compared with the one that was read.  Without an
\* address nothing is sent, whatever the answer says.
CheckPassword(r, e, current, new) ==
  /\ \E m \in Matching(mem, [email |-> e]) :
       mem[m].password = current /\ Start(r, "setPassword", [mem |-> m, value |-> new])
  /\ UNCHANGED <<docs, codes, session, task, ghosts, seen, faults>>

SetPassword(r) ==
  /\ At(r, "setPassword") /\ Finish(r)
  /\ \/ NoFault /\ mem' = UpdatePartialByID(mem, req[r].mem, [password |-> req[r].value])
     \/ Fault("lost") /\ UNCHANGED mem
  /\ UNCHANGED <<ws, inv, codes, session, task, ghosts, seen>>

\* A member that is logged in acts for the workspace of the session.
LoggedIn(w) == \E d \in Devices : session[d] # None /\ session[d].ws = w

\* The body has no tags for the database: its name goes to a field of its own.
UpdateOrgDetails(r, w, n) ==
  /\ LoggedIn(w) /\ Start(r, "rename", [ws |-> w, value |-> n])
  /\ \/ NoFault /\ ws' = UpdatePartialByID(ws, w, [workspacename |-> n])
     \/ Fault("lost") /\ UNCHANGED ws
  /\ UNCHANGED <<mem, inv, codes, session, task, ghosts, seen>>

RenameInMembers(r) ==
  /\ At(r, "rename") /\ Finish(r)
  /\ \/ NoFault /\ mem' = UpdatePartialByFilter(mem, [ws |-> req[r].ws], [name |-> req[r].value])
     \/ Fault("lost") /\ UNCHANGED mem
  /\ UNCHANGED <<ws, inv, codes, session, task, ghosts, seen>>

(***************************************************************************)
(* Invites: a task per address counts, mails and records; the reader accepts.  *)
(***************************************************************************)
InviteWorkspaceMembers(w, e) ==
  /\ LoggedIn(w)
  /\ \E t \in Tasks : /\ task[t] = NoTask
                      /\ task' = [task EXCEPT ![t] = [st |-> "count", email |-> e, ws |-> w]]
  /\ UNCHANGED <<docs, codes, session, pc, req, ghosts, seen, faults>>

Invited(t) == [email |-> task[t].email, ws |-> task[t].ws]
StepTask(t, st) == task' = [task EXCEPT ![t].st = st]
EndTask(t) == task' = [task EXCEPT ![t] = NoTask]

\* Mutant of CountInvites: invites that were accepted do not count.
CountOpenInvites(t) ==
  /\ task[t].st = "count"
  /\ IF CountDocs(inv, Set(Invited(t), [accepted |-> FALSE])) = 0
     THEN StepTask(t, "mail") ELSE EndTask(t)
  /\ UNCHANGED <<docs, codes, session, pc, req, ghosts, seen, faults>>

CountInvites(t) ==
  /\ task[t].st = "count"
  /\ IF CountDocs(inv, Invited(t)) = 0 THEN StepTask(t, "mail") ELSE EndTask(t)
  /\ UNCHANGED <<docs, codes, session, pc, req, ghosts, seen, faults>>

\* The result of the mailer is dropped: the invite is recorded all the same.
MailInvite(t) ==
  /\ task[t].st = "mail" /\ StepTask(t, "create")
  /\ \/ NoFault /\ mailed' = mailed \cup {<<task[t].email, task[t].ws>>}
     \/ Fault("mail") /\ UNCHANGED mailed
  /\ UNCHANGED <<docs, codes, session, pc, req, early, seen>>

CreateInvite(t) ==
  /\ task[t].st = "create" /\ EndTask(t)
  /\ \E i \in Fresh(InvIds, DOMAIN inv) :
       inv' = CreateOne(inv, i, [email |-> task[t].email, ws |-> task[t].ws,
                                 accepted |-> FALSE, resent |-> FALSE])
  /\ UNCHANGED <<ws, mem, codes, session, pc, req, ghosts, seen, faults>>

\* Tasks are not retried.
WorkerDies(t) ==
  /\ task[t].st # "none" /\ Fault("worker") /\ EndTask(t)
  /\ UNCHANGED <<docs, codes, session, pc, req, ghosts, seen>>

ResendInvite(r, i) ==
  /\ i \in DOMAIN inv /\ ~inv[i].accepted /\ LoggedIn(inv[i].ws)
  /\ Start(r, "mailAgain", [inv |-> i])
  /\ UNCHANGED <<docs, codes, session, task, ghosts, seen, faults>>

MailAgain(r) ==
  /\ At(r, "mailAgain") /\ Finish(r)
  /\ \/ NoFault /\ inv' = UpdatePartialByID(inv, req[r].inv, [resent |-> TRUE])
     \/ Fault("lost") /\ UNCHANGED inv
  /\ UNCHANGED <<ws, mem, codes, session, task, ghosts, seen>>

\* The validation takes a refusal for a missing field: invites are only accepted.
FindInvite(r, i) ==
  /\ i \in DOMAIN inv /\ ~inv[i].accepted /\ Start(r, "accept", [inv |-> i])
  /\ UNCHANGED <<docs, codes, session, task, ghosts, seen, faults>>

\* When the mark is lost the invite stays open, and the member is made all the same.
Accept(r) ==
  /\ At(r, "accept") /\ Goto(r, "createUser") /\ UNCHANGED req
  /\ \/ NoFault /\ inv' = UpdatePartialByID(inv, req[r].inv, [accepted |-> TRUE])
     \/ Fault("mark") /\ UNCHANGED inv
  /\ UNCHANGED <<ws, mem, codes, session, task, ghosts, seen>>

\* Mutant of CreateUser: the request ends with the user.
CreateUserOnly(r) ==
  /\ At(r, "createUser") /\ Finish(r)
  /\ UNCHANGED <<docs, codes, session, task, ghosts, seen, faults>>

\* CreateUserUseCase (module Account), with an empty payload.
CreateUser(r) ==
  /\ At(r, "createUser")
  /\ \/ NoFault /\ Goto(r, "addMember") /\ UNCHANGED req
     \/ Fault("createUser") /\ Finish(r)
  /\ UNCHANGED <<docs, codes, session, task, ghosts, seen>>

\* The member has no address or password, and the id of the workspace as its name.
\* The answer was given before, and the result of the insert is dropped.
AddMember(r) ==
  LET i == inv[req[r].inv] IN
  /\ At(r, "addMember") /\ Finish(r)
  /\ \/ /\ NoFault
        /\ \E m \in Fresh(MemIds, MemIdsUsed) :
             mem' = CreateOne(mem, m, [email |-> None, ws |-> i.ws, name |-> i.ws,
                                       verified |-> FALSE, password |-> None,
                                       devices |-> <<>>, invite |-> req[r].inv])
     \/ Fault("member") /\ UNCHANGED mem
  /\ UNCHANGED <<ws, inv, codes, session, task, ghosts, seen>>

RequestDies(r) ==
  /\ pc[r] # "idle" /\ Fault("died") /\ Finish(r)
  /\ UNCHANGED <<docs, codes, session, task, ghosts, seen>>

--------------------------------------------------------------------------------
CreateWorkspaceUseCase(r) == InsertWorkspace(r) \/ InsertMember(r) \/ SendCode(r)

VerifyWorkspaceAccount(r) ==
  SetWorkspaceVerified(r) \/ FindSuperAdmin(r) \/ SetMemberVerified(r) \/ OpenSession(r)

LoginWorkspaceMember(r) == SetDevices(r) \/ SaveLogin(r)

AcknowledgeWorkspaceInvite(r) == Accept(r) \/ CreateUser(r) \/ AddMember(r)

HandleWorkspaceInviteTask(t) == CountInvites(t) \/ MailInvite(t) \/ CreateInvite(t)

Accounts ==
  \/ \E r \in Requests :
       \/ \E e \in Emails, d \in Devices :
            FindExisting(r, e, d) \/ FindWorkspace(r, e, d) \/ FindMember(r, e, d)
       \/ CreateWorkspaceUseCase(r) \/ VerifyWorkspaceAccount(r) \/ LoginWorkspaceMember(r)
       \/ RequestDies(r)
  \/ \E e \in Emails : ExpireCode(e)
  \/ \E d \in Devices : WorkspaceRefreshToken(d)

Details ==
  \E r \in Requests :
    \/ \E e \in Emails, p, q \in Passwords : CheckPassword(r, e, p, q)
    \/ \E w \in DOMAIN ws, n \in Names : UpdateOrgDetails(r, w, n)
    \/ SetPassword(r) \/ RenameInMembers(r) \/ RequestDies(r)

Invites ==
  \/ \E w \in DOMAIN ws, e \in Emails : InviteWorkspaceMembers(w, e)
  \/ \E t \in Tasks : HandleWorkspaceInviteTask(t) \/ WorkerDies(t)
  \/ \E r \in Requests : \/ \E i \in DOMAIN inv : FindInvite(r, i) \/ ResendInvite(r, i)
                         \/ MailAgain(r) \/ AcknowledgeWorkspaceInvite(r) \/ RequestDies(r)

Next == Accounts \/ Details \/ Invites

Spec == Init /\ [][Next]_vars

(***************************************************************************)
(* Properties.                                                               *)
(***************************************************************************)
OfEmail(e) == Matching(ws, [email |-> e])

\* An address gets a second workspace only by creations that overlapped when there
\* was none, or whose lookup failed: however many follow, there are at most as many
\* as overlap, and one for each failed lookup.
WorkspacesBound ==
  \A e \in Emails :
    Cardinality(OfEmail(e)) + Cardinality({r \in Requests : At(r, "insertWs") /\ req[r].email = e})
      <= Cardinality(Requests) + Failures("lookup")

\* A workspace has its super member, unless the second insert is still to come,
\* failed, or was never reached: then nobody can enter it, and its address is taken.
SuperMemberExists ==
  \A w \in DOMAIN ws :
    \/ ws[w].superMember \in DOMAIN mem /\ mem[ws[w].superMember].ws = w
    \/ \E r \in Requests : At(r, "insertMember") /\ req[r].ws = w
    \/ faults \cap {"insert", "died"} # {}

\* Workspace and super member are verified by two updates that go by the address:
\* once nothing is under way, they agree, unless the address has two workspaces, a
\* request died in between, the member could not be looked up or updated, or the
\* code of a second creation was used before the first had inserted the member.
VerifiedTogether ==
  (\A r \in Requests : At(r, "idle")) =>
    \A w \in DOMAIN ws :
      \/ ws[w].superMember \notin DOMAIN mem
      \/ ws[w].verified = mem[ws[w].superMember].verified
      \/ Cardinality(OfEmail(ws[w].email)) > 1
      \/ faults \cap {"died", "lookup", "setMember"} # {} \/ ws[w].email \in early

\* A session is for the workspace its member belongs to, unless the address of the
\* member has two workspaces.
SessionOfOwnWorkspace ==
  \A d \in Devices : session[d] # None =>
    LET m == mem[session[d].mem] IN
    m.ws = session[d].ws \/ Cardinality(OfEmail(m.email)) > 1

\* Workers that counted at the same time invite an address twice: at most as many
\* invites as tasks overlap, accepted ones included.  An invite that is recorded was
\* mailed, unless the mailer failed.
InvitesBound ==
  \A e \in Emails, w \in DOMAIN ws :
    LET ofPair == Matching(inv, [email |-> e, ws |-> w]) IN
    /\ Cardinality(ofPair) + Cardinality({t \in Tasks : task[t].st \in {"mail", "create"}
                                          /\ Invited(t) = [email |-> e, ws |-> w]})
         <= Cardinality(Tasks)
    /\ ofPair # {} => <<e, w>> \in mailed \/ "mail" \in faults

\* An invite makes more than one member only by acceptances that overlapped, and one
\* more for each mark that was lost.
MembersPerInviteBound ==
  \A i \in DOMAIN inv :
    Cardinality({m \in DOMAIN mem : mem[m].invite = i})
      + Cardinality({r \in Requests : pc[r] \in {"accept", "createUser", "addMember"}
                                      /\ req[r].inv = i})
      <= Cardinality(Requests) + Failures("mark")

\* An invite that is accepted has its member, or a request is on its way to it, or
\* the creation of the user or of the member failed or the process died: the invite
\* is spent then.
AcceptedHasMember ==
  \A i \in DOMAIN inv : inv[i].accepted =>
    \/ \E m \in DOMAIN mem : mem[m].invite = i /\ mem[m].ws = inv[i].ws
    \/ \E r \in Requests : pc[r] \in {"createUser", "addMember"} /\ req[r].inv = i
    \/ faults \cap {"createUser", "member", "died"} # {}

\* A login may lose a device of the list, but puts none there that was not used.
DevicesWereUsed ==
  \A m \in DOMAIN mem : \A i \in DOMAIN mem[m].devices :
    <<mem[m].email, mem[m].devices[i]>> \in seen

\* Creating, inviting and accepting look first and write later, with no unique
\* index: duplicates come from overlaps and failed calls only, and there are no more
\* of them than overlap or failed.
DuplicatesBound == WorkspacesBound /\ InvitesBound /\ MembersPerInviteBound

\* Workspace, super member, sessions and devices tell the same story.
AccountsAgree ==
  TypeOK /\ VerifiedTogether /\ SessionOfOwnWorkspace /\ DevicesWereUsed

================================================================================
