--------------------------- MODULE HubMembership ---------------------------
(***************************************************************************)
(* Members of the Hub, their devices, and the connection flow that hands a *)
(* computer its personal session and device credential.                    *)
(*                                                                         *)
(* `member' is identity_members (known: its subject is bound), `device'    *)
(* the devices table, `flow' identity_flows and `live' identity_sessions:  *)
(* the personal token of a session is derived from its flow.  `client' is  *)
(* the computer that polls a flow.  Every transaction of hub/membership.py,*)
(* hub/identity.py and the device operations of hub/database.py is a step. *)
(*                                                                         *)
(* Abstractions.  A member is its e-mail address, and whoever signs in     *)
(* with it is the same person.  Tokens are numbered by their rotation;     *)
(* codes, CSRF, rate limits, capacities of 1000 rows and the flag that     *)
(* refuses a member new devices whatever the quota are left out.           *)
(***************************************************************************)
EXTENDS Integers, FiniteSets

CONSTANTS
  Members,
  Boss,          \* the administrator of the bootstrap
  Computers,     \* device identities
  Claims,        \* the computers each member may claim, of the import
  Flows,
  Quotas,        \* what a quota can be set to
  SessionLimit,  \* live sessions of one member (32)
  MaxRotations,  \* bound: rotations of one device
  Nobody

ASSUME MembershipConstants ==
  /\ Boss \in Members
  /\ Nobody \notin Members \cup Computers
  /\ Quotas \subseteq Nat
  /\ MaxRotations \in Nat

VARIABLES member, device, flow, live, client

memberVars == <<member, device, flow, live, client>>

-----------------------------------------------------------------------------
Person == [status : {"absent", "invited", "active", "disabled"},
           role : {"admin", "member"}, known : BOOLEAN, quota : Nat]
Computer == [owner : Members \cup {Nobody}, active : BOOLEAN, key : Nat]
Connection == [status : {"absent", "proved", "pending", "approved", "denied",
                         "acknowledged"},
               by : Members \cup {Nobody}, device : Computers \cup {Nobody},
               key : Nat, new : BOOLEAN]

Active(m) == member[m].status = "active"
Admin(m)  == Active(m) /\ member[m].role = "admin"
Admins    == {m \in Members : Admin(m)}
Owned(m)  == {d \in Computers : device[d].owner = m}
ActiveOwned(m) == {d \in Owned(m) : device[d].active}

\* Every credential also respects the membership of the device's owner.
DeviceAuthorized(d) ==
  /\ device[d].active
  /\ device[d].owner # Nobody => Active(device[d].owner)

NoFlow == [status |-> "absent", by |-> Nobody, device |-> Nobody, key |-> 0,
           new |-> FALSE]
Unregistered == [owner |-> Nobody, active |-> FALSE, key |-> 0]

\* After members-bootstrap: the administrator is invited, and the computers
\* of the old roster are registered without an owner.
MembershipInit ==
  /\ member = [m \in Members |->
       [status |-> IF m = Boss THEN "invited" ELSE "absent",
        role |-> IF m = Boss THEN "admin" ELSE "member",
        known |-> FALSE, quota |-> 1]]
  /\ device = [d \in Computers |->
       IF \E m \in Members : d \in Claims[m]
       THEN [owner |-> Nobody, active |-> TRUE, key |-> 1] ELSE Unregistered]
  /\ flow = [f \in Flows |-> NoFlow]
  /\ live = {}
  /\ client = [f \in Flows |-> "waiting"]

-----------------------------------------------------------------------------
(* Members.                                                                *)

\* authorize with activation: a verified sign-in binds an invited member.
SignIn(m) ==
  /\ member[m].status = "invited" /\ ~member[m].known
  /\ member' = [member EXCEPT ![m].status = "active", ![m].known = TRUE]
  /\ UNCHANGED <<device, flow, live, client>>

Invite(p, m, role, q) ==
  /\ Admin(p)
  /\ member[m].status = "absent"
  /\ member' = [member EXCEPT ![m].status = "invited", ![m].role = role,
                              ![m].quota = q]
  /\ UNCHANGED <<device, flow, live, client>>

\* clear_sessions: nothing that was approved can still be collected or used.
SessionsOf(m) == {f \in live : flow[f].by = m}
Cleared(m) == [f \in Flows |-> IF flow[f].by = m /\ flow[f].status = "approved"
                               THEN [flow[f] EXCEPT !.status = "denied"]
                               ELSE flow[f]]

LastAdmin(m) == Admin(m) /\ Cardinality(Admins) <= 1

Update(p, m, role, status, q) ==
  LET landed == IF status = "active" /\ ~member[m].known THEN "invited"
                                                         ELSE status
  IN
  /\ Admin(p)
  /\ member[m].status # "absent"
  /\ LastAdmin(m) => role = "admin" /\ landed = "active"
  /\ member' = [member EXCEPT ![m].role = role, ![m].status = landed,
                              ![m].quota = q]
  /\ IF landed = "disabled" /\ member[m].known
     THEN /\ live' = live \ SessionsOf(m)
          /\ flow' = Cleared(m)
          /\ device' = [d \in Computers |-> IF device[d].owner = m
                          THEN [device[d] EXCEPT !.active = FALSE]
                          ELSE device[d]]
     ELSE UNCHANGED <<live, flow, device>>
  /\ UNCHANGED client

RevokeSessions(p, m) ==
  /\ Admin(p)
  /\ member[m].known
  /\ live' = live \ SessionsOf(m)
  /\ flow' = Cleared(m)
  /\ UNCHANGED <<member, device, client>>

-----------------------------------------------------------------------------
(* Devices.                                                                *)

\* An administrator, the owner, or the operator's command.
RevokeDevice(d) ==
  /\ device[d].key > 0
  /\ device' = [device EXCEPT ![d].active = FALSE]
  /\ UNCHANGED <<member, flow, live, client>>

\* The operator's command registers a device without an owner.
Register(d) ==
  /\ device[d] = Unregistered
  /\ device' = [device EXCEPT ![d].active = TRUE, ![d].key = 1]
  /\ UNCHANGED <<member, flow, live, client>>

Bug_RotateDevice(d) ==
  /\ device[d].key \in 1..MaxRotations
  /\ device' = [device EXCEPT ![d].active = TRUE, ![d].key = @ + 1]
  /\ UNCHANGED <<member, flow, live, client>>

\* The operator's rotation restores access, unless the owner is disabled.
RotateDevice(d) ==
  /\ device[d].key \in 1..MaxRotations
  /\ device[d].owner # Nobody => Active(device[d].owner)
  /\ device' = [device EXCEPT ![d].active = TRUE, ![d].key = @ + 1]
  /\ UNCHANGED <<member, flow, live, client>>

-----------------------------------------------------------------------------
(* The connection flow.                                                    *)

\* create: a computer that has a credential proves it in a transaction of
\* its own, before the one that inserts the flow.
Prove(f, d) ==
  /\ flow[f] = NoFlow
  /\ DeviceAuthorized(d)
  /\ flow' = [flow EXCEPT ![f] = [NoFlow EXCEPT !.status = "proved",
                                  !.device = d, !.key = device[d].key]]
  /\ UNCHANGED <<member, device, live, client>>

Create(f) ==
  /\ flow[f] = NoFlow \/ flow[f].status = "proved"
  /\ flow' = [flow EXCEPT ![f].status = "pending"]
  /\ UNCHANGED <<member, device, live, client>>

HasRoom(m) == Cardinality(ActiveOwned(m)) < member[m].quota

\* eligibility_block_reason gives none.
Eligible(f, m) ==
  LET d == flow[f].device IN
  IF d = Nobody THEN HasRoom(m)
  ELSE /\ device[d].owner \in {Nobody, m}
       /\ DeviceAuthorized(d)
       /\ device[d].key = flow[f].key
       /\ device[d].owner = m \/ (d \in Claims[m] /\ HasRoom(m))

\* decide: the device, the session and the flow change together.
Approve(f, m) ==
  /\ Active(m)
  /\ flow[f].status = "pending"
  /\ Eligible(f, m)
  /\ Cardinality(SessionsOf(m)) < SessionLimit
  /\ \E d \in Computers :
       /\ IF flow[f].device = Nobody
          THEN /\ device[d] = Unregistered
               /\ device' = [device EXCEPT ![d] =
                    [owner |-> m, active |-> TRUE, key |-> 1]]
          ELSE /\ d = flow[f].device
               /\ device' = [device EXCEPT ![d].owner = m]
       /\ flow' = [flow EXCEPT ![f] = [@ EXCEPT !.status = "approved", !.by = m,
                     !.device = d, !.new = flow[f].device = Nobody]]
  /\ live' = live \cup {f}
  /\ UNCHANGED <<member, client>>

Deny(f) ==
  /\ \E m \in Members : Active(m)
  /\ flow[f].status = "pending"
  /\ flow' = [flow EXCEPT ![f].status = "denied"]
  /\ UNCHANGED <<member, device, live, client>>

\* poll reads the flow, and the device it registered, in one transaction,
Poll(f) ==
  /\ client[f] = "waiting"
  /\ flow[f].status = "approved"
  /\ flow[f].new => device[flow[f].device].active /\ device[flow[f].device].key = 1
  /\ client' = [client EXCEPT ![f] = "collecting"]
  /\ UNCHANGED <<member, device, flow, live>>

Bug_Collect(f) ==
  /\ client[f] = "collecting"
  /\ client' = [client EXCEPT ![f] = "connected"]
  /\ UNCHANGED <<member, device, flow, live>>

\* and authorizes the session again in a second one before it answers.
Collect(f) ==
  /\ client[f] = "collecting"
  /\ client' = [client EXCEPT ![f] = IF f \in live /\ Active(flow[f].by)
                                     THEN "connected" ELSE "waiting"]
  /\ UNCHANGED <<member, device, flow, live>>

\* The answer is lost, or the Hub restarts, and the computer polls again.
Lose(f) ==
  /\ client[f] \in {"collecting", "connected"}
  /\ flow[f].status = "approved"
  /\ client' = [client EXCEPT ![f] = "waiting"]
  /\ UNCHANGED <<member, device, flow, live>>

Acknowledge(f) ==
  /\ client[f] = "connected"
  /\ flow[f].status = "approved"
  /\ flow' = [flow EXCEPT ![f].status = "acknowledged"]
  /\ UNCHANGED <<member, device, live, client>>

Logout(f) ==
  /\ client[f] = "connected" /\ f \in live
  /\ live' = live \ {f}
  /\ UNCHANGED <<member, device, flow, client>>

\* A session passes its expiry; a flow that was not collected in ten minutes
\* has expired for every reader, which is no different from a denied one.
Expire(f) ==
  \/ /\ f \in live
     /\ live' = live \ {f}
     /\ UNCHANGED <<member, device, flow, client>>
  \/ /\ flow[f].status \in {"pending", "approved"}
     /\ flow' = [flow EXCEPT ![f].status = "denied"]
     /\ UNCHANGED <<member, device, live, client>>

-----------------------------------------------------------------------------
MembershipNext ==
  \/ \E m \in Members : SignIn(m)
  \/ \E p, m \in Members :
       \/ \E r \in {"admin", "member"}, q \in Quotas : Invite(p, m, r, q)
       \/ \E r \in {"admin", "member"}, q \in Quotas,
             s \in {member[m].status, "active", "disabled"} :
               Update(p, m, r, s, q)
       \/ RevokeSessions(p, m)
  \/ \E d \in Computers : Register(d) \/ RevokeDevice(d) \/ RotateDevice(d)
  \/ \E f \in Flows :
       \/ \E d \in Computers : Prove(f, d)
       \/ \E m \in Members : Approve(f, m)
       \/ Create(f) \/ Deny(f) \/ Poll(f) \/ Collect(f) \/ Lose(f)
       \/ Acknowledge(f) \/ Logout(f) \/ Expire(f)

MembershipSpec == MembershipInit /\ [][MembershipNext]_memberVars

-----------------------------------------------------------------------------
(* Properties.                                                             *)

MembershipTypeOK ==
  /\ member \in [Members -> Person]
  /\ device \in [Computers -> Computer]
  /\ flow \in [Flows -> Connection]
  /\ live \subseteq Flows
  /\ client \in [Flows -> {"waiting", "collecting", "connected"}]

\* A member who is not active has no session, no credential waiting to be
\* collected and no working device, over every order of disabling, enabling,
\* approval, claim and the operator's rotation (membership.py:347).
RevokedMeansOut ==
  \A m \in Members : ~Active(m) =>
    /\ SessionsOf(m) = {}
    /\ ActiveOwned(m) = {}
    /\ \A f \in Flows : flow[f].by = m => flow[f].status # "approved"

\* Once there is an active administrator there always is one, whatever
\* administrators do to each other at the same time (membership.py:330).
AdminRemains == [][Admins # {} => Admins' # {}]_member

\* A computer is handed its credentials only while the session is live and
\* its member active, and the flow was approved by that member, although the
\* flow was read in an earlier transaction (identity.py:450).
CredentialsLive ==
  [][\A f \in Flows :
       client[f] # "connected" /\ client'[f] = "connected" =>
         /\ f \in live
         /\ Active(flow[f].by)
         /\ device[flow[f].device].owner = flow[f].by]_client

\* A computer that has an owner never changes it: flows of two members that
\* proved the same computer cannot both win (identity.py:300).
NeverReowned ==
  [][\A d \in Computers :
       device[d].owner # Nobody => device'[d].owner = device[d].owner]_device
=============================================================================
