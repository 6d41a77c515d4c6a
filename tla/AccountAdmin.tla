---------------------------- MODULE AccountAdmin ----------------------------
(***************************************************************************)
(* Administrators changing one another's accounts, after status,           *)
(* updateAccess, addRole and removeRole of UsersService.  Each request is  *)
(* judged twice: when it arrives, and again in the serializable            *)
(* transaction that carries it out, after others may have changed both the *)
(* account and the administrator.  What a role assignment is worth depends *)
(* on the time as well: it may begin later, and it may end by itself.      *)
(***************************************************************************)
EXTENDS Integers

CONSTANTS
    Users, Requests,
    Roles, SuperAdmin, ClassRepresentative,
    RoleRank,       \* ROLE_RANK; 0 for a role that is not in it
    NoUser,
    MaxChanges      \* bound on what is committed and on what the time changes

ASSUME AdminAssumption ==
    /\ NoUser \notin Users
    /\ SuperAdmin \in Roles /\ ClassRepresentative \in Roles \ {SuperAdmin}
    /\ RoleRank \in [Roles -> Nat]
    /\ \A r \in Roles \ {SuperAdmin} : RoleRank[r] < RoleRank[SuperAdmin]
    /\ MaxChanges \in Nat

VARIABLES
    account,    \* users.status
    row,        \* user_roles: "NONE", or where the time stands to its validity
    request,    \* what each request asks for
    changes     \* how often anything was changed

vars == <<account, row, request, changes>>

Statuses == {"ACTIVE", "SUSPENDED", "ARCHIVED"}
\* no row; valid; valid up to a date; from a date on; no longer
Validity == {"NONE", "VALID", "DATED", "LATER", "OVER"}
Request  == [kind : {"REST", "STATUS", "REPLACE", "ADD", "REMOVE"}, actor : Users \cup {NoUser},
             target : Users \cup {NoUser}, roles : SUBSET Roles, to : Statuses \cup Validity]
Rest     == [kind |-> "REST", actor |-> NoUser, target |-> NoUser, roles |-> {}, to |-> "NONE"]

\* What the endpoints accept
Asked(a, t) ==
    [kind : {"STATUS"}, actor : {a}, target : {t}, roles : {{}}, to : Statuses]
        \cup [kind : {"REPLACE"}, actor : {a}, target : {t}, roles : (SUBSET Roles) \ {{}},
              to : {"VALID"}]
        \cup [kind : {"ADD"}, actor : {a}, target : {t}, roles : {{r} : r \in Roles},
              to : {"VALID", "DATED", "LATER", "OVER"}]
        \cup [kind : {"REMOVE"}, actor : {a}, target : {t}, roles : {{r} : r \in Roles},
              to : {"NONE"}]

RowsOf(u) == {r \in Roles : row[u][r] # "NONE"}
Held(u)   == {r \in Roles : row[u][r] \in {"VALID", "DATED"}}
ActiveSuper(u) == account[u] = "ACTIVE" /\ SuperAdmin \in Held(u)

(* Accounts as they were created, one of them to begin with                *)
Init ==
    /\ account = [u \in Users |-> "ACTIVE"]
    /\ row \in [Users -> [Roles -> {"NONE", "VALID"}]]
    /\ \A u \in Users : RowsOf(u) # {}
    /\ \E u \in Users : ActiveSuper(u)
    /\ request = [c \in Requests |-> Rest]
    /\ changes = 0

-----------------------------------------------------------------------------
(* highestRoleRank of R is above that of Q                                 *)
Above(R, Q) == \E r \in R : RoleRank[r] > 0 /\ \A q \in Q : RoleRank[q] < RoleRank[r]

(* assertMayEditAccount: only a Super Admin edits an equal                 *)
MayEdit(a, t) ==
    /\ ~Above(Held(t), Held(a))
    /\ Above(Held(a), Held(t)) \/ SuperAdmin \in Held(a)

(* assertRoleDelegation: nobody gives a role above the own ones            *)
MayGive(a, R) ==
    \A r \in R : ~Above({r}, Held(a)) /\ (RoleRank[r] = 0 => SuperAdmin \in Held(a))

(* If the last row could go as well                                        *)
KeepsNothing(q) == q.roles \subseteq RowsOf(q.target)

(* A user must retain at least one role                                    *)
KeepsRole(q) == q.roles \subseteq RowsOf(q.target) /\ RowsOf(q.target) # q.roles

(* What each operation asks of the actor and of the account                *)
Permitted(q) ==
    /\ account[q.actor] = "ACTIVE"
    /\ q.actor # q.target \/ (q.kind = "STATUS" /\ q.to = "ACTIVE")
    /\ MayEdit(q.actor, q.target)
    /\ q.kind # "STATUS" => account[q.target] # "ARCHIVED"
    /\ q.kind \in {"REPLACE", "ADD"} => MayGive(q.actor, q.roles)
    /\ q.kind = "REMOVE" => KeepsRole(q)

(* The last active Super Admin cannot lose that role                       *)
SuperStays(q) ==
    ActiveSuper(q.target)
      /\ (\/ q.kind = "STATUS" /\ q.to # "ACTIVE"
          \/ q.kind = "REPLACE" /\ SuperAdmin \notin q.roles
          \/ q.kind = "REMOVE" /\ SuperAdmin \in q.roles)
    => \E u \in Users \ {q.target} : ActiveSuper(u)

-----------------------------------------------------------------------------
(* The request arrives and is judged; only a change of status is already   *)
(* held against the number of Super Admins                                 *)
Arrive(c, q) ==
    /\ request[c] = Rest
    /\ Permitted(q) /\ (q.kind = "STATUS" => SuperStays(q))
    /\ request' = [request EXCEPT ![c] = q]
    /\ UNCHANGED <<account, row, changes>>

(* If the transaction relied on the judgement when the request arrived     *)
JudgedBefore(q) == q.kind # "REST"

(* The transaction judges it by what it reads after it locked both users   *)
Judged(q) == q.kind # "REST" /\ Permitted(q) /\ SuperStays(q)

Counted == changes < MaxChanges /\ changes' = changes + 1

(* status: an account that is not active represents no class               *)
SetStatus(c) ==
    LET q == request[c] IN
    /\ q.kind = "STATUS" /\ Judged(q) /\ Counted
    /\ account' = [account EXCEPT ![q.target] = q.to]
    /\ row' = IF q.to # "ACTIVE" /\ ClassRepresentative \in Held(q.target)
              THEN [row EXCEPT ![q.target][ClassRepresentative] = "OVER"] ELSE row
    /\ request' = [request EXCEPT ![c] = Rest]

(* updateAccess: all assignments are deleted, the ones asked for created   *)
ReplaceRoles(c) ==
    LET q == request[c] IN
    /\ q.kind = "REPLACE" /\ Judged(q) /\ Counted
    /\ row' = [row EXCEPT ![q.target] =
                  [r \in Roles |-> IF r \in q.roles THEN "VALID" ELSE "NONE"]]
    /\ request' = [request EXCEPT ![c] = Rest]
    /\ UNCHANGED account

(* addRole and removeRole: one assignment is written, or deleted           *)
WriteRole(c) ==
    LET q == request[c] IN
    /\ q.kind \in {"ADD", "REMOVE"} /\ Judged(q) /\ Counted
    /\ row' = [row EXCEPT ![q.target] =
                  [r \in Roles |-> IF r \in q.roles THEN q.to ELSE row[q.target][r]]]
    /\ request' = [request EXCEPT ![c] = Rest]
    /\ UNCHANGED account

(* The judgement turned, the permissions of the roles do not suffice, the  *)
(* transaction cannot be serialized, or the process dies                   *)
Refused(c) ==
    /\ request[c] # Rest
    /\ request' = [request EXCEPT ![c] = Rest]
    /\ UNCHANGED <<account, row, changes>>

(* An assignment begins, with or without an end, or ends                   *)
TimePasses(u, r) ==
    /\ Counted
    /\ \/ row[u][r] = "LATER" /\ \E v \in {"VALID", "DATED"} : row' = [row EXCEPT ![u][r] = v]
       \/ row[u][r] = "DATED" /\ row' = [row EXCEPT ![u][r] = "OVER"]
    /\ UNCHANGED <<account, request>>

Next ==
    \/ \E c \in Requests :
        \/ \E a, t \in Users : \E q \in Asked(a, t) : Arrive(c, q)
        \/ SetStatus(c) \/ ReplaceRoles(c) \/ WriteRole(c) \/ Refused(c)
    \/ \E u \in Users, r \in Roles : TimePasses(u, r)

Spec == Init /\ [][Next]_vars

-----------------------------------------------------------------------------
TypeOK ==
    /\ account \in [Users -> Statuses]
    /\ row \in [Users -> [Roles -> Validity]]
    /\ request \in [Requests -> Request]
    /\ changes \in 0 .. MaxChanges

(* No request leaves the college without an active Super Admin, although   *)
(* Super Admins may take the role from one another at the same time; only  *)
(* a date that was set earlier can                                         *)
NoRequestEndsTheLastSuper ==
    [][\A c \in Requests : request[c].kind # "REST" /\ request'[c].kind = "REST"
            /\ (\E u \in Users : ActiveSuper(u)) => (\E u \in Users : ActiveSuper(u))']_vars

(* These operations leave everybody a role assignment, whichever ones they *)
(* remove at once (archiving a student for good takes them all on purpose) *)
EveryoneHasRole == \A u \in Users : RowsOf(u) # {}
=============================================================================
