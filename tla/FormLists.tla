------------------------------- MODULE FormLists -------------------------------
(***************************************************************************)
(* What the service that edits forms promises of the arrays of a form, its *)
(* fields, its logic rules and its collaborators.  A request takes effect  *)
(* at one moment, on the arrays as they are at that moment, and only if    *)
(* its sender may write to the form at that moment.  One that is answered  *)
(* with success has taken effect, unless there was a moment at which it    *)
(* had nothing to change in them; one that is refused never does.          *)
(***************************************************************************)
EXTENDS FormDocument

VARIABLES
    lists,          \* the arrays of each form, None if there is no such form
    request,        \* each request as it was sent
    outcome         \* of each request

vars == <<lists, request, outcome>>

Outcomes == {"none", "redundant", "OK", "refused", "failed"}

Init ==
    /\ DOMAIN lists = FormIds
    /\ \A r \in Requests : lists[r] = None
    /\ request = [r \in Requests |-> None]
    /\ outcome = [r \in Requests |-> "none"]

Ask(r) ==
    /\ request[r] = None
    /\ request'[r] # None
    /\ IsCall(request'[r])
    /\ request' = [request EXCEPT ![r] = request'[r]]
    /\ UNCHANGED <<lists, outcome>>

Founds(r) == request[r].method \in {"duplicate", "copy", "create"}

Target(r) == lists[request[r].id]

Applicable(r) ==
    request[r].method = "update" => ~Inapplicable(Target(r), request[r].body)

Applied(r) ==
    IF request[r].method = "update"
    THEN EditedLists(Target(r), request[r].body, r)
    ELSE Target(r)

(* The request finds that it has nothing to change in the arrays.          *)
BeRedundant(r) ==
    /\ outcome[r] = "none"
    /\ request[r] # None
    /\ ~Founds(r)
    /\ Target(r) # None
    /\ Applicable(r)
    /\ Applied(r) = Target(r)
    /\ outcome' = [outcome EXCEPT ![r] = "redundant"]
    /\ UNCHANGED <<lists, request>>

Acknowledge(r) ==
    /\ outcome[r] = "redundant"
    /\ outcome' \in {[outcome EXCEPT ![r] = "OK"],
                     [outcome EXCEPT ![r] = "failed"]}
    /\ UNCHANGED <<lists, request>>

(* The sender is told, or an error hides it from him.                      *)
TakeEffect(r) ==
    /\ outcome[r] = "none"
    /\ request[r] # None
    /\ ~Founds(r)
    /\ Target(r) # None
    /\ CanWrite(Target(r), request[r].user)
    /\ Applicable(r)
    /\ lists' = [lists EXCEPT ![request[r].id] = Applied(r)]
    /\ outcome' \in {[outcome EXCEPT ![r] = "OK"],
                     [outcome EXCEPT ![r] = "failed"]}
    /\ UNCHANGED request

(* A new form belongs to its founder, who shares it with nobody yet.       *)
Found(r) ==
    /\ outcome[r] = "none"
    /\ request[r] # None
    /\ Founds(r)
    /\ lists[r] = None
    /\ lists' = [lists EXCEPT ![r] = lists'[r]]
    /\ lists'[r] \in Lists
    /\ lists'[r].admin = request[r].user
    /\ lists'[r].permissionList = [u \in Users |-> "none"]
    /\ outcome' \in {[outcome EXCEPT ![r] = "OK"],
                     [outcome EXCEPT ![r] = "failed"]}
    /\ UNCHANGED request

HaveNoEffect(r) ==
    /\ outcome[r] \in {"none", "redundant"}
    /\ outcome' \in {[outcome EXCEPT ![r] = "refused"],
                     [outcome EXCEPT ![r] = "failed"]}
    /\ UNCHANGED <<lists, request>>

Next ==
    \E r \in Requests :
        \/ Ask(r) \/ BeRedundant(r) \/ Acknowledge(r)
        \/ TakeEffect(r) \/ Found(r) \/ HaveNoEffect(r)

Spec == Init /\ [][Next]_vars
=============================================================================
