-------------------------- MODULE DocumentRegister ---------------------------
(***************************************************************************)
(* What a MongoAuthStore promises about one document: a set or a delete    *)
(* takes effect at one point between its start and its answer, and at most *)
(* once; when the answer is a result it has taken effect, when it is an    *)
(* error nobody knows.  Nothing is said about versions: the last to take   *)
(* effect wins.  MongoStore.tla is shown to implement this module.         *)
(***************************************************************************)
CONSTANTS Calls, Fields, None, Old

VARIABLES
  value,         \* per field, the call whose data is stored, None or Old
  writes,        \* what each call is to do: the fields it replaces, {} to delete
  status         \* how far each call is

drVars == <<value, writes, status>>

DRInit ==
  /\ value \in {[f \in Fields |-> None], [f \in Fields |-> Old]}
  /\ writes = [c \in Calls |-> {}]
  /\ status = [c \in Calls |-> "idle"]

Start(c, fields) ==
  /\ status[c] = "idle"
  /\ writes' = [writes EXCEPT ![c] = fields]
  /\ status' = [status EXCEPT ![c] = "open"]
  /\ UNCHANGED value

\* The value after the call: a delete leaves nothing.
Effect(c) ==
  IF writes[c] = {}
    THEN [f \in Fields |-> None]
    ELSE [f \in Fields |-> IF f \in writes[c] THEN c ELSE value[f]]

\* The error may come with the effect, when the answer is lost.
Take(c) ==
  /\ status[c] = "open"
  /\ value' = Effect(c)
  /\ \E s \in {"applied", "failed"} : status' = [status EXCEPT ![c] = s]
  /\ UNCHANGED writes

Answer(c) ==
  /\ status[c] = "applied"
  /\ status' = [status EXCEPT ![c] = "answered"]
  /\ UNCHANGED <<value, writes>>

Fail(c) ==
  /\ status[c] = "open"
  /\ status' = [status EXCEPT ![c] = "failed"]
  /\ UNCHANGED <<value, writes>>

\* Documents live for a limited time.
Expire ==
  /\ value' = [f \in Fields |-> None]
  /\ UNCHANGED <<writes, status>>

DRNext ==
  \/ Expire
  \/ \E c \in Calls :
       \/ \E fields \in SUBSET Fields : Start(c, fields)
       \/ Take(c) \/ Answer(c) \/ Fail(c)

DRSpec == DRInit /\ [][DRNext]_drVars

=============================================================================
