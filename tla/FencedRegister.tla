---------------------------- MODULE FencedRegister ----------------------------
(***************************************************************************)
(* What the store promises to whoever computes a deployment's state: a     *)
(* register written one revision at a time, either by the one holder of    *)
(* the current token or by an operator, who takes the token away.          *)
(***************************************************************************)
EXTENDS Naturals

CONSTANTS Values, NoValue

VARIABLES
    epoch,     \* registers created so far under the name
    value,     \* NoValue while there is no register
    revision,  \* writes since creation
    issued,    \* tokens issued since creation, each larger than the last
    owner,     \* the token that may write, or 0
    writer     \* the token that wrote value, or 0 for an operator

registerVars == <<epoch, value, revision, issued, owner, writer>>

Init ==
    /\ epoch = 0
    /\ value = NoValue
    /\ revision = 0
    /\ issued = 0
    /\ owner = 0
    /\ writer = 0

Create ==
    /\ value = NoValue
    /\ epoch' = epoch + 1
    /\ value' \in Values
    /\ revision' = 0
    /\ issued' = 0
    /\ owner' = 0
    /\ writer' = 0

Destroy ==
    /\ owner = 0
    /\ value' = NoValue
    /\ revision' = 0
    /\ issued' = 0
    /\ owner' = 0
    /\ writer' = 0
    /\ UNCHANGED epoch

\* A new token makes every earlier one worthless.
Grant ==
    /\ value # NoValue
    /\ issued' = issued + 1
    /\ owner' = issued + 1
    /\ UNCHANGED <<epoch, value, revision, writer>>

Revoke ==
    /\ owner' = 0
    /\ UNCHANGED <<epoch, value, revision, issued, writer>>

Write ==
    /\ owner # 0
    /\ value' \in Values
    /\ revision' = revision + 1
    /\ writer' = owner
    /\ UNCHANGED <<epoch, issued, owner>>

Overwrite ==
    /\ value # NoValue
    /\ value' \in Values
    /\ revision' = revision + 1
    /\ owner' = 0
    /\ writer' = 0
    /\ UNCHANGED <<epoch, issued>>

Next == Create \/ Destroy \/ Grant \/ Revoke \/ Write \/ Overwrite

Spec == Init /\ [][Next]_registerVars

===============================================================================
