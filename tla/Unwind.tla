-------------------------------- MODULE Unwind --------------------------------
(***************************************************************************)
(* Runs the functions of the tables, in any order their component allows,  *)
(* with any of their calls failing.                                        *)
(***************************************************************************)
EXTENDS UnwindDrivers

CONSTANT MaxPasses   \* bound: passes through the loops of one call

ASSUME UnwindAssumption == MaxPasses \in Nat

VARIABLES
  uComp,   \* the component
  uFn,     \* the function that runs, "" if none
  uPc,     \* its next instruction
  uHeld,   \* the resources held
  uPass,   \* passes through loops so far
  uWrong,  \* a resource was released without being held, or acquired twice
  uBack    \* how the last call returned: "", "ok" or "err"

uVars == <<uComp, uFn, uPc, uHeld, uPass, uWrong, uBack>>

UInit ==
  /\ uComp = "" /\ uFn = "" /\ uPc = 0 /\ uHeld = {} /\ uPass = 0
  /\ uWrong = FALSE /\ uBack = ""

UnwindTable == DriverTable

Body == UnwindTable[uComp][uFn].body

\* The state that f is called in, and that it returns to with an error.
Expects(f) == f.needs \ f.lost \subseteq uHeld /\ uHeld \ Meant \subseteq f.needs

\* A function of the component is called in a state it expects.
UCall ==
  /\ uFn = "" \/ uBack # ""
  /\ \E c \in DOMAIN UnwindTable : \E f \in DOMAIN UnwindTable[c] :
       /\ uComp \in {"", c}
       /\ Expects(UnwindTable[c][f])
       /\ uComp' = c /\ uFn' = f
  /\ uPc' = 1 /\ uPass' = 0 /\ uBack' = ""
  /\ UNCHANGED <<uHeld, uWrong>>

Position(l) == IF \E i \in DOMAIN Body : Body[i] = At(l)
               THEN CHOOSE i \in DOMAIN Body : Body[i] = At(l)
               ELSE Len(Body) + 1

Takes(r) == uHeld' = uHeld \cup {r}
Drops(r) == uHeld' = uHeld \ {r}

UStep ==
  /\ uFn # "" /\ uBack = "" /\ uPc \in DOMAIN Body
  /\ LET i == Body[uPc]
     IN  \/ /\ i.op \in {"get", "more"}
            /\ \/ Takes(i.r) /\ uPc' = uPc + 1
                  /\ uWrong' = (uWrong \/ (i.op = "get" /\ i.r \in uHeld))
               \/ uPc' = Position(i.to) /\ UNCHANGED <<uHeld, uWrong>>
            /\ UNCHANGED <<uPass, uBack>>
         \/ /\ i.op \in {"put", "putall"}
            /\ Drops(i.r) /\ uPc' = uPc + 1
            /\ uWrong' = (uWrong \/ (i.op = "put" /\ i.r \notin uHeld))
            /\ UNCHANGED <<uPass, uBack>>
         \/ /\ i.op \in {"branch", "goto", "has", "label"}
            /\ uPc' \in CASE i.op = "branch" -> {uPc + 1, Position(i.to)}
                          [] i.op = "goto"   -> {Position(i.to)}
                          [] i.op = "has"    -> {IF i.r \in uHeld THEN Position(i.to) ELSE uPc + 1}
                          [] i.op = "label"  -> {uPc + 1}
            /\ UNCHANGED <<uHeld, uPass, uWrong, uBack>>
         \/ /\ i.op = "loop"
            /\ \/ uPc' = uPc + 1 /\ UNCHANGED uPass
               \/ uPass < MaxPasses /\ uPass' = uPass + 1 /\ uPc' = Position(i.to)
            /\ UNCHANGED <<uHeld, uWrong, uBack>>
         \/ /\ i.op \in {"ok", "err"}
            /\ uBack' = i.op /\ UNCHANGED <<uPc, uHeld, uPass, uWrong>>
  /\ UNCHANGED <<uComp, uFn>>

UFail ==
  /\ uFn # "" /\ uBack = "" /\ uPc > Len(Body)
  /\ uBack' = "err"
  /\ UNCHANGED <<uComp, uFn, uPc, uHeld, uPass, uWrong>>

UNext == UCall \/ UStep \/ UFail

=============================================================================
