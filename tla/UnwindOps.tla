------------------------------ MODULE UnwindOps ------------------------------
(***************************************************************************)
(* The control flow of C functions that acquire resources one after the    *)
(* other and leave through `goto' labels: a function is a sequence of the  *)
(* instructions below.  Every call that may fail fails or succeeds, every  *)
(* condition on data is true or false; what is followed is what the        *)
(* function holds.  Running off the end returns an error, as the label     *)
(* ladders of this code do.                                                *)
(***************************************************************************)
EXTENDS Naturals, Sequences

Op(op, r, to) == [op |-> op, r |-> r, to |-> to]

Get(r, l)  == Op("get", r, l)      \* acquire r, or goto l when that fails
More(r, l) == Op("more", r, l)     \* the same in a loop: one more of r
Try(l)     == Op("branch", "", l)  \* a call that holds nothing: may goto l
When(l)    == Op("branch", "", l)  \* a condition: may goto l
Has(r, l)  == Op("has", r, l)      \* goto l when r is held (a NULL check)
Loop(l)    == Op("loop", "", l)    \* back to l, or on
Goto(l)    == Op("goto", "", l)
Put(r)     == Op("put", r, "")     \* release r, which must be held
PutAll(r)  == Op("putall", r, "")  \* release what there is of r, if any
At(l)      == Op("label", "", l)
Ok         == Op("ok", "", "")
Err        == Op("err", "", "")

\* A label that releases r and falls through to the next one.
On(l, r) == <<At(l), Put(r)>>

\* A function that may be called with `needs' held and returns with `keeps'.
Fn(needs, keeps, body) == [needs |-> needs, keeps |-> keeps, lost |-> {}, body |-> body]

\* What a function leaves behind on purpose, also when it returns an error.
Meant == {"PortDisabled"}

\* One whose error returns may have released `lost' of what was held before.
Partly(lost, needs, keeps, body) == [needs |-> needs, keeps |-> keeps, lost |-> lost, body |-> body]
=============================================================================
