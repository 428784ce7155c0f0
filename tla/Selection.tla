----------------------------- MODULE Selection ------------------------------
(***************************************************************************)
(* What the history pages promise about the car and the period on show.    *)
(* The browser holds a stack of selections and stands on one of them.  A   *)
(* period is asked for, and the answer is applied only to the very         *)
(* selection it was asked for; travelling through the stack changes none   *)
(* of it; a change of car keeps the period, where "all of the history" is  *)
(* a period of whichever car is selected.  History implements this.        *)
(***************************************************************************)
EXTENDS Sequences, Naturals

CONSTANTS Car, Period, Unset, MaxStack

VARIABLES stack, at, wish

selection == <<stack, at, wish>>

Scope == [car : Car \cup {Unset}, period : Period \cup {Unset}]
Blank == [car |-> Unset, period |-> Unset]
NoWish == [asked |-> Unset]

Newest(s) == IF Len(s) > MaxStack THEN Tail(s) ELSE s
\* What lay ahead is forgotten, and of a long stack the oldest.
Push(scope) ==
  /\ stack' = Newest(Append(SubSeq(stack, 1, at), scope))
  /\ at' = Len(stack')
Put(scope) == stack' = [stack EXCEPT ![at] = scope] /\ UNCHANGED at

\* What is not set may be filled in.
Filled(value, set) == IF value = Unset THEN set \cup {Unset} ELSE {value}

\* A page is entered, with nothing selected yet or by a link that says what.
Init ==
  /\ stack \in {<<scope>> : scope \in Scope}
  /\ at = 1 /\ wish = NoWish

Enter(scope) == UNCHANGED wish /\ Push(scope)
\* Filling in a car may end a wish that was made without one.
Establish(here) ==
  /\ wish' \in {wish, NoWish}
  /\ \E scope \in [car : Filled(here.car, Car), period : Filled(here.period, Period)] :
       Put(scope)
\* A record turns out to be another car's.
Reveal(c, here) == wish' = NoWish /\ Put([here EXCEPT !.car = c])
Choose(c, here) == wish' = NoWish /\ Push([here EXCEPT !.car = c])
Ask(p, here) == wish' = [asked |-> p, for |-> here] /\ UNCHANGED <<stack, at>>
Grant(here) ==
  /\ wish # NoWish /\ wish.for = here
  /\ wish' = NoWish
  /\ \E c \in Filled(here.car, Car) : Push([car |-> c, period |-> wish.asked])
Drop == wish' = NoWish /\ UNCHANGED <<stack, at>>
Travel(i) == i \in 1..Len(stack) /\ at' = i /\ UNCHANGED <<stack, wish>>

Next ==
  \E here \in {stack[at]} :
    \/ \E scope \in {here, Blank} : Enter(scope)
    \/ Establish(here)
    \/ \E c \in Car : Reveal(c, here) \/ Choose(c, here)
    \/ \E p \in Period : Ask(p, here)
    \/ Grant(here) \/ Drop
    \/ \E i \in {at - 1, at + 1} : Travel(i)

Spec == Init /\ [][Next]_selection
=============================================================================
