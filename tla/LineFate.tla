------------------------------ MODULE LineFate ------------------------------
(***************************************************************************)
(* What bot.py promises of a line a user said, whichever gate it meets: it *)
(* ends at most once, in one event, only after it was said, and under a    *)
(* verdict that vouches for its author only if somebody then did vouch.    *)
(* That a line was vouched for stands once it has ended.  TrustGate        *)
(* (services vouch) and OrderGate (a pinned key vouches) implement it.     *)
(***************************************************************************)
EXTENDS Naturals, Sequences

CONSTANTS
    Line,       \* the lines there can be
    Fate,       \* how a line can end
    Vouching    \* the fates that vouch for the author

VARIABLES
    said,       \* the lines said so far
    vouched,    \* those whose author is vouched for
    ends        \* per line, the events that ended it

vars == <<said, vouched, ends>>

Open == {l \in said : ends[l] = << >>}

\* A line is said; its author may be vouched for already.
Say(l) ==
    /\ l \notin said
    /\ said' = said \cup {l}
    /\ vouched' \in {vouched, vouched \cup {l}}
    /\ UNCHANGED ends

\* What is known of the open lines changes, and those of L end.
Judge(L) ==
    /\ vouched' \in SUBSET said
    /\ vouched \ Open \subseteq vouched'
    /\ \E fate \in [L -> Fate] :
        /\ ends' = [l \in Line |-> IF l \in L THEN <<fate[l]>> ELSE ends[l]]
        /\ \A l \in L : fate[l] \in Vouching => l \in vouched'
    /\ UNCHANGED said

Init == said = {} /\ vouched = {} /\ ends = [l \in Line |-> << >>]
Next == (\E l \in Line : Say(l)) \/ (\E L \in SUBSET Open : Judge(L))
Spec == Init /\ [][Next]_vars

\* Every line said ends: users say so many, and in the end none is open.
Ending == []<>(Open = {})
=============================================================================
