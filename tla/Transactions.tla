---------------------------- MODULE Transactions ----------------------------
(***************************************************************************)
(* The transactions of a SafeSlice next to each other: what SafeSlice      *)
(* does, and a history of each. base is what a transaction began with; own *)
(* is what it has made of it since, one operation after the other, with    *)
(* plain sequences.                                                        *)
(*                                                                         *)
(* A history multiplies the states. A behaviour therefore has either one   *)
(* transaction, a caller with slices of his own and no history, or several *)
(* transactions with histories, on shorter slices and without a caller.    *)
(***************************************************************************)
EXTENDS SafeSlice

CONSTANT TxLen  \* bound: the longest slice where histories are kept

VARIABLES kept, \* are histories kept? Chosen at the start.
          base, \* [Txs -> Seq(Values)]: the contents at Begin
          own   \* [Txs -> Seq(Values)]: base, changed by the transaction

histories == <<kept, base, own>>
tvars == <<vars, histories>>

Within ==
    IF kept THEN ref["caller"] = Nil /\ \A w \in Owners : ref[w].len <= TxLen
    ELSE Cardinality(open) <= 1

TInit ==
    /\ Init
    /\ kept \in BOOLEAN
    /\ base = [t \in Txs |-> <<>>] /\ own = [t \in Txs |-> <<>>]

\* From now on t began with xs and has made ys of it.
Note(t, xs, ys) ==
    /\ base' = IF kept THEN [base EXCEPT ![t] = xs] ELSE base
    /\ own' = IF kept THEN [own EXCEPT ![t] = ys] ELSE own
    /\ UNCHANGED kept

TBegin(t)      == Begin(t) /\ Note(t, View("slice"), View("slice"))
TSet(t, i, v)  == TxSet(t, i, v) /\ Note(t, base[t], [own[t] EXCEPT ![i] = v])
TAppend(t, xs) == TxAppend(t, xs) /\ Note(t, base[t], own[t] \o xs)
TDelete(t, i)  == TxDelete(t, i) /\ Note(t, base[t], RemoveAt(own[t], i))
TCommit(t)     == Commit(t) /\ Note(t, <<>>, <<>>)
TRollback(t)   == Rollback(t) /\ Note(t, <<>>, <<>>)

TTxStep(t) ==
    \/ TBegin(t) \/ TCommit(t) \/ TRollback(t)
    \/ \E i \in Positions, v \in Values : TSet(t, i, v)
    \/ \E i \in Positions : TDelete(t, i)
    \/ \E xs \in Args : TAppend(t, xs)

TNext ==
    /\ \/ (SliceStep \/ CallerStep) /\ UNCHANGED histories
       \/ \E t \in Txs : TTxStep(t)
    /\ Within'

TSpec == TInit /\ [][TNext]_tvars

-----------------------------------------------------------------------------
(* Properties                                                              *)

\* Nothing that others did is lost without need: a transaction that finds the contents
\* as they were at its Begin leaves, by Commit, exactly its work on them, as if it had
\* run alone, whatever else was begun, committed or done with the arrays meanwhile. (If
\* they have changed, the changes are lost: Commit does not look.)
CommitsSerial ==
    [][kept => \A t \in Txs :
          TCommit(t) /\ View("slice") = base[t] => View("slice")' = own[t]]_tvars
=============================================================================
