---------------------------- MODULE MCPowerShare ----------------------------
(* Installations for the runs of PowerShare, scaled so that a minimum of 2
   stands for 6 A and the smoothing keeps to half of it. *)
EXTENDS PowerShare

\* One EVSE can take less than the others
MCMaxima == [n \in Evses |-> IF n = 2 THEN 2 ELSE 3]

----------------------------------------------------------------------------
(* The surplus of a shortage for three EVSEs, compared with what the rounds are
   to compute: in the run the surplus is never more than 1.
   A handout is fair if it uses what can be used, nobody exceeds his maximum,
   and whoever has 1 more than another has what the other could not take.    *)

Three == INSTANCE Distribution WITH N <- 3, BalancedMax <- <<5, 3, 2>>

IsFair(shares, S, surplus) ==
    LET maximum == <<5, 3, 2>>
    IN  /\ Three!Total(shares, S) = Min({surplus, Three!Total(maximum, S)})
        /\ \A n \in S : shares[n] <= maximum[n]
        /\ \A m, n \in S : shares[m] > shares[n] + 1 => shares[n] = maximum[n]

ASSUME HandoutIsFair ==
    \A S \in (SUBSET Three!Evses) \ {{}}, surplus \in 0 .. 12 :
        IsFair(Three!Handout(<<0, 0, 0>>, S, surplus), S, surplus)
=============================================================================
