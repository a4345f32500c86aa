---------------------------- MODULE MCMiningJobs ----------------------------
(* MiningJobs for TLC: the notifiers are interchangeable; every value of a *)
(* word in every place of a header, the other words being all different.   *)
EXTENDS MiningJobs, TLC

Symmetry == Permutations(Notifiers)

WordValues == [1 .. WordBytes -> Bytes]
Other(i) == [b \in 1 .. WordBytes |-> (i + b) % ByteBase]
HeaderWith(i, w) ==
    [b \in 1 .. HeaderBytes |->
       LET j == ((b - 1) \div WordBytes) + 1
           k == ((b - 1) % WordBytes) + 1
       IN  IF j = i THEN w[k] ELSE Other(j)[k]]

MCHeaders == {HeaderWith(i, w) : i \in 1 .. NumWords, w \in WordValues}
MCTimestamps == 0 .. ByteBase ^ WordBytes - 1

=============================================================================
