------------------------------ MODULE TagIndex ------------------------------
(***************************************************************************)
(* How MovieAggregate.init picks one of the projection tags for an entity: *)
(* Math.abs(entityId.hashCode() % TAGS.size()), in Java's int arithmetic.  *)
(***************************************************************************)
EXTENDS Integers

CONSTANT MaxInt         \* Integer.MAX_VALUE

\* The number of tags, TAGS.size().
NumTags == 5

ASSUME MaxIntAssumption == MaxInt \in Nat /\ NumTags <= MaxInt

\* What hashCode() may return: the ints, one more below zero than above.
MinInt == -MaxInt - 1
HashCodes == MinInt .. MaxInt

\* Java's remainder truncates toward zero: it has the sign of the dividend.
Rem(a, n) == IF a >= 0 THEN a % n ELSE -((-a) % n)

\* Java's Math.abs; the least int has no counterpart and stays what it is.
Abs(a) == IF a = MinInt THEN a ELSE IF a < 0 THEN -a ELSE a

\* Mutant: the absolute value is taken first.
MutIndexOfAbsFirst(h) == Rem(Abs(h), NumTags)

\* The index into TAGS for hash code h.
IndexOf(h) == Abs(Rem(h, NumTags))

\* Every hash code selects a tag that exists, the least int included, and
\* h and -h the same one: the distance to 0 decides (MovieAggregate.init).
TagsExist ==
    \A h \in HashCodes :
        /\ IndexOf(h) \in 0 .. NumTags - 1
        /\ IndexOf(h) = (IF h < 0 THEN -h ELSE h) % NumTags
=============================================================================
