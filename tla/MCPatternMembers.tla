---------------------------- MODULE MCPatternMembers ----------------------------
(***************************************************************************)
(* Captures of every member of parity sets, two chunk sizes, patterns from *)
(* several bases, one damaged sector; and questions that fit or miss, some *)
(* from before the first or past the last LBA there is.                    *)
(***************************************************************************)
EXTENDS PatternMembers, Bitwise

MCXor(x, y) == x ^^ y

MCSets == {<<"raid3", 3>>, <<"raid3", 4>>, <<"raid5", 4>>}

MCCaptures ==
  UNION {{[level |-> s[1], count |-> s[2], index |-> i, chunk |-> c, rows |-> 10 \div c,
           base |-> b, damaged |-> d] :
             i \in 0..(s[2] - 1), c \in {1, 2}, b \in {0, 3, 4, 6}, d \in {None, 3}} :
           s \in MCSets}

MCQuestions ==
  {[command |-> k, offset |-> o, length |-> n, base |-> b, width |-> w,
    index |-> i, chunk |-> c] :
      k \in {"raid3", "raid5"}, o \in {0, 1, 2}, n \in {3, 4, 8}, b \in {-1, 0, 3, 4, 6, 24},
      w \in {2, 3}, i \in 0..3, c \in {1, 2}}
    \cup {[command |-> "raid3", offset |-> o, length |-> n, base |-> 0,
           width |-> w, index |-> 0, chunk |-> c] :
             o \in {-1, 0}, n \in {-4, 0, 4}, w \in {1, 2}, c \in {-1, 0, 1}}
===============================================================================
