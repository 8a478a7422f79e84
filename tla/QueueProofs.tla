----------------------------- MODULE QueueProofs -----------------------------
(***************************************************************************)
(* The queues of calls on their way: what is left when one arrives, and    *)
(* where the calls stand when others are sent behind them.                 *)
(***************************************************************************)
EXTENDS Naturals, Sequences, TLAPS

\* The first call is taken.
LEMMA QueueTails ==
    ASSUME NEW S, NEW s \in Seq(S), s # << >>
    PROVE  /\ Tail(s) \in Seq(S) /\ Len(s) \in Nat \ {0} /\ Head(s) = s[1] /\ s[1] \in S
           /\ DOMAIN s = 1 .. Len(s) /\ DOMAIN Tail(s) = 1 .. Len(s) - 1
           /\ \A i \in 1 .. Len(s) - 1 : Tail(s)[i] = s[i + 1]
<1>1. Len(s) \in Nat \ {0} /\ Head(s) = s[1] /\ s[1] \in S /\ DOMAIN s = 1 .. Len(s)
  OBVIOUS
<1>2. Tail(s) \in Seq(S) /\ Len(Tail(s)) = Len(s) - 1 /\ DOMAIN Tail(s) = 1 .. Len(s) - 1
  BY <1>1
<1>3. \A i \in 1 .. Len(s) - 1 : Tail(s)[i] = s[i + 1]
  BY <1>1, <1>2
<1> QED BY <1>1, <1>2, <1>3

\* Calls are sent.
LEMMA QueueConcats ==
    ASSUME NEW S, NEW s \in Seq(S), NEW t \in Seq(S)
    PROVE  /\ s \o t \in Seq(S) /\ Len(s) \in Nat /\ Len(t) \in Nat
           /\ DOMAIN s = 1 .. Len(s) /\ DOMAIN t = 1 .. Len(t) /\ DOMAIN (s \o t) = 1 .. Len(s) + Len(t)
           /\ \A i \in 1 .. Len(s) + Len(t) : (s \o t)[i] = IF i <= Len(s) THEN s[i] ELSE t[i - Len(s)]
OBVIOUS

LEMMA QueueGrows ==
    ASSUME NEW S, NEW s \in Seq(S), NEW t \in Seq(S)
    PROVE  /\ s \o t \in Seq(S)
           /\ \A i \in DOMAIN s : i \in DOMAIN (s \o t) /\ (s \o t)[i] = s[i] /\ i \in Nat
           /\ \A i \in DOMAIN (s \o t) : \/ i \in DOMAIN s /\ (s \o t)[i] = s[i]
                                         \/ \E j \in DOMAIN t : (s \o t)[i] = t[j] /\ i = Len(s) + j
           /\ \A j \in DOMAIN t : Len(s) + j \in DOMAIN (s \o t) /\ (s \o t)[Len(s) + j] = t[j]
<1> DEFINE n == Len(s)
           m == Len(t)
           u == s \o t
<1>1. /\ n \in Nat /\ m \in Nat /\ u \in Seq(S) /\ DOMAIN s = 1 .. n /\ DOMAIN t = 1 .. m /\ DOMAIN u = 1 .. n + m
      /\ \A i \in 1 .. n + m : u[i] = IF i <= n THEN s[i] ELSE t[i - n]
  BY QueueConcats
<1> HIDE DEF n, m, u
<1>2. \A i \in 1 .. n : i \in 1 .. n + m /\ i <= n /\ i \in Nat
  BY <1>1
<1>3. \A i \in 1 .. n + m : i \in 1 .. n \/ (i - n \in 1 .. m /\ ~(i <= n) /\ i = n + (i - n))
  BY <1>1
<1>4. \A j \in 1 .. m : n + j \in 1 .. n + m /\ ~(n + j <= n) /\ (n + j) - n = j
  BY <1>1
<1>5. \A i \in DOMAIN u : (i \in DOMAIN s /\ u[i] = s[i]) \/ \E j \in DOMAIN t : u[i] = t[j] /\ i = n + j
  <2> SUFFICES ASSUME NEW i \in 1 .. n + m
               PROVE  (i \in 1 .. n /\ u[i] = s[i]) \/ \E j \in 1 .. m : u[i] = t[j] /\ i = n + j
    BY <1>1
  <2>1. CASE i \in 1 .. n
    BY <1>1, <1>2, <2>1
  <2>2. CASE i - n \in 1 .. m /\ ~(i <= n) /\ i = n + (i - n)
    <3>1. u[i] = t[i - n]
      BY <1>1, <2>2
    <3> QED BY <2>2, <3>1
  <2> QED BY <1>3, <2>1, <2>2
<1>6. \A i \in DOMAIN s : i \in DOMAIN u /\ u[i] = s[i] /\ i \in Nat
  BY <1>1, <1>2
<1>7. \A j \in DOMAIN t : n + j \in DOMAIN u /\ u[n + j] = t[j]
  BY <1>1, <1>4
<1> QED BY <1>1, <1>5, <1>6, <1>7 DEF n, u

\* One call, or two.
LEMMA QueueBlows ==
    ASSUME NEW S, NEW x, NEW y
    PROVE  /\ << >> \in Seq(S) /\ DOMAIN << >> = {}
           /\ x \in S => /\ <<x>> \in Seq(S) /\ DOMAIN <<x>> = {1} /\ <<x>>[1] = x /\ Len(<<x>>) = 1 /\ <<x>> # << >>
                         /\ << >> \o <<x>> = <<x>> /\ <<x>> \o << >> = <<x>>
           /\ x \in S /\ y \in S => /\ <<x>> \o <<y>> \in Seq(S) /\ DOMAIN (<<x>> \o <<y>>) = {1, 2}
                                    /\ (<<x>> \o <<y>>)[1] = x /\ (<<x>> \o <<y>>)[2] = y
                                    /\ Len(<<x>> \o <<y>>) = 2 /\ <<x>> \o <<y>> # << >>
<1>1. << >> \in Seq(S) /\ DOMAIN << >> = {}
  OBVIOUS
<1>2. ASSUME x \in S
      PROVE  /\ <<x>> \in Seq(S) /\ DOMAIN <<x>> = {1} /\ <<x>>[1] = x /\ Len(<<x>>) = 1 /\ <<x>> # << >>
             /\ << >> \o <<x>> = <<x>> /\ <<x>> \o << >> = <<x>>
  <2>1. <<x>> \in Seq(S) /\ DOMAIN <<x>> = {1} /\ <<x>>[1] = x /\ Len(<<x>>) = 1 /\ <<x>> # << >>
    BY <1>2
  <2>2. << >> \o <<x>> = <<x>>
    BY <1>2, <2>1
  <2>3. <<x>> \o << >> = <<x>>
    BY <1>2, <2>1
  <2> QED BY <2>1, <2>2, <2>3
<1>3. ASSUME x \in S, y \in S
      PROVE  /\ <<x>> \o <<y>> \in Seq(S) /\ DOMAIN (<<x>> \o <<y>>) = {1, 2}
             /\ (<<x>> \o <<y>>)[1] = x /\ (<<x>> \o <<y>>)[2] = y
             /\ Len(<<x>> \o <<y>>) = 2 /\ <<x>> \o <<y>> # << >>
  BY <1>3
<1> QED BY <1>1, <1>2, <1>3
=============================================================================
