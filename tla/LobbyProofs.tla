----------------------------- MODULE LobbyProofs -----------------------------
(***************************************************************************)
(* The lobby (Lobby): what the clients show is what the server has, for    *)
(* any number of players and of requests.                                  *)
(*                                                                         *)
(* The lemmas follow the server from the seats of a room to its requests:  *)
(* each of them keeps a member as it was, or tells it of its seats         *)
(* (LobServes), or of one that is ready (LobAnswers), or that the game     *)
(* starts (LobStarts).  What a client will show when it has handled its    *)
(* mail then follows the server (LobGood).                                 *)
(***************************************************************************)
EXTENDS MCClient, QueueProofs, SequenceTheorems, WellFoundedInduction

LobRoom == [seats : Lob!Seats, state : Lob!State]
LobWorld == [parties : SUBSET LobRoom, status : [Member -> Lob!State], mail : [Member -> Seq(Lob!Message)]]

\* One seat, or two of two members.
LEMMA LobSeats ==
    /\ \A s \in Lob!Seats :
         /\ Len(s) \in {1, 2} /\ 1 \in DOMAIN s /\ s[1] \in Member /\ Lob!Range(s) \subseteq Member
         /\ DOMAIN s \subseteq {1, 2} /\ \A i \in DOMAIN s : s[i] \in Member
         /\ Len(s) = 1 => s = <<s[1]>> /\ DOMAIN s = {1} /\ Lob!Range(s) = {s[1]}
         /\ Len(s) = 2 => /\ s = <<s[1], s[2]>> /\ DOMAIN s = {1, 2} /\ s[2] \in Member /\ s[1] # s[2]
                          /\ Lob!Range(s) = {s[1], s[2]}
    /\ \A p \in Member : <<p>> \in Lob!Seats /\ Len(<<p>>) = 1 /\ <<p>>[1] = p /\ Lob!Range(<<p>>) = {p}
    /\ \A p, q \in Member : p # q => /\ <<p, q>> \in Lob!Seats /\ Len(<<p, q>>) = 2
                                     /\ <<p, q>>[1] = p /\ <<p, q>>[2] = q /\ Lob!Range(<<p, q>>) = {p, q}
<1>1. ASSUME NEW p
      PROVE  Len(<<p>>) = 1 /\ <<p>>[1] = p /\ Lob!Range(<<p>>) = {p} /\ DOMAIN <<p>> = {1}
  BY DEF Lob!Range
<1>2. ASSUME NEW p, NEW q
      PROVE  /\ Len(<<p, q>>) = 2 /\ <<p, q>>[1] = p /\ <<p, q>>[2] = q /\ DOMAIN <<p, q>> = {1, 2}
             /\ Lob!Range(<<p, q>>) = {p, q}
  BY DEF Lob!Range
<1>3. ASSUME NEW s \in Lob!Seats
      PROVE  \/ \E p \in Member : s = <<p>>
             \/ \E p, q \in Member : p # q /\ s = <<p, q>>
  BY DEF Lob!Seats
<1>4. ASSUME NEW s \in Lob!Seats
      PROVE  /\ Len(s) \in {1, 2} /\ 1 \in DOMAIN s /\ s[1] \in Member /\ Lob!Range(s) \subseteq Member
             /\ DOMAIN s \subseteq {1, 2} /\ \A i \in DOMAIN s : s[i] \in Member
             /\ Len(s) = 1 => s = <<s[1]>> /\ DOMAIN s = {1} /\ Lob!Range(s) = {s[1]}
             /\ Len(s) = 2 => /\ s = <<s[1], s[2]>> /\ DOMAIN s = {1, 2} /\ s[2] \in Member /\ s[1] # s[2]
                              /\ Lob!Range(s) = {s[1], s[2]}
  <2>1. CASE \E p \in Member : s = <<p>>
    <3>1. PICK p \in Member : s = <<p>>
      BY <2>1
    <3>2. Len(s) = 1 /\ s[1] = p /\ Lob!Range(s) = {p} /\ DOMAIN s = {1}
      BY <1>1, <3>1
    <3> QED BY <3>1, <3>2
  <2>2. CASE \E p, q \in Member : p # q /\ s = <<p, q>>
    <3>1. PICK p \in Member, q \in Member : p # q /\ s = <<p, q>>
      BY <2>2
    <3> QED BY <1>2, <3>1
  <2> QED BY <1>3, <2>1, <2>2
<1>5. ASSUME NEW p \in Member
      PROVE  <<p>> \in Lob!Seats
  BY DEF Lob!Seats
<1>6. ASSUME NEW p \in Member, NEW q \in Member, p # q
      PROVE  <<p, q>> \in Lob!Seats
  BY <1>6 DEF Lob!Seats
<1> QED BY <1>1, <1>2, <1>4, <1>5, <1>6

\* What a client will know of its seats: a message more, ...
LEMMA LobEndsMore ==
    ASSUME NEW q \in Seq(Lob!Message), NEW x \in Lob!Message, NEW f, NEW s
    PROVE  /\ x.kind = "info" => Lob!Ends(Append(q, x), f, x.seats)
           /\ x.kind # "info" /\ Lob!Ends(q, f, s) => Lob!Ends(Append(q, x), f, s)
<1>1. PICK k, u : k = Len(q) /\ u = Append(q, x)
  OBVIOUS
<1>2. /\ k \in Nat /\ DOMAIN q = 1 .. k /\ DOMAIN u = 1 .. k + 1 /\ Len(u) = k + 1
      /\ u[k + 1] = x /\ \A i \in 1 .. k : u[i] = q[i]
  BY <1>1
<1>3. /\ k + 1 \in 1 .. k + 1 /\ \A i \in (k + 1) + 1 .. k + 1 : FALSE
      /\ \A i \in 1 .. k + 1 : i = k + 1 \/ i \in 1 .. k
      /\ \A n \in 1 .. k : /\ n \in 1 .. k + 1
                           /\ \A i \in n + 1 .. k + 1 : i = k + 1 \/ i \in n + 1 .. k
                           /\ \A i \in n + 1 .. k : i \in 1 .. k
  BY <1>2
<1>4. ASSUME x.kind = "info"
      PROVE  Lob!Ends(u, f, x.seats)
  BY <1>2, <1>3, <1>4 DEF Lob!Ends
<1>5. ASSUME x.kind # "info", Lob!Ends(q, f, s)
      PROVE  Lob!Ends(u, f, s)
  <2>1. CASE f = s /\ \A i \in DOMAIN q : q[i].kind # "info"
    BY <1>2, <1>3, <1>5, <2>1 DEF Lob!Ends
  <2>2. CASE \E n \in DOMAIN q : q[n].kind = "info" /\ q[n].seats = s /\ \A i \in n + 1 .. Len(q) : q[i].kind # "info"
    <3>1. PICK n \in 1 .. k : q[n].kind = "info" /\ q[n].seats = s /\ \A i \in n + 1 .. k : q[i].kind # "info"
      BY <1>1, <1>2, <2>2
    <3>2. \A i \in n + 1 .. k + 1 : u[i].kind # "info"
      BY <1>2, <1>3, <1>5, <3>1
    <3> QED BY <1>2, <1>3, <3>1, <3>2 DEF Lob!Ends
  <2> QED BY <1>5, <2>1, <2>2 DEF Lob!Ends
<1> QED BY <1>1, <1>4, <1>5

\* ... and one that is handled.
LEMMA LobEndsLess ==
    ASSUME NEW q \in Seq(Lob!Message), q # << >>, NEW f, NEW s, Lob!Ends(q, f, s)
    PROVE  /\ q[1].kind = "info" => Lob!Ends(Tail(q), q[1].seats, s)
           /\ q[1].kind # "info" => Lob!Ends(Tail(q), f, s)
<1>1. PICK k, u : k = Len(q) /\ u = Tail(q)
  OBVIOUS
<1>2. /\ k \in Nat \ {0} /\ DOMAIN q = 1 .. k /\ DOMAIN u = 1 .. k - 1 /\ Len(u) = k - 1
      /\ \A i \in 1 .. k - 1 : u[i] = q[i + 1]
  BY <1>1, QueueTails
<1>3. /\ 1 \in 1 .. k /\ \A i \in 1 .. k - 1 : i + 1 \in 1 .. k /\ i + 1 \in 1 + 1 .. k
      /\ \A n \in 1 .. k : n # 1 => /\ n - 1 \in 1 .. k - 1 /\ (n - 1) + 1 = n
                                    /\ \A i \in (n - 1) + 1 .. k - 1 : i + 1 \in n + 1 .. k /\ i \in 1 .. k - 1
  BY <1>2
<1>4. CASE f = s /\ \A i \in DOMAIN q : q[i].kind # "info"
  BY <1>2, <1>3, <1>4, <1>1 DEF Lob!Ends
<1>5. CASE \E n \in DOMAIN q : q[n].kind = "info" /\ q[n].seats = s /\ \A i \in n + 1 .. Len(q) : q[i].kind # "info"
  <2>1. PICK n \in 1 .. k : q[n].kind = "info" /\ q[n].seats = s /\ \A i \in n + 1 .. k : q[i].kind # "info"
    BY <1>1, <1>2, <1>5
  <2>2. CASE n = 1
    BY <1>2, <1>3, <2>1, <2>2, <1>1 DEF Lob!Ends
  <2>3. CASE n # 1
    <3>1. n - 1 \in 1 .. k - 1 /\ u[n - 1].kind = "info" /\ u[n - 1].seats = s
      BY <1>2, <1>3, <2>1, <2>3
    <3>2. \A i \in (n - 1) + 1 .. k - 1 : u[i].kind # "info"
      BY <1>2, <1>3, <2>1, <2>3
    <3>3. \A g : Lob!Ends(u, g, s)
      BY <1>2, <3>1, <3>2 DEF Lob!Ends
    <3> QED BY <1>1, <3>3
  <2> QED BY <2>2, <2>3
<1> QED BY <1>4, <1>5 DEF Lob!Ends

\* What a message makes of what a client shows.
LEMMA LobHandled ==
    ASSUME NEW p \in Member, NEW v \in Lob!View, NEW x \in Lob!Message
    PROVE  /\ Lob!Handled(p, v, x) \in Lob!View
           /\ x.kind = "info" => /\ Lob!Handled(p, v, x).seats = x.seats /\ Lob!Handled(p, v, x).ready = {}
                                 /\ Lob!Handled(p, v, x).button = v.button
           /\ x.kind \notin {"info", "match"} => Lob!Handled(p, v, x) = v
           /\ x.kind = "match" =>
                /\ Lob!Handled(p, v, x).seats = v.seats
                /\ Lob!Handled(p, v, x).button =
                     IF x.seat \in DOMAIN v.seats /\ v.seats[x.seat] = p THEN x.on ELSE v.button
                /\ Lob!Handled(p, v, x).ready = IF x.on THEN v.ready \cup {x.seat} ELSE v.ready \ {x.seat}
<1>1. PICK w : w = Lob!Handled(p, v, x)
  OBVIOUS
<1>2. CASE x.kind = "info"
  BY <1>1, <1>2 DEF Lob!Handled, Lob!Message, Lob!View
<1>3. CASE x.kind = "match"
  <2>1. x.on \in BOOLEAN /\ x.seat \in {1, 2}
    BY <1>3 DEF Lob!Message
  <2>2. PICK b, m : /\ b = IF x.seat \in DOMAIN v.seats /\ v.seats[x.seat] = p THEN x.on ELSE v.button
                    /\ m = IF x.on THEN v.ready \cup {x.seat} ELSE v.ready \ {x.seat}
    OBVIOUS
  <2>3. v.button \in BOOLEAN /\ v.ready \in SUBSET {1, 2}
    BY DEF Lob!View
  <2>4. b \in BOOLEAN
    BY <2>1, <2>2, <2>3
  <2>5. m \in SUBSET {1, 2}
    BY <2>1, <2>2, <2>3
  <2>6. w = [v EXCEPT !.button = b, !.ready = m]
    BY <1>1, <1>3, <2>2 DEF Lob!Handled
  <2>7. w \in Lob!View /\ w.seats = v.seats /\ w.button = b /\ w.ready = m
    BY <2>4, <2>5, <2>6 DEF Lob!View
  <2> QED BY <1>1, <1>3, <2>2, <2>7
<1>4. CASE x.kind \notin {"info", "match"}
  BY <1>1, <1>4 DEF Lob!Handled
<1> QED BY <1>2, <1>3, <1>4

LEMMA LobLeadsNone ==
    ASSUME NEW p, NEW v \in Lob!View
    PROVE  /\ Lob!Leads(p, v, << >>, v)
           /\ \A w : Lob!Leads(p, v, << >>, w) => w = v
<1>1. Len(<< >>) = 0 /\ 0 .. 0 = {0} /\ 1 .. 0 = {}
  OBVIOUS
<1>2. PICK run : run = [i \in {0} |-> v]
  OBVIOUS
<1>3. run \in [{0} -> Lob!View] /\ run[0] = v
  BY <1>2
<1> QED BY <1>1, <1>3 DEF Lob!Leads

LEMMA LobLeadsMore ==
    ASSUME NEW p, NEW q \in Seq(Lob!Message), NEW x \in Lob!Message, NEW f, NEW v, Lob!Leads(p, f, q, v),
           Lob!Handled(p, v, x) \in Lob!View
    PROVE  Lob!Leads(p, f, Append(q, x), Lob!Handled(p, v, x))
<1>1. PICK k, u, w : k = Len(q) /\ u = Append(q, x) /\ w = Lob!Handled(p, v, x)
  OBVIOUS
<1>2. k \in Nat /\ Len(u) = k + 1 /\ u[k + 1] = x /\ \A i \in 1 .. k : u[i] = q[i]
  BY <1>1
<1>3. PICK run \in [0 .. k -> Lob!View] :
        run[0] = f /\ run[k] = v /\ \A i \in 1 .. k : run[i] = Lob!Handled(p, run[i - 1], q[i])
  BY <1>1 DEF Lob!Leads
<1>4. PICK more : more = [i \in 0 .. k + 1 |-> IF i = k + 1 THEN w ELSE run[i]]
  OBVIOUS
<1>5. /\ 0 \in 0 .. k /\ k \in 0 .. k /\ k + 1 \in 0 .. k + 1 /\ 0 # k + 1 /\ k # k + 1 /\ (k + 1) - 1 = k
      /\ \A i \in 0 .. k : i \in 0 .. k + 1 /\ i # k + 1
      /\ \A i \in 0 .. k + 1 : i = k + 1 \/ i \in 0 .. k
      /\ \A i \in 1 .. k + 1 : i = k + 1 \/ (i \in 1 .. k /\ i \in 0 .. k /\ i - 1 \in 0 .. k)
  BY <1>2
<1>6. more \in [0 .. k + 1 -> Lob!View] /\ more[k + 1] = w /\ \A i \in 0 .. k : more[i] = run[i]
  BY <1>1, <1>3, <1>4, <1>5
<1>7. ASSUME NEW i \in 1 .. k + 1
      PROVE  more[i] = Lob!Handled(p, more[i - 1], u[i])
  <2>1. CASE i = k + 1
    BY <1>2, <1>3, <1>5, <1>6, <2>1, <1>1
  <2>2. CASE i \in 1 .. k /\ i \in 0 .. k /\ i - 1 \in 0 .. k
    BY <1>2, <1>6, <2>2, <1>3
  <2> QED BY SMTT(60), <1>5, <2>1, <2>2
<1>8. more[0] = f
  BY <1>3, <1>5, <1>6
<1>9. Lob!Leads(p, f, u, w)
  BY <1>2, <1>6, <1>7, <1>8 DEF Lob!Leads
<1> QED BY <1>1, <1>9

LEMMA LobLeadsLess ==
    ASSUME NEW p, NEW q \in Seq(Lob!Message), q # << >>, NEW f, NEW v, Lob!Leads(p, f, q, v)
    PROVE  Lob!Leads(p, Lob!Handled(p, f, q[1]), Tail(q), v)
<1>1. PICK k, u, w : k = Len(q) /\ u = Tail(q) /\ w = Lob!Handled(p, f, q[1])
  OBVIOUS
<1>2. k \in Nat \ {0} /\ Len(u) = k - 1 /\ \A i \in 1 .. k - 1 : u[i] = q[i + 1]
  BY <1>1, QueueTails
<1>3. PICK run \in [0 .. k -> Lob!View] :
        run[0] = f /\ run[k] = v /\ \A i \in 1 .. k : run[i] = Lob!Handled(p, run[i - 1], q[i])
  BY <1>1 DEF Lob!Leads
<1>4. PICK less : less = [i \in 0 .. k - 1 |-> run[i + 1]]
  OBVIOUS
<1>5. /\ \A i \in 0 .. k - 1 : i + 1 \in 0 .. k /\ i + 1 \in 1 .. k
      /\ \A i \in 1 .. k - 1 : i \in 0 .. k - 1 /\ i - 1 \in 0 .. k - 1 /\ (i - 1) + 1 = i /\ (i + 1) - 1 = i
      /\ 0 \in 0 .. k - 1 /\ k - 1 \in 0 .. k - 1 /\ (k - 1) + 1 = k /\ 1 \in 1 .. k /\ 1 \in 0 .. k
      /\ 0 + 1 = 1 /\ 1 - 1 = 0
  BY <1>2
<1>6. less \in [0 .. k - 1 -> Lob!View] /\ \A i \in 0 .. k - 1 : less[i] = run[i + 1]
  BY <1>3, <1>4, <1>5
<1>7. less[k - 1] = v /\ less[0] = run[1]
  BY <1>3, <1>5, <1>6
<1>8. run[1] = w
  BY <1>3, <1>5, <1>1
<1>9. ASSUME NEW i \in 1 .. k - 1
      PROVE  less[i] = Lob!Handled(p, less[i - 1], u[i])
  BY <1>2, <1>5, <1>6, <1>3
<1>10. Lob!Leads(p, w, u, v)
  BY <1>2, <1>6, <1>7, <1>8, <1>9 DEF Lob!Leads
<1> QED BY <1>1, <1>10

\* A room that has no member in common with another.
LobApart(P) == \A r, q \in P : Lob!Range(r.seats) \cap Lob!Range(q.seats) # {} => r = q
LobSits(P, r, p) == r \in P /\ p \in Lob!Range(r.seats)
LobInfo(s) == [kind |-> "info", seats |-> s]

\* Rooms are replaced by others of the same members, or of some of them.
LEMMA LobSwap ==
    ASSUME NEW P, P \subseteq LobRoom, LobApart(P), NEW A, A \subseteq P, NEW B, B \subseteq LobRoom, LobApart(B),
           \A b \in B : \A p \in Lob!Range(b.seats) : \E a \in A : p \in Lob!Range(a.seats)
    PROVE  /\ (P \ A) \cup B \subseteq LobRoom /\ LobApart((P \ A) \cup B)
           /\ \A r, p : LobSits((P \ A) \cup B, r, p) <=>
                          \/ LobSits(B, r, p)
                          \/ LobSits(P, r, p) /\ \A a \in A : p \notin Lob!Range(a.seats)
<1>1. (P \ A) \cup B \subseteq LobRoom
  OBVIOUS
<1>2. ASSUME NEW r \in P \ A, NEW b \in B
      PROVE  Lob!Range(r.seats) \cap Lob!Range(b.seats) = {}
  <2> SUFFICES ASSUME NEW p \in Lob!Range(r.seats), p \in Lob!Range(b.seats) PROVE FALSE
    OBVIOUS
  <2>1. PICK a \in A : p \in Lob!Range(a.seats)
    OBVIOUS
  <2> QED BY <2>1 DEF LobApart
<1>3. LobApart((P \ A) \cup B)
  <2> SUFFICES ASSUME NEW r \in (P \ A) \cup B, NEW q \in (P \ A) \cup B,
                      Lob!Range(r.seats) \cap Lob!Range(q.seats) # {}
               PROVE  r = q
    BY DEF LobApart
  <2>1. CASE r \in P \ A /\ q \in P \ A
    BY <2>1 DEF LobApart
  <2>2. CASE r \in B /\ q \in B
    BY <2>2 DEF LobApart
  <2>3. CASE r \in P \ A /\ q \in B
    BY <1>2, <2>3
  <2>4. CASE r \in B /\ q \in P \ A
    BY <1>2, <2>4
  <2> QED BY <2>1, <2>2, <2>3, <2>4
<1>4. ASSUME NEW r, NEW p
      PROVE  LobSits((P \ A) \cup B, r, p) <=>
                 \/ LobSits(B, r, p)
                 \/ LobSits(P, r, p) /\ \A a \in A : p \notin Lob!Range(a.seats)
  <2>1. ASSUME r \in P \ A, p \in Lob!Range(r.seats)
        PROVE  \A a \in A : p \notin Lob!Range(a.seats)
    <3> SUFFICES ASSUME NEW a \in A, p \in Lob!Range(a.seats) PROVE FALSE
      OBVIOUS
    <3>1. a = r
      BY <2>1 DEF LobApart
    <3> QED BY <2>1, <3>1
  <2> QED BY <2>1 DEF LobSits
<1> QED BY <1>1, <1>3, <1>4

\* The room of a member.
LEMMA LobHome ==
    ASSUME NEW w \in LobWorld, LobApart(w.parties), NEW p, NEW r, LobSits(w.parties, r, p)
    PROVE  Lob!HasRoom(w, p) /\ Lob!GetRoom(w, p) = r /\ r \in LobRoom /\ r.seats \in Lob!Seats /\ r.state \in Lob!State
  BY DEF LobSits, LobWorld, LobApart, Lob!GetRoom, Lob!HasRoom, LobRoom

LEMMA LobHoused ==
    ASSUME NEW w \in LobWorld, LobApart(w.parties), NEW p, Lob!HasRoom(w, p)
    PROVE  LobSits(w.parties, Lob!GetRoom(w, p), p) /\ p \in Member
<1>1. PICK r \in w.parties : p \in Lob!Range(r.seats)
  BY DEF Lob!HasRoom
<1>2. LobSits(w.parties, r, p)
  BY <1>1 DEF LobSits
<1>3. Lob!GetRoom(w, p) = r /\ r.seats \in Lob!Seats
  BY <1>2, LobHome
<1> QED BY <1>1, <1>2, <1>3, LobSeats

\* Send
LEMMA LobSend ==
    ASSUME NEW w \in LobWorld, NEW to, NEW x \in Lob!Message
    PROVE  /\ Lob!Send(w, to, x) \in LobWorld
           /\ Lob!Send(w, to, x).parties = w.parties /\ Lob!Send(w, to, x).status = w.status
           /\ \A p \in Member : Lob!Send(w, to, x).mail[p] = IF p \in to THEN Append(w.mail[p], x) ELSE w.mail[p]
<1>1. PICK m : m = [p \in Member |-> IF p \in to THEN Append(w.mail[p], x) ELSE w.mail[p]]
  OBVIOUS
<1>2. \A p \in Member : w.mail[p] \in Seq(Lob!Message) /\ Append(w.mail[p], x) \in Seq(Lob!Message)
  BY DEF LobWorld
<1>3. m \in [Member -> Seq(Lob!Message)]
  BY <1>1, <1>2
<1>4. Lob!Send(w, to, x) = [w EXCEPT !.mail = m]
  BY <1>1 DEF Lob!Send
<1> QED BY ZenonT(60), <1>1, <1>3, <1>4 DEF LobWorld

\* Replace
LEMMA LobReplace ==
    ASSUME NEW w \in LobWorld, NEW r, NEW q \in LobRoom
    PROVE  /\ Lob!Replace(w, r, q) \in LobWorld
           /\ Lob!Replace(w, r, q).parties = (w.parties \ {r}) \cup {q}
           /\ Lob!Replace(w, r, q).status = w.status /\ Lob!Replace(w, r, q).mail = w.mail
BY DEF Lob!Replace, LobWorld

\* ChangeRoomState
LEMMA LobChange ==
    ASSUME NEW w \in LobWorld, NEW r \in LobRoom, r \in w.parties, NEW s \in Lob!State
    PROVE  /\ Lob!ChangeRoomState(w, r, s) \in LobWorld
           /\ Lob!ChangeRoomState(w, r, s).parties = (w.parties \ {r}) \cup {Lob!Room(r.seats, s)}
           /\ Lob!ChangeRoomState(w, r, s).mail = w.mail
           /\ \A p \in Member : Lob!ChangeRoomState(w, r, s).status[p] =
                  IF r.state # s /\ p \in Lob!Range(r.seats) THEN s ELSE w.status[p]
<1>1. PICK x, q : x = Lob!ChangeRoomState(w, r, s) /\ q = Lob!Room(r.seats, s)
  OBVIOUS
<1>2. q \in LobRoom /\ r = Lob!Room(r.seats, r.state)
  BY <1>1 DEF LobRoom, Lob!Room
<1>3. CASE r.state = s
  BY <1>1, <1>2, <1>3 DEF Lob!ChangeRoomState
<1>4. CASE r.state # s
  <2>1. PICK y : y = Lob!Replace(w, r, q)
    OBVIOUS
  <2>2. y \in LobWorld /\ y.parties = (w.parties \ {r}) \cup {q} /\ y.status = w.status /\ y.mail = w.mail
    BY <1>2, <2>1, LobReplace
  <2>3. PICK f : f = [p \in Member |-> IF p \in Lob!Range(r.seats) THEN s ELSE y.status[p]]
    OBVIOUS
  <2>4. f \in [Member -> Lob!State]
    BY <2>2, <2>3 DEF LobWorld
  <2>5. x = [y EXCEPT !.status = f]
    BY <1>1, <1>4, <2>1, <2>3 DEF Lob!ChangeRoomState
  <2>6. x \in LobWorld /\ x.parties = y.parties /\ x.mail = y.mail /\ x.status = f
    BY <2>2, <2>4, <2>5 DEF LobWorld
  <2> QED BY <1>1, <1>4, <2>2, <2>3, <2>6
<1> QED BY <1>3, <1>4

\* CheckAndRestateRoom
LobNext(w, r) ==
    IF r.state = "GAME" THEN "GAME" ELSE IF \A p \in Lob!Range(r.seats) : w.status[p] # "LOBBY" THEN "READY" ELSE "LOBBY"

LobRestated(w, r, s, x) ==
    /\ s \in Lob!State /\ x \in LobWorld /\ x.mail = w.mail
    /\ x.parties = (w.parties \ {r}) \cup {Lob!Room(r.seats, s)}
    /\ \A p \in Member : x.status[p] = IF r.state # s /\ p \in Lob!Range(r.seats) THEN s ELSE w.status[p]

LEMMA LobRestate ==
    ASSUME NEW w \in LobWorld, NEW r \in LobRoom, r \in w.parties
    PROVE  LobRestated(w, r, LobNext(w, r), Lob!CheckAndRestateRoom(w, r))
<1>4. PICK s, x : s = LobNext(w, r) /\ x = Lob!CheckAndRestateRoom(w, r)
  OBVIOUS
<1>1. s \in Lob!State
  BY <1>4 DEF LobNext, Lob!State
<1>2. ASSUME r.state = "GAME" PROVE LobRestated(w, r, s, x)
  BY <1>2, <1>4, <1>1 DEF LobNext, Lob!CheckAndRestateRoom, LobRoom, Lob!Room, LobRestated
<1>3. ASSUME r.state # "GAME" PROVE LobRestated(w, r, s, x)
  BY <1>3, <1>4, <1>1, LobChange DEF LobNext, Lob!CheckAndRestateRoom, Lob!CanMatching, LobRestated
<1>5. LobRestated(w, r, s, x)
  BY <1>2, <1>3
<1> QED BY <1>4, <1>5

\* The seat of a member, and the room without it.
LEMMA LobSeat ==
    ASSUME NEW r \in LobRoom, NEW p \in Lob!Range(r.seats)
    PROVE  /\ Lob!Seat(r, p) \in DOMAIN r.seats /\ r.seats[Lob!Seat(r, p)] = p /\ Lob!Seat(r, p) \in {1, 2}
           /\ \A i \in DOMAIN r.seats : r.seats[i] = p => i = Lob!Seat(r, p)
  BY LobSeats DEF LobRoom, Lob!Range, Lob!Seat

LEMMA LobLeft ==
    ASSUME NEW r \in LobRoom, NEW p \in Lob!Range(r.seats), Len(r.seats) # 1
    PROVE  \E q \in Member : q # p /\ Lob!Range(r.seats) = {p, q} /\ Lob!Left(r, p) = Lob!Room(<<q>>, r.state)
<1>1. PICK s : s = r.seats
  OBVIOUS
<1>2. s \in Lob!Seats
  BY <1>1 DEF LobRoom
<1>3. /\ Len(s) = 2 /\ s = <<s[1], s[2]>> /\ s[1] \in Member /\ s[2] \in Member /\ s[1] # s[2]
      /\ Lob!Range(s) = {s[1], s[2]} /\ DOMAIN s = {1, 2}
  BY <1>1, <1>2, LobSeats
<1>4. PICK a \in Member, b \in Member : a = s[1] /\ b = s[2] /\ s = <<a, b>>
  BY <1>3
<1>5. /\ SubSeq(<<a, b>>, 1, 0) \o SubSeq(<<a, b>>, 2, 2) = <<b>>
      /\ SubSeq(<<a, b>>, 1, 1) \o SubSeq(<<a, b>>, 3, 2) = <<a>>
  <2>6. <<a, b>>[1] = a /\ <<a, b>>[2] = b
    OBVIOUS
  <2>4. PICK t : t = <<a, b>> /\ t[1] = a /\ t[2] = b
    BY <2>6
  <2>5. ASSUME NEW n \in {1, 2}
        PROVE  SubSeq(t, n, n) = <<t[n]>>
    <3>1. n \in Int /\ \A i \in n .. n : t[i] \in Member
      BY <2>4
    <3>2. /\ SubSeq(t, n, n) \in Seq(Member) /\ Len(SubSeq(t, n, n)) = IF n <= n THEN n - n + 1 ELSE 0
          /\ \A i \in 1 .. n - n + 1 : SubSeq(t, n, n)[i] = t[n + i - 1]
      BY <3>1, SubSeqProperties
    <3>3. PICK u : u = SubSeq(t, n, n)
      OBVIOUS
    <3>4. u \in Seq(Member) /\ Len(u) = 1 /\ u[1] = t[n]
      BY <3>2, <3>3
    <3>5. PICK c \in Member : c = t[n]
      BY <3>1
    <3>6. <<c>> \in Seq(Member) /\ Len(<<c>>) = 1 /\ <<c>>[1] = c
      OBVIOUS
    <3>7. u = <<c>>
      BY <3>4, <3>5, <3>6, SeqEqual
    <3> QED BY <3>3, <3>5, <3>7
  <2>1. SubSeq(<<a, b>>, 1, 0) = << >> /\ SubSeq(<<a, b>>, 2, 2) = <<b>>
    BY <2>4, <2>5, SubSeqEmpty
  <2>2. SubSeq(<<a, b>>, 1, 1) = <<a>> /\ SubSeq(<<a, b>>, 3, 2) = << >>
    BY <2>4, <2>5, SubSeqEmpty
  <2>3. << >> \o <<b>> = <<b>> /\ <<a>> \o << >> = <<a>>
    BY QueueBlows
  <2> QED BY <2>1, <2>2, <2>3
<1>6. Lob!Left(r, p) = Lob!Room(SubSeq(s, 1, Lob!Seat(r, p) - 1) \o SubSeq(s, Lob!Seat(r, p) + 1, 2), r.state)
  BY <1>1, <1>3 DEF Lob!Left, Lob!RemoveAt
<1>7. Lob!Seat(r, p) \in {1, 2} /\ s[Lob!Seat(r, p)] = p
  BY <1>1, LobSeat
<1>8. CASE Lob!Seat(r, p) = 1
  <2>1. Lob!Left(r, p) = Lob!Room(<<b>>, r.state)
    <3>1. 1 - 1 = 0 /\ 1 + 1 = 2
      OBVIOUS
    <3> QED BY <1>4, <1>5, <1>6, <1>8, <3>1
  <2> QED BY <1>1, <1>3, <1>4, <1>7, <1>8, <2>1
<1>9. CASE Lob!Seat(r, p) = 2
  <2>1. Lob!Left(r, p) = Lob!Room(<<a>>, r.state)
    <3>1. 2 - 1 = 1 /\ 2 + 1 = 3
      OBVIOUS
    <3> QED BY <1>4, <1>5, <1>6, <1>9, <3>1
  <2> QED BY <1>1, <1>3, <1>4, <1>7, <1>9, <2>1
<1> QED BY <1>7, <1>8, <1>9

\* SendRoomInfoToAllMember
LEMMA LobInforms ==
    ASSUME NEW w \in LobWorld, NEW r \in LobRoom
    PROVE  /\ LobInfo(r.seats) \in Lob!Message
           /\ Lob!SendRoomInfoToAllMember(w, r) \in LobWorld
           /\ Lob!SendRoomInfoToAllMember(w, r).parties = w.parties
           /\ Lob!SendRoomInfoToAllMember(w, r).status = w.status
           /\ \A p \in Member : Lob!SendRoomInfoToAllMember(w, r).mail[p] =
                  IF p \in Lob!Range(r.seats) THEN Append(w.mail[p], LobInfo(r.seats)) ELSE w.mail[p]
  BY LobSend DEF LobInfo, LobRoom, Lob!Message, Lob!SendRoomInfoToAllMember

\* A member leaves its room: the one that stays, if any, is told and may be ready now.
LobState(s, st) == IF s = "GAME" THEN "GAME" ELSE IF st # "LOBBY" THEN "READY" ELSE "LOBBY"
LobStayed(w, r, p, q, st, x) ==
    /\ q # p /\ Lob!Range(r.seats) = {p, q} /\ st = LobState(r.state, w.status[q])
    /\ x.parties = (w.parties \ {r}) \cup {Lob!Room(<<q>>, st)}
    /\ \A y \in Member : /\ x.mail[y] = IF y = q THEN Append(w.mail[y], LobInfo(<<q>>)) ELSE w.mail[y]
                         /\ x.status[y] = IF y = q /\ st # r.state THEN st ELSE w.status[y]
LobAlone(w, r, p, x) ==
    Lob!Range(r.seats) = {p} /\ x.parties = w.parties \ {r} /\ x.status = w.status /\ x.mail = w.mail

LobGone(w, r, p, x) ==
    /\ x \in LobWorld /\ r \in LobRoom
    /\ LobAlone(w, r, p, x) \/ \E q \in Member, st \in Lob!State : LobStayed(w, r, p, q, st, x)

LEMMA LobOut ==
    ASSUME NEW w \in LobWorld, LobApart(w.parties), NEW p, NEW r, LobSits(w.parties, r, p)
    PROVE  LobGone(w, r, p, Lob!OutRoom(w, p))
<1>4. PICK x : x = Lob!OutRoom(w, p)
  OBVIOUS
<1>1. Lob!GetRoom(w, p) = r /\ r \in LobRoom /\ r \in w.parties /\ p \in Lob!Range(r.seats) /\ r.seats \in Lob!Seats
  BY LobHome DEF LobSits
<1>2. ASSUME Len(r.seats) = 1 PROVE LobGone(w, r, p, x)
  <2>1. x = [w EXCEPT !.parties = w.parties \ {r}]
    BY <1>1, <1>2, <1>4 DEF Lob!OutRoom
  <2>2. x \in LobWorld /\ x.parties = w.parties \ {r} /\ x.status = w.status /\ x.mail = w.mail
    BY <2>1 DEF LobWorld
  <2>3. Lob!Range(r.seats) = {p}
    BY <1>1, <1>2, LobSeats
  <2> QED BY <1>1, <2>2, <2>3 DEF LobAlone, LobGone
<1>3. ASSUME Len(r.seats) # 1 PROVE LobGone(w, r, p, x)
  <2>1. PICK q \in Member : q # p /\ Lob!Range(r.seats) = {p, q} /\ Lob!Left(r, p) = Lob!Room(<<q>>, r.state)
    BY <1>1, <1>3, LobLeft
  <2>2. PICK l : l = Lob!Left(r, p)
    OBVIOUS
  <2>3. l \in LobRoom /\ l.seats = <<q>> /\ l.state = r.state /\ Lob!Range(l.seats) = {q}
    BY <1>1, <2>1, <2>2, LobSeats DEF Lob!Room, LobRoom
  <2>4. l \notin w.parties \ {r}
    BY <1>1, <2>1, <2>3 DEF LobApart
  <2>5. PICK y : y = Lob!Replace(w, r, l)
    OBVIOUS
  <2>6. y \in LobWorld /\ y.parties = (w.parties \ {r}) \cup {l} /\ y.status = w.status /\ y.mail = w.mail
    BY <2>3, <2>5, LobReplace
  <2>7. PICK z : z = Lob!SendRoomInfoToAllMember(y, l)
    OBVIOUS
  <2>8. /\ z \in LobWorld /\ z.parties = y.parties /\ z.status = w.status
        /\ \A a \in Member : z.mail[a] = IF a = q THEN Append(w.mail[a], LobInfo(<<q>>)) ELSE w.mail[a]
    BY <2>3, <2>6, <2>7, LobInforms
  <2>9. PICK st : st = LobNext(z, l)
    OBVIOUS
  <2>10. st = LobState(r.state, w.status[q])
    BY <2>3, <2>8, <2>9 DEF LobNext, LobState
  <2>11. x = Lob!CheckAndRestateRoom(z, l)
    BY <1>1, <1>3, <1>4, <2>2, <2>5, <2>7 DEF Lob!OutRoom
  <2>12. /\ st \in Lob!State /\ x \in LobWorld /\ x.mail = z.mail
         /\ x.parties = (z.parties \ {l}) \cup {Lob!Room(l.seats, st)}
         /\ \A a \in Member : x.status[a] = IF l.state # st /\ a \in Lob!Range(l.seats) THEN st ELSE z.status[a]
    BY <2>6, <2>8, <2>3, <2>9, <2>11, LobRestate DEF LobRestated
  <2>13. x.parties = (w.parties \ {r}) \cup {Lob!Room(<<q>>, st)}
    BY <2>3, <2>4, <2>6, <2>8, <2>12
  <2>14. LobStayed(w, r, p, q, st, x)
    BY <2>1, <2>3, <2>8, <2>10, <2>12, <2>13 DEF LobStayed
  <2> QED BY <1>1, <2>12, <2>14 DEF LobGone
<1>5. LobGone(w, r, p, x)
  BY <1>2, <1>3
<1> QED BY <1>4, <1>5

\* Whoever waits alone for a game is ready; nobody waits with another one.
LobAble(w) == \A r \in w.parties : r.state = "READY" /\ Len(r.seats) = 1 => w.status[r.seats[1]] = "READY"
LobCalm(w) == LobAble(w) /\ \A r \in w.parties : r.state = "READY" => Len(r.seats) = 1

\* What the server does means to a member that nothing changes, or that it is told of its room.
LobFair(w, x, p) ==
    LobCalm(w) /\ w.status[p] # "GAME" => /\ (x.status[p] = "READY") <=> (w.status[p] = "READY")
                                          /\ x.status[p] # "GAME"
LobKept(w, x, p) ==
    /\ Lob!GetRoom(x, p).seats = Lob!GetRoom(w, p).seats
    /\ \A y \in Lob!Range(Lob!GetRoom(w, p).seats) : x.status[y] = w.status[y]
    /\ \/ x.mail[p] = w.mail[p]
       \/ \E m \in Lob!Message : m.kind \in {"invite", "failed"} /\ (m.kind = "invite" => m.from # p) /\ x.mail[p] = Append(w.mail[p], m)
LobInformed(w, x, p) ==
    x.mail[p] = Append(w.mail[p], LobInfo(Lob!GetRoom(x, p).seats)) /\ LobFair(w, x, p)
LobServes(w, x, S) ==
    /\ x \in LobWorld /\ LobApart(x.parties)
    /\ \A p \in Member : Lob!HasRoom(x, p) <=> Lob!HasRoom(w, p) /\ p \in S
    /\ \A p \in Member : Lob!HasRoom(x, p) => LobKept(w, x, p) \/ LobInformed(w, x, p)
    /\ LobCalm(w) => LobAble(x)

\* The rooms A become the rooms B: their members are told, who is in none of B has left.
LobMakes(w, x, A, B) ==
    /\ A \subseteq w.parties /\ B \subseteq LobRoom /\ LobApart(B) /\ x.parties = (w.parties \ A) \cup B
    /\ \A b \in B : \A p \in Lob!Range(b.seats) : \E a \in A : p \in Lob!Range(a.seats)
    /\ \A p \in Member : (\A a \in A : p \notin Lob!Range(a.seats)) => x.mail[p] = w.mail[p] /\ x.status[p] = w.status[p]
    /\ \A b \in B : \A p \in Lob!Range(b.seats) : x.mail[p] = Append(w.mail[p], LobInfo(b.seats)) /\ LobFair(w, x, p)
    /\ LobCalm(w) => \A b \in B : b.state = "READY" /\ Len(b.seats) = 1 => x.status[b.seats[1]] = "READY"

LEMMA LobServing ==
    ASSUME NEW w \in LobWorld, LobApart(w.parties), NEW x \in LobWorld, NEW A, NEW B, LobMakes(w, x, A, B), NEW S,
           \A a \in A : \A p \in Lob!Range(a.seats) : p \in S <=> \E b \in B : p \in Lob!Range(b.seats),
           \A p \in Member : p \in S \/ \E a \in A : p \in Lob!Range(a.seats)
    PROVE  LobServes(w, x, S)
<1>1. w.parties \subseteq LobRoom
  BY DEF LobWorld
<1>2. /\ LobApart(x.parties)
      /\ \A r, p : LobSits(x.parties, r, p) <=>
                       \/ LobSits(B, r, p)
                       \/ LobSits(w.parties, r, p) /\ \A a \in A : p \notin Lob!Range(a.seats)
  <2>1. /\ A \subseteq w.parties /\ B \subseteq LobRoom /\ LobApart(B) /\ x.parties = (w.parties \ A) \cup B
        /\ \A b \in B : \A p \in Lob!Range(b.seats) : \E a \in A : p \in Lob!Range(a.seats)
    BY DEF LobMakes
  <2>2. PICK P : P = w.parties
    OBVIOUS
  <2>3. P \subseteq LobRoom /\ LobApart(P) /\ A \subseteq P
    BY <1>1, <2>1, <2>2
  <2>4. /\ LobApart((P \ A) \cup B)
        /\ \A r, p : LobSits((P \ A) \cup B, r, p) <=>
                         \/ LobSits(B, r, p)
                         \/ LobSits(P, r, p) /\ \A a \in A : p \notin Lob!Range(a.seats)
    BY <2>1, <2>3, LobSwap
  <2>5. PICK X : X = (P \ A) \cup B
    OBVIOUS
  <2>6. x.parties = X
    BY <2>1, <2>2, <2>5
  <2>7. /\ LobApart(X)
        /\ \A r, p : LobSits(X, r, p) <=> LobSits(B, r, p) \/ (LobSits(P, r, p) /\ \A a \in A : p \notin Lob!Range(a.seats))
    BY <2>4, <2>5
  <2> QED BY <2>2, <2>6, <2>7
<1>3. \A r, p : LobSits(w.parties, r, p) => Lob!HasRoom(w, p) /\ Lob!GetRoom(w, p) = r
  BY LobHome
<1>4. \A r, p : LobSits(x.parties, r, p) => Lob!HasRoom(x, p) /\ Lob!GetRoom(x, p) = r
  BY <1>2, LobHome
<1>5. \A p : Lob!HasRoom(w, p) => LobSits(w.parties, Lob!GetRoom(w, p), p)
  BY LobHoused
<1>6. \A p : Lob!HasRoom(x, p) => LobSits(x.parties, Lob!GetRoom(x, p), p)
  BY <1>2, LobHoused
<1>7. A \subseteq w.parties
  BY DEF LobMakes
<1>8. ASSUME NEW p \in Member
      PROVE  Lob!HasRoom(x, p) <=> Lob!HasRoom(w, p) /\ p \in S
  <2>1. CASE \E a \in A : p \in Lob!Range(a.seats)
    <3>1. PICK a \in A : p \in Lob!Range(a.seats)
      BY <2>1
    <3>2. Lob!HasRoom(w, p)
      BY <1>3, <1>7, <3>1 DEF LobSits
    <3>3. p \in S <=> \E b \in B : p \in Lob!Range(b.seats)
      BY <3>1
    <3>4. (\E b \in B : p \in Lob!Range(b.seats)) <=> \E r : LobSits(x.parties, r, p)
      BY <1>2, <3>1 DEF LobSits
    <3> QED BY <1>4, <1>6, <3>2, <3>3, <3>4
  <2>2. CASE \A a \in A : p \notin Lob!Range(a.seats)
    BY <2>2, <1>2, <1>3, <1>4, <1>5, <1>6 DEF LobSits, LobMakes
  <2> QED BY <2>1, <2>2
<1>9. ASSUME NEW p \in Member, Lob!HasRoom(x, p)
      PROVE  LobKept(w, x, p) \/ LobInformed(w, x, p)
  <2>1. PICK r : r = Lob!GetRoom(x, p) /\ LobSits(x.parties, r, p)
    BY <1>6, <1>9
  <2>2. CASE LobSits(B, r, p)
    BY <2>2, <2>1 DEF LobSits, LobMakes, LobInformed
  <2>3. CASE LobSits(w.parties, r, p) /\ \A a \in A : p \notin Lob!Range(a.seats)
    <3>1. Lob!GetRoom(w, p) = r
      BY <1>3, <2>3
    <3>2. x.mail[p] = w.mail[p]
      BY <2>3 DEF LobMakes
    <3>3. ASSUME NEW y \in Lob!Range(r.seats)
          PROVE  x.status[y] = w.status[y]
      <4>1. \A a \in A : y \notin Lob!Range(a.seats)
        <5> SUFFICES ASSUME NEW a \in A, y \in Lob!Range(a.seats) PROVE FALSE
          OBVIOUS
        <5>1. a = r
          BY <1>7, <2>3, <3>3 DEF LobApart, LobSits
        <5> QED BY <2>3, <5>1 DEF LobSits
      <4>2. y \in Member
        BY <2>3, <3>3, <1>3, LobHoused DEF LobSits
      <4> QED BY <4>1, <4>2 DEF LobMakes
    <3> QED BY <2>1, <3>1, <3>2, <3>3 DEF LobKept
  <2> QED BY <1>2, <2>1, <2>2, <2>3
<1>10. ASSUME LobCalm(w), NEW r \in x.parties, r.state = "READY", Len(r.seats) = 1
       PROVE  x.status[r.seats[1]] = "READY"
  <2>1. CASE r \in B
    BY <1>10, <2>1 DEF LobMakes
  <2>2. CASE r \in w.parties \ A
    <3>1. w.status[r.seats[1]] = "READY" /\ r.seats \in Lob!Seats
      BY <1>1, <1>10, <2>2 DEF LobCalm, LobAble, LobRoom
    <3>2. r.seats[1] \in Member /\ r.seats[1] \in Lob!Range(r.seats)
      BY <1>10, <3>1, LobSeats
    <3>3. \A a \in A : r.seats[1] \notin Lob!Range(a.seats)
      <4> SUFFICES ASSUME NEW a \in A, r.seats[1] \in Lob!Range(a.seats) PROVE FALSE
        OBVIOUS
      <4>1. a = r
        BY <1>7, <2>2, <3>2 DEF LobApart
      <4> QED BY <2>2, <4>1
    <3> QED BY <3>1, <3>2, <3>3 DEF LobMakes
  <2>3. r \in B \/ r \in w.parties \ A
    BY DEF LobMakes
  <2> QED BY <2>1, <2>2, <2>3
<1> QED BY <1>2, <1>8, <1>9, <1>10 DEF LobServes, LobAble

\* Who stays is told, and stays what it was, or is ready.
LEMMA LobStays ==
    ASSUME NEW w \in LobWorld, NEW x, NEW r \in w.parties, NEW p \in Member, NEW q \in Member, NEW st, LobStayed(w, r, p, q, st, x)
    PROVE  /\ LobCalm(w) => r.state # "READY"
           /\ x.mail[q] = Append(w.mail[q], LobInfo(<<q>>)) /\ LobFair(w, x, q)
           /\ LobCalm(w) /\ st = "READY" => x.status[q] = "READY"
           /\ Lob!Room(<<q>>, st) \in LobRoom
<1>1. q # p /\ Lob!Range(r.seats) = {p, q} /\ st = LobState(r.state, w.status[q])
  BY DEF LobStayed
<1>2. r \in LobRoom /\ w.status[q] \in Lob!State
  BY DEF LobWorld
<1>3. r.seats \in Lob!Seats /\ r.state \in Lob!State
  BY <1>2 DEF LobRoom
<1>4. Len(r.seats) # 1
  BY <1>1, <1>3, LobSeats
<1>5. LobCalm(w) => r.state # "READY"
  BY <1>4 DEF LobCalm
<1>6. x.mail[q] = Append(w.mail[q], LobInfo(<<q>>)) /\ x.status[q] = IF st # r.state THEN st ELSE w.status[q]
  BY DEF LobStayed
<1>7. LobFair(w, x, q)
  <2> SUFFICES ASSUME LobCalm(w), w.status[q] # "GAME"
               PROVE  ((x.status[q] = "READY") <=> (w.status[q] = "READY")) /\ x.status[q] # "GAME"
    BY DEF LobFair
  <2>1. PICK s, t, u : s = r.state /\ t = w.status[q] /\ u = x.status[q]
    OBVIOUS
  <2>2. s \in {"LOBBY", "GAME"} /\ t \in {"LOBBY", "READY"}
    BY <1>2, <1>3, <1>5, <2>1 DEF Lob!State
  <2>3. u = IF st # s THEN st ELSE t
    BY <1>6, <2>1
  <2>4. st = IF s = "GAME" THEN "GAME" ELSE IF t # "LOBBY" THEN "READY" ELSE "LOBBY"
    BY <1>1, <2>1 DEF LobState
  <2>5. (u = "READY" <=> t = "READY") /\ u # "GAME"
    BY <2>2, <2>3, <2>4
  <2> QED BY <2>1, <2>5
<1>8. LobCalm(w) /\ st = "READY" => x.status[q] = "READY"
  BY <1>5, <1>6
<1>9. Lob!Room(<<q>>, st) \in LobRoom
  BY <1>1, LobSeats DEF LobState, Lob!State, LobRoom, Lob!Room
<1> QED BY <1>5, <1>6, <1>7, <1>8, <1>9

\* OutRoom: all members of the room but p are in a new one.
LobGoes(w, x, r, p, B) ==
    /\ x \in LobWorld /\ LobMakes(w, x, {r}, B)
    /\ \A b \in B : \A y \in Lob!Range(b.seats) : y \in Lob!Range(r.seats) /\ y # p
    /\ \A y \in Lob!Range(r.seats) : y # p => \E b \in B : y \in Lob!Range(b.seats)
    /\ x.status[p] = w.status[p] /\ x.mail[p] = w.mail[p]

LEMMA LobGoing ==
    ASSUME NEW w \in LobWorld, LobApart(w.parties), NEW p \in Member, NEW r, LobSits(w.parties, r, p)
    PROVE  \E B : LobGoes(w, Lob!OutRoom(w, p), r, p, B)
<1>1. PICK x : x = Lob!OutRoom(w, p)
  OBVIOUS
<1>2. LobGone(w, r, p, x) /\ r \in w.parties
  BY <1>1, LobOut DEF LobSits
<1>3. CASE LobAlone(w, r, p, x)
  <2>1. Lob!Range(r.seats) = {p} /\ x.parties = (w.parties \ {r}) \cup {} /\ x.status = w.status /\ x.mail = w.mail
    BY <1>3 DEF LobAlone
  <2>2. LobApart({})
    BY DEF LobApart
  <2>3. LobMakes(w, x, {r}, {})
    BY <1>2, <2>1, <2>2 DEF LobMakes
  <2>4. LobGoes(w, x, r, p, {})
    BY <1>2, <2>1, <2>3 DEF LobGoes, LobGone
  <2> QED BY <1>1, <2>4
<1>4. CASE \E q \in Member, st \in Lob!State : LobStayed(w, r, p, q, st, x)
  <2>1. PICK q \in Member, st \in Lob!State : LobStayed(w, r, p, q, st, x)
    BY <1>4
  <2>2. PICK b : b = Lob!Room(<<q>>, st)
    OBVIOUS
  <2>3. b \in LobRoom /\ b.seats = <<q>> /\ b.state = st /\ Lob!Range(b.seats) = {q} /\ b.seats[1] = q
    BY <1>2, <2>1, <2>2, LobStays, LobSeats DEF Lob!Room
  <2>4. /\ q # p /\ Lob!Range(r.seats) = {p, q} /\ x.parties = (w.parties \ {r}) \cup {b}
        /\ \A y \in Member : y # q => x.mail[y] = w.mail[y] /\ x.status[y] = w.status[y]
    BY <2>1, <2>2 DEF LobStayed
  <2>5. /\ x.mail[q] = Append(w.mail[q], LobInfo(<<q>>)) /\ LobFair(w, x, q)
        /\ LobCalm(w) /\ st = "READY" => x.status[q] = "READY"
    BY <1>2, <2>1, LobStays
  <2>6. LobApart({b})
    BY DEF LobApart
  <2>7. PICK A, B : A = {r} /\ B = {b}
    OBVIOUS
  <2>8. \A y \in Member : (\A a \in A : y \notin Lob!Range(a.seats)) => x.mail[y] = w.mail[y] /\ x.status[y] = w.status[y]
    BY <2>4, <2>7
  <2>9. \A c \in B : \A y \in Lob!Range(c.seats) : x.mail[y] = Append(w.mail[y], LobInfo(c.seats)) /\ LobFair(w, x, y)
    BY <2>3, <2>5, <2>7
  <2>10. LobCalm(w) => \A c \in B : c.state = "READY" /\ Len(c.seats) = 1 => x.status[c.seats[1]] = "READY"
    BY <2>3, <2>5, <2>7
  <2>11. \A c \in B : \A y \in Lob!Range(c.seats) : \E a \in A : y \in Lob!Range(a.seats)
    BY <2>3, <2>4, <2>7
  <2>12. A \subseteq w.parties /\ B \subseteq LobRoom /\ LobApart(B) /\ x.parties = (w.parties \ A) \cup B
    BY <1>2, <2>3, <2>4, <2>6, <2>7
  <2>13. LobMakes(w, x, A, B)
    BY <2>8, <2>9, <2>10, <2>11, <2>12 DEF LobMakes
  <2>14. LobGoes(w, x, r, p, B)
    BY <1>2, <2>3, <2>4, <2>7, <2>13 DEF LobGoes, LobGone
  <2> QED BY <1>1, <2>14
<1> QED BY <1>2, <1>3, <1>4 DEF LobGone

LEMMA LobLeaves ==
    ASSUME NEW w \in LobWorld, LobApart(w.parties), NEW p \in Member, Lob!HasRoom(w, p)
    PROVE  LobServes(w, Lob!OutRoom(w, p), Member \ {p})
<1>1. PICK r, x : LobSits(w.parties, r, p) /\ x = Lob!OutRoom(w, p)
  BY LobHoused
<1>2. PICK B : LobGoes(w, x, r, p, B)
  BY <1>1, LobGoing
<1>3. r.seats \in Lob!Seats /\ p \in Lob!Range(r.seats)
  BY <1>1, LobHome DEF LobSits
<1>4. \A y \in Lob!Range(r.seats) : y \in Member
  BY <1>3, LobSeats
<1>5. PICK A, S : A = {r} /\ S = Member \ {p}
  OBVIOUS
<1>6. \A a \in A : \A y \in Lob!Range(a.seats) : y \in S <=> \E b \in B : y \in Lob!Range(b.seats)
  BY <1>2, <1>4, <1>5 DEF LobGoes
<1>7. \A y \in Member : y \in S \/ \E a \in A : y \in Lob!Range(a.seats)
  BY <1>3, <1>5
<1>8. x \in LobWorld /\ LobMakes(w, x, A, B)
  BY <1>2, <1>5 DEF LobGoes
<1>9. LobServes(w, x, S)
  BY <1>6, <1>7, <1>8, LobServing
<1> QED BY <1>1, <1>5, <1>9

\* A member that leaves its room sits in another new one, of which its members are told: alone, ...
LEMMA LobKicks ==
    ASSUME NEW w \in LobWorld, LobApart(w.parties), NEW p \in Member, Lob!HasRoom(w, p)
    PROVE  LobServes(w, Lob!KickPlayer(w, p), Member)
<1>1. PICK r, o, x : LobSits(w.parties, r, p) /\ o = Lob!OutRoom(w, p) /\ x = Lob!KickPlayer(w, p)
  BY LobHoused
<1>2. PICK B : LobGoes(w, o, r, p, B)
  BY <1>1, LobGoing
<1>3. r.seats \in Lob!Seats /\ p \in Lob!Range(r.seats) /\ r \in w.parties
  BY <1>1, LobHome DEF LobSits
<1>4. \A y \in Lob!Range(r.seats) : y \in Member
  BY <1>3, LobSeats
<1>5. PICK n : n = Lob!Room(<<p>>, "LOBBY")
  OBVIOUS
<1>6. n \in LobRoom /\ n.seats = <<p>> /\ n.state = "LOBBY" /\ Lob!Range(n.seats) = {p}
  BY <1>5, LobSeats DEF LobRoom, Lob!Room, Lob!State
<1>7. PICK y : y = [o EXCEPT !.parties = o.parties \cup {n}]
  OBVIOUS
<1>8. o \in LobWorld /\ LobMakes(w, o, {r}, B)
  BY <1>2 DEF LobGoes
<1>9. y \in LobWorld /\ y.parties = o.parties \cup {n} /\ y.status = o.status /\ y.mail = o.mail
  BY <1>6, <1>7, <1>8 DEF LobWorld
<1>10. x = Lob!SendRoomInfoToAllMember(y, n)
  BY <1>1, <1>5, <1>7 DEF Lob!KickPlayer
<1>11. /\ x \in LobWorld /\ x.parties = o.parties \cup {n} /\ x.status = o.status
       /\ \A a \in Member : x.mail[a] = IF a = p THEN Append(o.mail[a], LobInfo(<<p>>)) ELSE o.mail[a]
  BY <1>6, <1>9, <1>10, LobInforms
<1>12. PICK A, C : A = {r} /\ C = B \cup {n}
  OBVIOUS
<1>13. LobApart(C)
  <2>1. \A b \in B : p \notin Lob!Range(b.seats)
    BY <1>2 DEF LobGoes
  <2>2. LobApart(B)
    BY <1>8 DEF LobMakes
  <2> QED BY <1>6, <1>12, <2>1, <2>2 DEF LobApart
<1>14. A \subseteq w.parties /\ C \subseteq LobRoom /\ x.parties = (w.parties \ A) \cup C
  BY <1>3, <1>6, <1>8, <1>11, <1>12 DEF LobMakes
<1>15. \A b \in C : \A a \in Lob!Range(b.seats) : a \in Lob!Range(r.seats)
  BY <1>2, <1>3, <1>6, <1>12 DEF LobGoes
<1>16. \A a \in Member : (\A b \in A : a \notin Lob!Range(b.seats)) => x.mail[a] = w.mail[a] /\ x.status[a] = w.status[a]
  BY <1>3, <1>8, <1>11, <1>12 DEF LobMakes
<1>17. \A b \in C : \A a \in Lob!Range(b.seats) : x.mail[a] = Append(w.mail[a], LobInfo(b.seats)) /\ LobFair(w, x, a)
  <2> SUFFICES ASSUME NEW b \in C, NEW a \in Lob!Range(b.seats)
               PROVE  x.mail[a] = Append(w.mail[a], LobInfo(b.seats)) /\ LobFair(w, x, a)
    OBVIOUS
  <2>1. CASE b \in B
    BY <1>2, <1>4, <1>8, <2>1, <1>11 DEF LobGoes, LobMakes, LobFair
  <2>2. CASE b = n
    BY <1>2, <1>6, <2>2, <1>11 DEF LobGoes, LobFair
  <2> QED BY <1>12, <2>1, <2>2
<1>18. LobCalm(w) => \A b \in C : b.state = "READY" /\ Len(b.seats) = 1 => x.status[b.seats[1]] = "READY"
  BY <1>6, <1>8, <1>11, <1>12 DEF LobMakes
<1>19. LobMakes(w, x, A, C)
  BY <1>12, <1>13, <1>14, <1>15, <1>16, <1>17, <1>18 DEF LobMakes
<1>20. \A a \in A : \A z \in Lob!Range(a.seats) : z \in Member <=> \E b \in C : z \in Lob!Range(b.seats)
  <2> SUFFICES ASSUME NEW z \in Lob!Range(r.seats) PROVE \E b \in C : z \in Lob!Range(b.seats)
    BY <1>4, <1>12
  <2>1. CASE z = p
    BY <1>6, <1>12, <2>1
  <2>2. CASE z # p
    BY <1>2, <1>12, <2>2 DEF LobGoes
  <2> QED BY <2>1, <2>2
<1>21. LobServes(w, x, Member)
  BY <1>11, <1>19, <1>20, LobServing
<1> QED BY <1>1, <1>21

\* ... or with the one that invited it.
LEMMA LobMoves ==
    ASSUME NEW w \in LobWorld, LobApart(w.parties), NEW c \in Member, NEW p \in Member, c # p,
           Lob!HasRoom(w, c), Lob!HasRoom(w, p), Len(Lob!GetRoom(w, c).seats) # 2
    PROVE  LobServes(w, Lob!MoveRoom(w, c, p), Member)
<1>1. PICK r, o, x : LobSits(w.parties, r, p) /\ o = Lob!OutRoom(w, p) /\ x = Lob!MoveRoom(w, c, p)
  BY LobHoused
<1>2. PICK d : d = Lob!GetRoom(w, c) /\ LobSits(w.parties, d, c)
  BY LobHoused
<1>3. PICK B : LobGoes(w, o, r, p, B)
  BY <1>1, LobGoing
<1>4. /\ r.seats \in Lob!Seats /\ p \in Lob!Range(r.seats) /\ r \in w.parties
      /\ d.seats \in Lob!Seats /\ c \in Lob!Range(d.seats) /\ d \in w.parties /\ d.state \in Lob!State
  BY <1>1, <1>2, LobHome DEF LobSits
<1>5. d.seats = <<c>> /\ Lob!Range(d.seats) = {c}
  BY <1>2, <1>4, LobSeats
<1>6. d # r /\ c \notin Lob!Range(r.seats)
  BY <1>4, <1>5 DEF LobApart
<1>7. o \in LobWorld /\ LobMakes(w, o, {r}, B) /\ o.parties = (w.parties \ {r}) \cup B
  BY <1>3 DEF LobGoes, LobMakes
<1>8. d \notin B /\ d \in o.parties
  BY <1>3, <1>4, <1>6, <1>7 DEF LobGoes
<1>9. LobApart(o.parties)
  <2>1. /\ w.parties \subseteq LobRoom /\ {r} \subseteq w.parties /\ B \subseteq LobRoom /\ LobApart(B)
        /\ \A b \in B : \A y \in Lob!Range(b.seats) : \E a \in {r} : y \in Lob!Range(a.seats)
    BY <1>4, <1>7 DEF LobWorld, LobMakes
  <2>2. LobApart((w.parties \ {r}) \cup B)
    BY <2>1, LobSwap
  <2> QED BY <1>7, <2>2
<1>10. Lob!GetRoom(o, c) = d
  BY <1>4, <1>7, <1>8, <1>9, LobHome DEF LobSits
<1>11. PICK n : n = Lob!Room(<<c, p>>, d.state)
  OBVIOUS
<1>12. n \in LobRoom /\ n.seats = <<c, p>> /\ Lob!Range(n.seats) = {c, p} /\ Len(n.seats) = 2
  BY <1>4, <1>11, LobSeats DEF LobRoom, Lob!Room
<1>13. PICK y : y = Lob!Replace(o, d, n)
  OBVIOUS
<1>14. y \in LobWorld /\ y.parties = (o.parties \ {d}) \cup {n} /\ y.status = o.status /\ y.mail = o.mail
  BY <1>7, <1>12, <1>13, LobReplace
<1>15. x = Lob!SendRoomInfoToAllMember(y, n)
  <2>1. Append(d.seats, p) = <<c, p>>
    <3>1. PICK u : u = Append(<<c>>, p)
      OBVIOUS
    <3>2. <<c>> \in Seq(Member) /\ Len(<<c>>) = 1 /\ <<c>>[1] = c
      OBVIOUS
    <3>3. u \in Seq(Member) /\ Len(u) = 2 /\ u[1] = c /\ u[2] = p
      BY <3>1, <3>2
    <3>4. u = <<c, p>>
      BY <3>3
    <3> QED BY <1>5, <3>1, <3>4
  <2> QED BY <1>1, <1>2, <1>10, <1>11, <1>13, <2>1 DEF Lob!MoveRoom, Lob!MAX_PLAYER
<1>16. /\ x \in LobWorld /\ x.parties = (o.parties \ {d}) \cup {n} /\ x.status = o.status
       /\ \A a \in Member : x.mail[a] = IF a \in {c, p} THEN Append(o.mail[a], LobInfo(<<c, p>>)) ELSE o.mail[a]
  BY <1>12, <1>14, <1>15, LobInforms
<1>17. PICK A, C : A = {r, d} /\ C = B \cup {n}
  OBVIOUS
<1>18. \A b \in B : c \notin Lob!Range(b.seats) /\ p \notin Lob!Range(b.seats)
  BY <1>3, <1>6 DEF LobGoes
<1>19. LobApart(C)
  <2>1. LobApart(B)
    BY <1>7 DEF LobMakes
  <2> QED BY <1>12, <1>17, <1>18, <2>1 DEF LobApart
<1>20. A \subseteq w.parties /\ C \subseteq LobRoom /\ x.parties = (w.parties \ A) \cup C
  BY <1>7, <1>8, <1>16, <1>17, <1>4, <1>12 DEF LobMakes
<1>21. \A b \in C : \A a \in Lob!Range(b.seats) : \E z \in A : a \in Lob!Range(z.seats)
  BY <1>3, <1>4, <1>12, <1>17 DEF LobGoes
<1>22. \A a \in Lob!Range(r.seats) : a \in Member
  BY <1>4, LobSeats
<1>23. \A a \in Member : (\A b \in A : a \notin Lob!Range(b.seats)) => x.mail[a] = w.mail[a] /\ x.status[a] = w.status[a]
  <2> SUFFICES ASSUME NEW a \in Member, \A b \in A : a \notin Lob!Range(b.seats)
               PROVE  x.mail[a] = w.mail[a] /\ x.status[a] = w.status[a]
    OBVIOUS
  <2>1. a \notin {c, p} /\ a \notin Lob!Range(r.seats)
    BY <1>4, <1>17
  <2>2. o.mail[a] = w.mail[a] /\ o.status[a] = w.status[a]
    BY <1>7, <2>1 DEF LobMakes
  <2> QED BY <1>16, <2>1, <2>2
<1>24. \A b \in C : \A a \in Lob!Range(b.seats) : x.mail[a] = Append(w.mail[a], LobInfo(b.seats)) /\ LobFair(w, x, a)
  <2> SUFFICES ASSUME NEW b \in C, NEW a \in Lob!Range(b.seats)
               PROVE  x.mail[a] = Append(w.mail[a], LobInfo(b.seats)) /\ LobFair(w, x, a)
    OBVIOUS
  <2>1. CASE b \in B
    BY <1>3, <1>7, <1>18, <1>22, <2>1, <1>16 DEF LobGoes, LobMakes, LobFair
  <2>2. CASE b = n
    <3>1. a \in {c, p} /\ o.mail[a] = w.mail[a] /\ o.status[a] = w.status[a]
      BY <1>6, <1>7, <1>3, <1>12, <2>2 DEF LobMakes, LobGoes
    <3>2. x.mail[a] = Append(w.mail[a], LobInfo(b.seats)) /\ x.status[a] = w.status[a]
      BY <1>12, <1>16, <2>2, <3>1
    <3> QED BY <3>2 DEF LobFair
  <2> QED BY <1>17, <2>1, <2>2
<1>25. LobCalm(w) => \A b \in C : b.state = "READY" /\ Len(b.seats) = 1 => x.status[b.seats[1]] = "READY"
  BY <1>7, <1>12, <1>16, <1>17 DEF LobMakes
<1>26. LobMakes(w, x, A, C)
  BY <1>19, <1>20, <1>21, <1>23, <1>24, <1>25 DEF LobMakes
<1>27. \A a \in A : \A z \in Lob!Range(a.seats) : z \in Member <=> \E b \in C : z \in Lob!Range(b.seats)
  <2> SUFFICES ASSUME NEW z, z \in Lob!Range(r.seats) \/ z \in Lob!Range(d.seats)
               PROVE  z \in Member /\ \E b \in C : z \in Lob!Range(b.seats)
    BY <1>17
  <2>1. CASE z \in {c, p}
    BY <1>12, <1>17, <2>1
  <2>2. CASE z \notin {c, p}
    BY <1>3, <1>5, <1>17, <1>22, <2>2 DEF LobGoes
  <2> QED BY <2>1, <2>2
<1>28. LobServes(w, x, Member)
  BY <1>16, <1>26, <1>27, LobServing
<1> QED BY <1>1, <1>28

\* The two of a room change their seats.
LEMMA LobKings ==
    ASSUME NEW w \in LobWorld, LobApart(w.parties), NEW r \in w.parties, NEW i \in DOMAIN r.seats \ {1}
    PROVE  LobServes(w, Lob!ChangePartyKing(w, r, i), Member)
<1>1. PICK x : x = Lob!ChangePartyKing(w, r, i)
  OBVIOUS
<1>2. r \in LobRoom /\ r.seats \in Lob!Seats /\ r.state \in Lob!State
  BY DEF LobWorld, LobRoom
<1>3. Len(r.seats) # 1 /\ i = 2
  BY <1>2, LobSeats
<1>4. PICK s, a, b : s = r.seats /\ a = s[1] /\ b = s[2]
  OBVIOUS
<1>5. /\ Len(s) = 2 /\ s = <<a, b>> /\ a \in Member /\ b \in Member /\ a # b
      /\ Lob!Range(s) = {a, b} /\ DOMAIN s = {1, 2}
  BY <1>2, <1>3, <1>4, LobSeats
<1>6. [s EXCEPT ![1] = b, ![2] = a] = <<b, a>>
  BY <1>5
<1>7. PICK n : n = Lob!Room(<<b, a>>, r.state)
  OBVIOUS
<1>8. n \in LobRoom /\ n.seats = <<b, a>> /\ Lob!Range(n.seats) = {a, b} /\ Len(n.seats) = 2
  BY <1>2, <1>5, <1>7, LobSeats DEF LobRoom, Lob!Room
<1>9. PICK y : y = Lob!Replace(w, r, n)
  OBVIOUS
<1>10. y \in LobWorld /\ y.parties = (w.parties \ {r}) \cup {n} /\ y.status = w.status /\ y.mail = w.mail
  BY <1>8, <1>9, LobReplace
<1>11. x = Lob!SendRoomInfoToAllMember(y, n)
  BY <1>3, <1>4, <1>6, <1>7, <1>1, <1>9 DEF Lob!ChangePartyKing
<1>12. /\ x \in LobWorld /\ x.parties = (w.parties \ {r}) \cup {n} /\ x.status = w.status
       /\ \A c \in Member : x.mail[c] = IF c \in {a, b} THEN Append(w.mail[c], LobInfo(<<b, a>>)) ELSE w.mail[c]
  BY <1>8, <1>10, <1>11, LobInforms
<1>13. PICK A, B : A = {r} /\ B = {n}
  OBVIOUS
<1>14. A \subseteq w.parties /\ B \subseteq LobRoom /\ LobApart(B) /\ x.parties = (w.parties \ A) \cup B
  BY <1>8, <1>12, <1>13 DEF LobApart
<1>15. \A c \in B : \A z \in Lob!Range(c.seats) : \E d \in A : z \in Lob!Range(d.seats)
  BY <1>4, <1>5, <1>8, <1>13
<1>16. \A z \in Member : (\A c \in A : z \notin Lob!Range(c.seats)) => x.mail[z] = w.mail[z] /\ x.status[z] = w.status[z]
  BY <1>4, <1>5, <1>12, <1>13
<1>17. \A c \in B : \A z \in Lob!Range(c.seats) : x.mail[z] = Append(w.mail[z], LobInfo(c.seats)) /\ LobFair(w, x, z)
  BY <1>5, <1>8, <1>12, <1>13 DEF LobFair
<1>18. LobMakes(w, x, A, B)
  BY <1>8, <1>13, <1>14, <1>15, <1>16, <1>17 DEF LobMakes
<1>19. \A c \in A : \A z \in Lob!Range(c.seats) : z \in Member <=> \E d \in B : z \in Lob!Range(d.seats)
  BY <1>4, <1>5, <1>8, <1>13
<1>20. LobServes(w, x, Member)
  BY <1>12, <1>18, <1>19, LobServing
<1> QED BY <1>1, <1>20

\* Nothing happens, or some members hear of an invitation.
LEMMA LobSends ==
    ASSUME NEW w \in LobWorld, LobApart(w.parties), NEW to, NEW x \in Lob!Message, x.kind \in {"invite", "failed"},
           x.kind = "invite" => x.from \notin to
    PROVE  LobServes(w, w, Member) /\ LobServes(w, Lob!Send(w, to, x), Member)
<1>1. PICK y : y = Lob!Send(w, to, x)
  OBVIOUS
<1>2. /\ y \in LobWorld /\ y.parties = w.parties /\ y.status = w.status
      /\ \A p \in Member : y.mail[p] = IF p \in to THEN Append(w.mail[p], x) ELSE w.mail[p]
  BY <1>1, LobSend
<1>3. ASSUME NEW z, z \in {w, y}
      PROVE  LobServes(w, z, Member)
  BY <1>2, <1>3 DEF Lob!GetRoom, Lob!HasRoom, LobKept, LobAble, LobServes, LobCalm
<1> QED BY <1>1, <1>3

\* A member is ready, or no longer: its room hears of it, and may wait for a game now.
LobAnswer(r, p, ok) == [kind |-> "match", on |-> ok, seat |-> Lob!Seat(r, p)]
LobAnswers(w, x, r, p, ok) ==
    /\ x \in LobWorld /\ LobApart(x.parties)
    /\ \A y \in Member : Lob!HasRoom(x, y) <=> Lob!HasRoom(w, y)
    /\ \A y \in Member : Lob!HasRoom(w, y) => Lob!GetRoom(x, y).seats = Lob!GetRoom(w, y).seats
    /\ \A y \in Member : y \notin Lob!Range(r.seats) => x.mail[y] = w.mail[y] /\ x.status[y] = w.status[y]
    /\ \A y \in Lob!Range(r.seats) : x.mail[y] = Append(w.mail[y], LobAnswer(r, p, ok))
    /\ LobCalm(w) =>
         /\ LobAble(x)
         /\ (x.status[p] = "READY" <=> ok) /\ x.status[p] # "GAME"
         /\ \A y \in Lob!Range(r.seats) : y # p => LobFair(w, x, y)

LEMMA LobReadies ==
    ASSUME NEW w \in LobWorld, LobApart(w.parties), NEW p \in Member, NEW r, LobSits(w.parties, r, p),
           r.state # "GAME", NEW ok \in BOOLEAN
    PROVE  LobAnswer(r, p, ok) \in Lob!Message /\ LobAnswers(w, Lob!ChangeRoomReady(w, p, ok), r, p, ok)
<1>1. /\ Lob!GetRoom(w, p) = r /\ r \in LobRoom /\ r \in w.parties /\ p \in Lob!Range(r.seats)
      /\ r.seats \in Lob!Seats /\ r.state \in Lob!State
  BY LobHome DEF LobSits
<1>2. PICK m, t, x : /\ m = LobAnswer(r, p, ok) /\ t = (IF ok THEN "READY" ELSE "LOBBY")
                     /\ x = Lob!ChangeRoomReady(w, p, ok)
  OBVIOUS
<1>3. m \in Lob!Message /\ t \in Lob!State /\ (t = "READY" <=> ok) /\ t # "GAME" /\ (t = "LOBBY" <=> ~ok)
  BY <1>1, LobSeat, <1>2 DEF LobAnswer, Lob!Message, Lob!State
<1>4. PICK u : u = [w EXCEPT !.status[p] = t]
  OBVIOUS
<1>5. /\ u \in LobWorld /\ u.parties = w.parties /\ u.mail = w.mail
      /\ \A y \in Member : u.status[y] = IF y = p THEN t ELSE w.status[y]
  BY <1>3, <1>4 DEF LobWorld
<1>6. PICK z : z = Lob!Send(u, Lob!Range(r.seats), m)
  OBVIOUS
<1>7. /\ z \in LobWorld /\ z.parties = w.parties /\ z.status = u.status
      /\ \A y \in Member : z.mail[y] = IF y \in Lob!Range(r.seats) THEN Append(w.mail[y], m) ELSE w.mail[y]
  BY <1>3, <1>5, <1>6, LobSend
<1>8. x = Lob!CheckAndRestateRoom(z, r)
  BY <1>1, <1>2, <1>4, <1>6 DEF Lob!ChangeRoomReady, LobAnswer
<1>9. PICK s : s = LobNext(z, r)
  OBVIOUS
<1>10. /\ s \in Lob!State /\ x \in LobWorld /\ x.mail = z.mail
       /\ x.parties = (w.parties \ {r}) \cup {Lob!Room(r.seats, s)}
       /\ \A y \in Member : x.status[y] = IF r.state # s /\ y \in Lob!Range(r.seats) THEN s ELSE u.status[y]
  BY <1>1, <1>7, <1>8, <1>9, LobRestate DEF LobRestated
<1>11. PICK n : n = Lob!Room(r.seats, s)
  OBVIOUS
<1>12. n \in LobRoom /\ n.seats = r.seats /\ n.state = s
  BY <1>1, <1>10, <1>11 DEF Lob!Room, LobRoom
<1>13. PICK X : X = (w.parties \ {r}) \cup {n} /\ X = x.parties
  BY <1>10, <1>11
<1>14. LobApart(X) /\ \A a, y : LobSits(X, a, y) <=> LobSits({n}, a, y) \/ (LobSits(w.parties, a, y) /\ y \notin Lob!Range(r.seats))
  <2>1. PICK P, A, B : P = w.parties /\ A = {r} /\ B = {n}
    OBVIOUS
  <2>2. P \subseteq LobRoom /\ LobApart(P) /\ A \subseteq P /\ B \subseteq LobRoom /\ LobApart(B) /\ X = (P \ A) \cup B
    BY <1>1, <1>12, <1>13, <2>1 DEF LobWorld, LobApart
  <2>3. \A b \in B : \A y \in Lob!Range(b.seats) : \E a \in A : y \in Lob!Range(a.seats)
    BY <1>12, <2>1
  <2>4. /\ LobApart((P \ A) \cup B)
        /\ \A a, y : LobSits((P \ A) \cup B, a, y) <=>
                       \/ LobSits(B, a, y)
                       \/ LobSits(P, a, y) /\ \A b \in A : y \notin Lob!Range(b.seats)
    BY <2>2, <2>3, LobSwap
  <2>5. /\ LobApart(X)
        /\ \A a, y : LobSits(X, a, y) <=>
                       \/ LobSits(B, a, y)
                       \/ LobSits(P, a, y) /\ \A b \in A : y \notin Lob!Range(b.seats)
    BY <2>2, <2>4, Zenon
  <2>6. \A y : (\A b \in A : y \notin Lob!Range(b.seats)) <=> y \notin Lob!Range(r.seats)
    BY <2>1
  <2> QED BY <2>1, <2>5, <2>6
<1>15. ASSUME NEW y \in Member
       PROVE  /\ Lob!HasRoom(x, y) <=> Lob!HasRoom(w, y)
              /\ Lob!HasRoom(w, y) => Lob!GetRoom(x, y).seats = Lob!GetRoom(w, y).seats
  <2>1. CASE y \in Lob!Range(r.seats)
    <3>1. LobSits(x.parties, n, y) /\ LobSits(w.parties, r, y)
      BY <1>1, <1>12, <1>13, <2>1 DEF LobSits
    <3>2. LobSits(X, n, y) /\ LobApart(x.parties)
      BY <1>12, <1>13, <1>14, <2>1 DEF LobSits
    <3>3. Lob!HasRoom(x, y) /\ Lob!GetRoom(x, y) = n
      BY <1>10, <3>1, <3>2, LobHome
    <3>4. Lob!HasRoom(w, y) /\ Lob!GetRoom(w, y) = r
      BY <3>1, LobHome
    <3> QED BY <1>12, <3>3, <3>4
  <2>2. CASE y \notin Lob!Range(r.seats)
    <3>1. \A a : LobSits(x.parties, a, y) <=> LobSits(w.parties, a, y)
      BY <1>12, <1>13, <1>14, <2>2 DEF LobSits
    <3>2. Lob!HasRoom(x, y) => LobSits(x.parties, Lob!GetRoom(x, y), y)
      BY <1>10, <1>13, <1>14, LobHoused
    <3>3. Lob!HasRoom(w, y) => LobSits(w.parties, Lob!GetRoom(w, y), y)
      BY LobHoused
    <3> QED BY <1>10, <1>13, <1>14, <3>1, <3>2, <3>3, LobHome
  <2> QED BY <2>1, <2>2
<1>16. s = (IF \A y \in Lob!Range(r.seats) : u.status[y] # "LOBBY" THEN "READY" ELSE "LOBBY")
  BY <1>7, <1>9 DEF LobNext
<1>17. \A y \in Lob!Range(r.seats) : y \in Member
  BY <1>1, LobSeats
<1>18. ASSUME LobCalm(w)
       PROVE  /\ (x.status[p] = "READY" <=> ok) /\ x.status[p] # "GAME"
              /\ \A y \in Lob!Range(r.seats) : y # p => LobFair(w, x, y)
  <2>1. r.state = "READY" => Lob!Range(r.seats) = {p}
    BY <1>1, <1>18, LobSeats DEF LobCalm
  <2>2. r.state \in {"LOBBY", "READY"}
    BY <1>1 DEF Lob!State
  <2>3. CASE r.state = "READY"
    BY <1>1, <1>3, <1>5, <1>16, <2>1, <2>3, <1>10
  <2>4. CASE r.state = "LOBBY" /\ s = "LOBBY"
    BY <1>10, <2>4, <1>5, <1>3, <1>17 DEF LobFair
  <2>5. CASE r.state = "LOBBY" /\ s = "READY"
    BY <1>10, <1>16, <1>17, <2>5, <1>1, <1>3, <1>5 DEF LobWorld, Lob!State, LobFair
  <2> QED BY <1>16, <2>2, <2>3, <2>4, <2>5
<1>19. ASSUME LobCalm(w), NEW a \in x.parties, a.state = "READY", Len(a.seats) = 1
       PROVE  x.status[a.seats[1]] = "READY"
  <2>1. CASE a = n
    <3>1. Lob!Range(r.seats) = {p} /\ a.seats[1] = p
      BY <1>1, <1>12, <1>19, <2>1, LobSeats
    <3>2. u.status[p] # "LOBBY"
      BY <1>12, <1>16, <1>19, <2>1, <3>1
    <3> QED BY <1>3, <1>5, <1>18, <1>19, <3>1, <3>2
  <2>2. CASE a \in w.parties /\ a # r
    <3>1. w.status[a.seats[1]] = "READY" /\ a.seats \in Lob!Seats
      BY <1>19, <2>2 DEF LobCalm, LobAble, LobWorld, LobRoom
    <3>2. a.seats[1] \in Member /\ a.seats[1] \in Lob!Range(a.seats)
      BY <1>19, <3>1, LobSeats
    <3>3. a.seats[1] \notin Lob!Range(r.seats)
      BY <1>1, <2>2, <3>2 DEF LobApart
    <3> QED BY <1>1, <1>5, <1>10, <3>1, <3>2, <3>3
  <2> QED BY <1>13, <2>1, <2>2
<1>20. \A y \in Member : y \notin Lob!Range(r.seats) => x.mail[y] = w.mail[y] /\ x.status[y] = w.status[y]
  BY <1>1, <1>5, <1>7, <1>10
<1>21. \A y \in Lob!Range(r.seats) : x.mail[y] = Append(w.mail[y], m)
  BY <1>7, <1>10, <1>17
<1>22. LobAnswers(w, x, r, p, ok)
  BY <1>2, <1>10, <1>13, <1>14, <1>15, <1>18, <1>19, <1>20, <1>21 DEF LobAnswers, LobAble
<1> QED BY <1>2, <1>3, <1>22

\* A match: its members are told of their room and that the game starts, nothing changes for others.
LobStart == [kind |-> "start"]
LobStarts(w, x, T) ==
    /\ x \in LobWorld /\ LobApart(x.parties) /\ T \subseteq Member
    /\ \A y \in Member : Lob!HasRoom(x, y) <=> Lob!HasRoom(w, y)
    /\ \A y \in T : x.mail[y] = Append(Append(w.mail[y], LobInfo(Lob!GetRoom(x, y).seats)), LobStart)
    /\ \A y \in Member : y \notin T /\ Lob!HasRoom(w, y) => LobKept(w, x, y)
    /\ LobAble(w) => LobAble(x)

LEMMA LobPair ==
    ASSUME NEW y \in Member, NEW z \in Member
    PROVE  <<y>> \o <<z>> = <<y, z>>
<1>1. PICK a, b : a = <<y>> /\ b = <<z>>
  OBVIOUS
<1>2. a \in Seq(Member) /\ b \in Seq(Member) /\ Len(a) = 1 /\ Len(b) = 1 /\ a[1] = y /\ b[1] = z
  BY <1>1
<1>3. /\ a \o b \in Seq(Member) /\ Len(a \o b) = Len(a) + Len(b)
      /\ \A i \in 1 .. Len(a) + Len(b) : (a \o b)[i] = IF i <= Len(a) THEN a[i] ELSE b[i - Len(a)]
  BY <1>2, ConcatProperties
<1>4. PICK u : u = a \o b
  OBVIOUS
<1>5. /\ u \in Seq(Member) /\ Len(u) = Len(a) + Len(b)
      /\ \A i \in 1 .. Len(a) + Len(b) : u[i] = IF i <= Len(a) THEN a[i] ELSE b[i - Len(a)]
  BY <1>3, <1>4, Zenon
<1>6. Len(u) = 2 /\ u[1] = a[1] /\ u[2] = b[1]
  BY <1>2, <1>5
<1>7. u = <<y, z>>
  BY <1>2, <1>5, <1>6
<1> QED BY <1>1, <1>4, <1>7

LEMMA LobSum ==
    ASSUME NEW w \in LobWorld, LobApart(w.parties), NEW a \in w.parties, NEW b \in w.parties,
           IF a = b THEN Len(a.seats) = 2 ELSE Len(a.seats) + Len(b.seats) = 2,
           NEW s, s = IF a = b THEN a.seats ELSE a.seats \o b.seats
    PROVE  s \in Lob!Seats /\ Lob!Range(s) = Lob!Range(a.seats) \cup Lob!Range(b.seats) /\ Len(s) = 2
<1>1. a.seats \in Lob!Seats /\ b.seats \in Lob!Seats
  BY DEF LobWorld, LobRoom
<1>2. CASE a = b
  BY <1>1, <1>2
<1>3. CASE a # b
  <2>1. Len(a.seats) \in {1, 2} /\ Len(b.seats) \in {1, 2}
    BY <1>1, LobSeats
  <2>2. Len(a.seats) = 1 /\ Len(b.seats) = 1
    <3>1. \A i, j \in {1, 2} : i + j = 2 => i = 1 /\ j = 1
      OBVIOUS
    <3>2. Len(a.seats) + Len(b.seats) = 2
      BY <1>3
    <3> QED BY <2>1, <3>1, <3>2
  <2>3. PICK y, z : y = a.seats[1] /\ z = b.seats[1]
    OBVIOUS
  <2>4. y \in Member /\ z \in Member /\ a.seats = <<y>> /\ b.seats = <<z>>
    BY <1>1, <2>2, <2>3, LobSeats
  <2>5. Lob!Range(a.seats) = {y} /\ Lob!Range(b.seats) = {z}
    BY <1>1, <2>2, <2>3, LobSeats
  <2>6. y # z
    BY <1>3, <2>5 DEF LobApart
  <2>7. <<y>> \o <<z>> = <<y, z>>
    BY <2>4, LobPair
  <2>8. s = <<y, z>>
    BY <1>3, <2>4, <2>7
  <2> QED BY <2>4, <2>5, <2>6, <2>8, LobSeats
<1> QED BY <1>2, <1>3

LobUpdated(w, a, b, s) ==
    Lob!Send(Lob!SendRoomInfoToAllMember(
        Lob!ChangeRoomState([w EXCEPT !.parties = (@ \ {a, b}) \cup {Lob!Room(s, "READY")}], Lob!Room(s, "READY"), "GAME"),
        Lob!Room(s, "READY")), Lob!Range(s), LobStart)

LEMMA LobUpdates ==
    ASSUME NEW w \in LobWorld, LobApart(w.parties), NEW a \in w.parties, NEW b \in w.parties,
           a.state = "READY", b.state = "READY", IF a = b THEN Len(a.seats) = 2 ELSE Len(a.seats) + Len(b.seats) = 2,
           NEW s, s = IF a = b THEN a.seats ELSE a.seats \o b.seats
    PROVE  LobStarts(w, LobUpdated(w, a, b, s), Lob!Range(s))
<1>1. s \in Lob!Seats /\ Lob!Range(s) = Lob!Range(a.seats) \cup Lob!Range(b.seats) /\ Len(s) = 2
  BY ZenonT(60), LobSum
<1>2. PICK all, n, T : all = Lob!Room(s, "READY") /\ n = Lob!Room(s, "GAME") /\ T = Lob!Range(s)
  OBVIOUS
<1>3. /\ all \in LobRoom /\ all.seats = s /\ all.state = "READY" /\ n \in LobRoom /\ n.seats = s /\ n.state = "GAME"
      /\ n = Lob!Room(all.seats, "GAME")
  BY <1>1, <1>2 DEF Lob!Room, LobRoom, Lob!State
<1>4. T \subseteq Member /\ \A y \in Member : y \in T <=> \E r \in {a, b} : y \in Lob!Range(r.seats)
  BY <1>1, <1>2, LobSeats
<1>5. PICK u : u = [w EXCEPT !.parties = (@ \ {a, b}) \cup {all}]
  OBVIOUS
<1>6. u \in LobWorld /\ u.parties = (w.parties \ {a, b}) \cup {all} /\ u.status = w.status /\ u.mail = w.mail
  BY <1>3, <1>5 DEF LobWorld
<1>7. PICK v : v = Lob!ChangeRoomState(u, all, "GAME")
  OBVIOUS
<1>8. /\ v \in LobWorld /\ v.parties = (u.parties \ {all}) \cup {n} /\ v.mail = w.mail
      /\ \A y \in Member : v.status[y] = IF y \in T THEN "GAME" ELSE w.status[y]
  BY <1>3, <1>6, <1>7, LobChange, <1>2 DEF Lob!State
<1>9. PICK y0 : y0 = Lob!SendRoomInfoToAllMember(v, all)
  OBVIOUS
<1>10. /\ y0 \in LobWorld /\ y0.parties = v.parties /\ y0.status = v.status
       /\ \A y \in Member : y0.mail[y] = IF y \in T THEN Append(w.mail[y], LobInfo(s)) ELSE w.mail[y]
  BY <1>2, <1>3, <1>8, <1>9, LobInforms
<1>11. PICK x : x = Lob!Send(y0, T, LobStart)
  OBVIOUS
<1>12. /\ x \in LobWorld /\ x.parties = v.parties /\ x.status = v.status
       /\ \A y \in Member : x.mail[y] = IF y \in T THEN Append(y0.mail[y], LobStart) ELSE y0.mail[y]
  BY <1>10, <1>11, LobSend DEF LobStart, Lob!Message
<1>13. x = LobUpdated(w, a, b, s)
  BY <1>2, <1>5, <1>7, <1>9, <1>11 DEF LobUpdated
<1>14. x.parties = (w.parties \ {a, b}) \cup {n}
  <2>1. all \in w.parties => all \in {a, b}
    <3>1. s[1] \in T /\ s[1] \in Lob!Range(all.seats)
      <4>1. 1 \in DOMAIN s
        BY <1>1, LobSeats
      <4> QED BY <1>2, <1>3, <4>1 DEF Lob!Range
    <3> QED BY <1>1, <1>2, <3>1 DEF LobApart
  <2> QED BY <1>6, <1>8, <1>12, <2>1
<1>15. PICK P, A, B : P = w.parties /\ A = {a, b} /\ B = {n}
  OBVIOUS
<1>16. /\ LobApart(x.parties)
       /\ \A r, y : LobSits(x.parties, r, y) <=> LobSits({n}, r, y) \/ (LobSits(w.parties, r, y) /\ y \notin T)
  <2>1. P \subseteq LobRoom /\ LobApart(P) /\ A \subseteq P /\ B \subseteq LobRoom /\ LobApart(B) /\ x.parties = (P \ A) \cup B
    BY <1>3, <1>14, <1>15 DEF LobWorld, LobApart
  <2>2. \A c \in B : \A y \in Lob!Range(c.seats) : \E r \in A : y \in Lob!Range(r.seats)
    BY <1>2, <1>3, <1>4, <1>15
  <2>3. /\ LobApart((P \ A) \cup B)
        /\ \A r, y : LobSits((P \ A) \cup B, r, y) <=>
                       \/ LobSits(B, r, y)
                       \/ LobSits(P, r, y) /\ \A c \in A : y \notin Lob!Range(c.seats)
    BY <2>1, <2>2, LobSwap
  <2>4. /\ LobApart(x.parties)
        /\ \A r, y : LobSits(x.parties, r, y) <=>
                       \/ LobSits(B, r, y)
                       \/ LobSits(P, r, y) /\ \A c \in A : y \notin Lob!Range(c.seats)
    BY <2>1, <2>3, Zenon
  <2>5. \A r, y : LobSits(P, r, y) => y \in Member
    BY <2>1, LobSeats DEF LobSits, LobRoom
  <2>6. \A y \in Member : (\A c \in A : y \notin Lob!Range(c.seats)) <=> y \notin T
    BY <1>4, <1>15
  <2> QED BY <1>15, <2>4, <2>5, <2>6
<1>17. ASSUME NEW y \in T
       PROVE  /\ Lob!HasRoom(x, y) /\ Lob!HasRoom(w, y)
              /\ x.mail[y] = Append(Append(w.mail[y], LobInfo(Lob!GetRoom(x, y).seats)), LobStart)
  <2>1. LobSits(x.parties, n, y)
    BY <1>2, <1>3, <1>14 DEF LobSits
  <2>2. Lob!HasRoom(x, y) /\ Lob!GetRoom(x, y) = n
    BY <1>12, <1>16, <2>1, LobHome
  <2>3. Lob!HasRoom(w, y)
    BY <1>4 DEF Lob!HasRoom
  <2> QED BY <1>3, <1>4, <1>10, <1>12, <2>2, <2>3
<1>18. ASSUME NEW y \in Member, y \notin T
       PROVE  /\ Lob!HasRoom(x, y) <=> Lob!HasRoom(w, y)
              /\ Lob!HasRoom(w, y) => LobKept(w, x, y)
  <2>1. \A r : LobSits(x.parties, r, y) <=> LobSits(w.parties, r, y)
    BY <1>2, <1>3, <1>16, <1>18 DEF LobSits
  <2>2. Lob!HasRoom(x, y) => LobSits(x.parties, Lob!GetRoom(x, y), y)
    BY <1>12, <1>16, LobHoused
  <2>3. ASSUME Lob!HasRoom(w, y)
        PROVE  Lob!HasRoom(x, y) /\ LobKept(w, x, y)
    <3>1. PICK r : r = Lob!GetRoom(w, y)
      OBVIOUS
    <3>2. LobSits(w.parties, r, y)
      BY <2>3, <3>1, LobHoused
    <3>3. Lob!HasRoom(x, y) /\ Lob!GetRoom(x, y) = r
      BY <1>12, <1>16, <2>1, <3>2, LobHome
    <3>4. \A z \in Lob!Range(r.seats) : z \in Member /\ z \notin T
      BY <1>14, <2>1, <3>2, <1>2, <1>3, <1>18, <1>16, LobSeats DEF LobSits, LobWorld, LobApart, LobRoom
    <3>5. \A z \in Lob!Range(r.seats) : x.status[z] = w.status[z]
      BY <1>8, <1>12, <3>4
    <3>6. x.mail[y] = w.mail[y]
      BY <1>10, <1>12, <1>18
    <3> QED BY <3>1, <3>3, <3>5, <3>6 DEF LobKept
  <2> QED BY <2>1, <2>2, <2>3 DEF Lob!HasRoom, LobSits
<1>19. ASSUME LobAble(w), NEW r \in x.parties, r.state = "READY", Len(r.seats) = 1
       PROVE  x.status[r.seats[1]] = "READY"
  <2>1. r # n
    BY <1>3, <1>19
  <2>2. r \in w.parties /\ r.seats \in Lob!Seats
    BY <1>14, <2>1 DEF LobWorld, LobRoom
  <2>3. w.status[r.seats[1]] = "READY"
    BY <1>19, <2>2 DEF LobAble
  <2>4. r.seats[1] \in Member /\ r.seats[1] \in Lob!Range(r.seats)
    BY <1>19, <2>2, LobSeats
  <2>5. r.seats[1] \notin T
    BY <1>2, <1>3, <1>14, <1>16, <2>1, <2>4 DEF LobApart
  <2> QED BY <1>8, <1>12, <2>3, <2>4, <2>5
<1>20. LobStarts(w, x, T)
  BY <1>4, <1>12, <1>16, <1>17, <1>18, <1>19 DEF LobStarts, LobAble
<1> QED BY <1>2, <1>13, <1>20

(***************************************************************************)
(* What the lobby is, with the screens s of the members; b: no Batch.      *)
(***************************************************************************)
LobScreen == [level : {"lobby", "leaving", "game", "off"}, seats : Lob!Seats, ready : SUBSET {1, 2},
              button : BOOLEAN, invitation : Member \cup {NoOne}]
LobShown(c) == [seats |-> c.seats, ready |-> c.ready, button |-> c.button]
LobSees(w, c, p) == Lob!Ends(w.mail[p], c.seats, Lob!GetRoom(w, p).seats)
LobHears(w, p) == \A i \in DOMAIN w.mail[p] : w.mail[p][i].kind = "invite" => w.mail[p][i].from # p
LobStarted(w, c, p) == c.level \in {"leaving", "game"} \/ \E i \in DOMAIN w.mail[p] : w.mail[p][i].kind = "start"
LobRight(w, c, p) ==
    ~LobStarted(w, c, p) =>
        w.status[p] # "GAME" /\ \E v \in Lob!View : Lob!Leads(p, LobShown(c), w.mail[p], v) /\ Lob!Fits(w, p, v)

LobGood(w, s, b) ==
    /\ w \in LobWorld /\ LobApart(w.parties) /\ s \in [Member -> LobScreen]
    /\ \A p \in Member : Lob!HasRoom(w, p) <=> s[p].level # "off"
    /\ \A p \in Member : Lob!HasRoom(w, p) => LobSees(w, s[p], p) /\ LobHears(w, p)
    /\ b => LobAble(w) /\ \A p \in Member : Lob!HasRoom(w, p) => LobRight(w, s[p], p)

\* A message more under way.
LEMMA LobAppended ==
    ASSUME NEW q \in Seq(Lob!Message), NEW x \in Lob!Message, NEW p
    PROVE  /\ (\E i \in DOMAIN q : q[i].kind = "start") => \E i \in DOMAIN Append(q, x) : Append(q, x)[i].kind = "start"
           /\ x.kind = "start" => \E i \in DOMAIN Append(q, x) : Append(q, x)[i].kind = "start"
           /\ (\A i \in DOMAIN q : q[i].kind = "invite" => q[i].from # p) /\ (x.kind = "invite" => x.from # p) =>
                  \A i \in DOMAIN Append(q, x) : Append(q, x)[i].kind = "invite" => Append(q, x)[i].from # p
<1>1. PICK u, k : u = Append(q, x) /\ k = Len(q)
  OBVIOUS
<1>2. k \in Nat /\ DOMAIN q = 1 .. k /\ DOMAIN u = 1 .. k + 1 /\ u[k + 1] = x /\ \A i \in 1 .. k : u[i] = q[i]
  BY <1>1
<1>3. k + 1 \in 1 .. k + 1 /\ \A i \in 1 .. k + 1 : i \in 1 .. k \/ i = k + 1
  BY <1>2
<1>4. \A i \in 1 .. k : i \in 1 .. k + 1
  BY <1>2
<1>5. /\ (\E i \in DOMAIN q : q[i].kind = "start") => \E i \in DOMAIN u : u[i].kind = "start"
      /\ x.kind = "start" => \E i \in DOMAIN u : u[i].kind = "start"
  BY <1>2, <1>3, <1>4, Zenon
<1>6. (\A i \in DOMAIN q : q[i].kind = "invite" => q[i].from # p) /\ (x.kind = "invite" => x.from # p) =>
          \A i \in DOMAIN u : u[i].kind = "invite" => u[i].from # p
  BY <1>2, <1>3
<1> QED BY <1>1, <1>5, <1>6, Zenon

\* One message more for a member whose room is x's: it will show what Handled makes of it.
LEMMA LobMore ==
    ASSUME NEW w \in LobWorld, NEW x \in LobWorld, NEW p \in Member, NEW c, NEW m \in Lob!Message,
           x.mail[p] = Append(w.mail[p], m), LobHears(w, p), m.kind = "invite" => m.from # p
    PROVE  /\ LobHears(x, p)
           /\ m.kind = "info" /\ m.seats = Lob!GetRoom(x, p).seats => LobSees(x, c, p)
           /\ m.kind # "info" /\ Lob!GetRoom(x, p).seats = Lob!GetRoom(w, p).seats /\ LobSees(w, c, p) => LobSees(x, c, p)
           /\ LobStarted(w, c, p) => LobStarted(x, c, p)
           /\ m.kind = "start" => LobStarted(x, c, p)
           /\ \A v \in Lob!View :
                Lob!Leads(p, LobShown(c), w.mail[p], v) =>
                    Lob!Handled(p, v, m) \in Lob!View /\ Lob!Leads(p, LobShown(c), x.mail[p], Lob!Handled(p, v, m))
<1>1. PICK q, u : q = w.mail[p] /\ u = x.mail[p]
  OBVIOUS
<1>2. q \in Seq(Lob!Message) /\ u = Append(q, m)
  BY <1>1 DEF LobWorld
<1>3. LobHears(x, p)
  BY <1>1, <1>2, LobAppended DEF LobHears
<1>4. m.kind = "info" /\ m.seats = Lob!GetRoom(x, p).seats => LobSees(x, c, p)
  BY <1>1, <1>2, LobEndsMore DEF LobSees
<1>5. m.kind # "info" /\ Lob!GetRoom(x, p).seats = Lob!GetRoom(w, p).seats /\ LobSees(w, c, p) => LobSees(x, c, p)
  BY <1>1, <1>2, LobEndsMore DEF LobSees
<1>6. /\ LobStarted(w, c, p) => LobStarted(x, c, p)
      /\ m.kind = "start" => LobStarted(x, c, p)
  <2>1. /\ (\E i \in DOMAIN q : q[i].kind = "start") => \E i \in DOMAIN u : u[i].kind = "start"
        /\ m.kind = "start" => \E i \in DOMAIN u : u[i].kind = "start"
    BY <1>2, LobAppended
  <2> QED BY <1>1, <2>1, Zenon DEF LobStarted
<1>7. ASSUME NEW v \in Lob!View, Lob!Leads(p, LobShown(c), q, v)
      PROVE  Lob!Handled(p, v, m) \in Lob!View /\ Lob!Leads(p, LobShown(c), u, Lob!Handled(p, v, m))
  <2>1. Lob!Handled(p, v, m) \in Lob!View
    BY LobHandled
  <2>2. PICK f : f = LobShown(c)
    OBVIOUS
  <2>3. Lob!Leads(p, f, Append(q, m), Lob!Handled(p, v, m))
    BY <1>2, <1>7, <2>1, <2>2, LobLeadsMore
  <2> QED BY <1>2, <2>1, <2>2, <2>3
<1> QED BY <1>1, <1>3, <1>4, <1>5, <1>6, <1>7

\* A member and its room, after what the server does.
LEMMA LobStill ==
    ASSUME NEW w \in LobWorld, NEW x \in LobWorld, NEW p \in Member, LobApart(w.parties), Lob!HasRoom(w, p), NEW c,
           LobSees(w, c, p), LobHears(w, p), LobKept(w, x, p)
    PROVE  LobSees(x, c, p) /\ LobHears(x, p) /\ (LobRight(w, c, p) => LobRight(x, c, p))
<1>1. PICK r : r = Lob!GetRoom(w, p)
  OBVIOUS
<1>2. r \in LobRoom /\ p \in Lob!Range(r.seats)
  BY <1>1, LobHoused, LobHome DEF LobSits
<1>3. Lob!GetRoom(x, p).seats = r.seats /\ \A y \in Lob!Range(r.seats) : x.status[y] = w.status[y]
  BY <1>1 DEF LobKept
<1>4. ASSUME NEW v \in Lob!View, Lob!Fits(w, p, v)
      PROVE  Lob!Fits(x, p, v)
  BY <1>1, <1>4, <1>2, <1>3 DEF Lob!Fits, Lob!Range
<1>5. x.status[p] = w.status[p]
  BY <1>2, <1>3
<1>6. CASE x.mail[p] = w.mail[p]
  <2>1. LobSees(x, c, p) /\ LobHears(x, p)
    BY <1>1, <1>3, <1>6 DEF LobSees, LobHears
  <2>2. LobStarted(w, c, p) => LobStarted(x, c, p)
    BY <1>6 DEF LobStarted
  <2>3. ASSUME LobRight(w, c, p), ~LobStarted(x, c, p)
        PROVE  x.status[p] # "GAME" /\ \E v \in Lob!View : Lob!Leads(p, LobShown(c), x.mail[p], v) /\ Lob!Fits(x, p, v)
    BY <1>4, <1>5, <1>6, <2>2, <2>3 DEF LobRight
  <2> QED BY <2>1, <2>3 DEF LobRight
<1>7. ASSUME NEW m \in Lob!Message, m.kind \in {"invite", "failed"}, m.kind = "invite" => m.from # p,
             x.mail[p] = Append(w.mail[p], m)
      PROVE  LobSees(x, c, p) /\ LobHears(x, p) /\ (LobRight(w, c, p) => LobRight(x, c, p))
  <2>1. LobSees(x, c, p) /\ LobHears(x, p)
    BY <1>1, <1>3, <1>7, LobMore
  <2>2. LobStarted(w, c, p) => LobStarted(x, c, p)
    BY <1>7, LobMore
  <2>3. ASSUME LobRight(w, c, p), ~LobStarted(x, c, p)
        PROVE  x.status[p] # "GAME" /\ \E v \in Lob!View : Lob!Leads(p, LobShown(c), x.mail[p], v) /\ Lob!Fits(x, p, v)
    <3>1. PICK v \in Lob!View : Lob!Leads(p, LobShown(c), w.mail[p], v) /\ Lob!Fits(w, p, v) /\ w.status[p] # "GAME"
      BY <2>2, <2>3 DEF LobRight
    <3>2. Lob!Handled(p, v, m) = v
      BY <1>7 DEF Lob!Handled
    <3>3. Lob!Leads(p, LobShown(c), x.mail[p], v)
      BY ZenonT(60), <1>7, <3>1, <3>2, LobMore
    <3> QED BY <1>4, <1>5, <3>1, <3>3
  <2> QED BY <2>1, <2>3 DEF LobRight
<1> QED BY <1>6, <1>7 DEF LobKept

LEMMA LobTells ==
    ASSUME NEW w \in LobWorld, NEW x \in LobWorld, NEW p \in Member, LobApart(x.parties), Lob!HasRoom(x, p), NEW c,
           LobHears(w, p), LobInformed(w, x, p)
    PROVE  LobSees(x, c, p) /\ LobHears(x, p) /\ (LobCalm(w) /\ LobRight(w, c, p) => LobRight(x, c, p))
<1>1. PICK r, m : r = Lob!GetRoom(x, p) /\ m = LobInfo(r.seats)
  OBVIOUS
<1>2. r.seats \in Lob!Seats
  BY <1>1, LobHoused, LobHome
<1>3. m \in Lob!Message /\ m.kind = "info" /\ m.seats = r.seats /\ x.mail[p] = Append(w.mail[p], m)
  BY <1>1, <1>2 DEF LobInfo, Lob!Message, LobInformed
<1>4. LobSees(x, c, p) /\ LobHears(x, p) /\ (LobStarted(w, c, p) => LobStarted(x, c, p))
  BY <1>1, <1>3, LobMore
<1>5. ASSUME LobCalm(w), LobRight(w, c, p), ~LobStarted(x, c, p)
      PROVE  x.status[p] # "GAME" /\ \E v \in Lob!View : Lob!Leads(p, LobShown(c), x.mail[p], v) /\ Lob!Fits(x, p, v)
  <2>1. PICK v \in Lob!View : Lob!Leads(p, LobShown(c), w.mail[p], v) /\ Lob!Fits(w, p, v) /\ w.status[p] # "GAME"
    BY <1>4, <1>5 DEF LobRight
  <2>2. PICK u : u = Lob!Handled(p, v, m)
    OBVIOUS
  <2>3. u \in Lob!View /\ Lob!Leads(p, LobShown(c), x.mail[p], u)
    BY <1>3, <2>1, <2>2, LobMore
  <2>4. u.seats = r.seats /\ u.ready = {} /\ u.button = v.button
    BY <1>3, <2>2 DEF Lob!Handled, Lob!View
  <2>5. v.button = (w.status[p] = "READY")
    BY <2>1 DEF Lob!Fits
  <2>6. (x.status[p] = "READY" <=> w.status[p] = "READY") /\ x.status[p] # "GAME"
    BY <1>5, <2>1 DEF LobInformed, LobFair
  <2>7. u.button = (x.status[p] = "READY")
    BY <2>4, <2>5, <2>6
  <2>8. Lob!Fits(x, p, u)
    BY <1>1, <2>4, <2>7 DEF Lob!Fits
  <2> QED BY <2>3, <2>6, <2>8
<1> QED BY <1>4, <1>5 DEF LobRight

\* A request that is handled.
LEMMA LobServed ==
    ASSUME NEW w, NEW s, NEW b, LobGood(w, s, b), b => LobCalm(w), NEW x, NEW S, LobServes(w, x, S),
           NEW t \in [Member -> LobScreen], \A p \in Member : IF p \in S THEN t[p] = s[p] ELSE t[p].level = "off"
    PROVE  LobGood(x, t, b)
<1>1. w \in LobWorld /\ LobApart(w.parties) /\ x \in LobWorld /\ LobApart(x.parties)
  BY DEF LobGood, LobServes
<1>2. \A p \in Member : Lob!HasRoom(x, p) <=> t[p].level # "off"
  BY DEF LobGood, LobServes
<1>3. ASSUME NEW p \in Member, Lob!HasRoom(x, p)
      PROVE  /\ LobSees(x, t[p], p) /\ LobHears(x, p)
             /\ b => LobRight(x, t[p], p)
  <2>1. Lob!HasRoom(w, p) /\ t[p] = s[p]
    BY <1>3 DEF LobServes
  <2>2. LobSees(w, t[p], p) /\ LobHears(w, p) /\ (b => LobCalm(w) /\ LobRight(w, t[p], p))
    BY <2>1 DEF LobGood
  <2>3. LobKept(w, x, p) \/ LobInformed(w, x, p)
    BY <1>3 DEF LobServes
  <2>4. PICK c : c = t[p]
    OBVIOUS
  <2>5. CASE LobKept(w, x, p)
    BY <1>1, <2>1, <2>2, <2>4, <2>5, LobStill
  <2>6. CASE LobInformed(w, x, p)
    BY <1>1, <1>3, <2>2, <2>4, <2>6, LobTells
  <2> QED BY <2>3, <2>5, <2>6
<1>4. b => LobAble(x)
  BY DEF LobServes
<1> QED BY <1>1, <1>2, <1>3, <1>4 DEF LobGood

\* A member is ready or no longer.
LEMMA LobTold ==
    ASSUME NEW w \in LobWorld, NEW x \in LobWorld, NEW p \in Member, NEW r, LobSits(w.parties, r, p), LobApart(w.parties),
           NEW ok \in BOOLEAN, LobAnswer(r, p, ok) \in Lob!Message, LobAnswers(w, x, r, p, ok),
           NEW y \in Lob!Range(r.seats), NEW c, LobSees(w, c, y), LobHears(w, y)
    PROVE  LobSees(x, c, y) /\ LobHears(x, y) /\ (LobCalm(w) /\ LobRight(w, c, y) => LobRight(x, c, y))
<1>1. r \in LobRoom /\ r.seats \in Lob!Seats /\ p \in Lob!Range(r.seats) /\ LobSits(w.parties, r, y)
  BY LobHome DEF LobSits
<1>2. y \in Member /\ Lob!HasRoom(w, y) /\ Lob!GetRoom(w, y) = r
  BY <1>1, LobSeats, LobHome
<1>3. Lob!GetRoom(x, y).seats = r.seats
  BY <1>2 DEF LobAnswers
<1>4. PICK m : m = LobAnswer(r, p, ok)
  OBVIOUS
<1>5. /\ m \in Lob!Message /\ m.kind = "match" /\ m.on = ok /\ m.seat = Lob!Seat(r, p) /\ m.kind # "info" /\ m.kind # "invite"
      /\ x.mail[y] = Append(w.mail[y], m)
  BY <1>4 DEF LobAnswer, LobAnswers
<1>6. LobSees(x, c, y) /\ LobHears(x, y) /\ (LobStarted(w, c, y) => LobStarted(x, c, y))
  BY <1>2, <1>3, <1>5, LobMore
<1>7. ASSUME LobCalm(w), LobRight(w, c, y), ~LobStarted(x, c, y)
      PROVE  x.status[y] # "GAME" /\ \E v \in Lob!View : Lob!Leads(y, LobShown(c), x.mail[y], v) /\ Lob!Fits(x, y, v)
  <2>1. PICK v \in Lob!View : Lob!Leads(y, LobShown(c), w.mail[y], v) /\ Lob!Fits(w, y, v) /\ w.status[y] # "GAME"
    BY <1>6, <1>7 DEF LobRight
  <2>2. PICK u, i : u = Lob!Handled(y, v, m) /\ i = Lob!Seat(r, p)
    OBVIOUS
  <2>3. u \in Lob!View /\ Lob!Leads(y, LobShown(c), x.mail[y], u)
    BY <1>2, <1>5, <2>1, <2>2, LobMore
  <2>4. /\ u.seats = v.seats
        /\ u.button = (IF i \in DOMAIN v.seats /\ v.seats[i] = y THEN ok ELSE v.button)
        /\ u.ready = (IF ok THEN v.ready \cup {i} ELSE v.ready \ {i})
    BY <1>5, <2>2 DEF Lob!Handled, Lob!View
  <2>5. /\ v.seats = r.seats /\ (v.button = (w.status[y] = "READY"))
        /\ \A j \in v.ready : j \in DOMAIN v.seats /\ w.status[v.seats[j]] = "READY"
    BY <1>2, <2>1 DEF Lob!Fits
  <2>6. /\ i \in DOMAIN r.seats /\ r.seats[i] = p /\ \A j \in DOMAIN r.seats : r.seats[j] = p => j = i
        /\ \A j \in DOMAIN r.seats : r.seats[j] \in Lob!Range(r.seats)
    BY <1>1, <2>2, LobSeat DEF Lob!Range
  <2>7. /\ (x.status[p] = "READY" <=> ok) /\ x.status[p] # "GAME"
        /\ \A z \in Lob!Range(r.seats) : z # p /\ w.status[z] # "GAME" =>
               (x.status[z] = "READY" <=> w.status[z] = "READY") /\ x.status[z] # "GAME"
    BY <1>7 DEF LobAnswers, LobFair
  <2>8. u.button = (x.status[y] = "READY") /\ x.status[y] # "GAME"
    BY <2>4, <2>5, <2>6, <2>7, <2>1
  <2>9. ASSUME NEW j \in u.ready
        PROVE  j \in DOMAIN u.seats /\ x.status[u.seats[j]] = "READY"
    BY <2>4, <2>5, <2>6, <2>7
  <2>10. Lob!Fits(x, y, u)
    BY <1>3, <2>4, <2>5, <2>8, <2>9 DEF Lob!Fits
  <2> QED BY <2>3, <2>8, <2>10
<1> QED BY <1>6, <1>7 DEF LobRight

LEMMA LobAnswered ==
    ASSUME NEW w, NEW s, NEW b, LobGood(w, s, b), b => LobCalm(w), NEW p \in Member, NEW r, LobSits(w.parties, r, p),
           r.state # "GAME", NEW ok \in BOOLEAN
    PROVE  LobGood(Lob!ChangeRoomReady(w, p, ok), s, b)
<1>1. PICK x : x = Lob!ChangeRoomReady(w, p, ok)
  OBVIOUS
<1>2. w \in LobWorld /\ LobApart(w.parties)
  BY DEF LobGood
<1>3. LobAnswer(r, p, ok) \in Lob!Message /\ LobAnswers(w, x, r, p, ok)
  BY <1>1, <1>2, LobReadies
<1>4. x \in LobWorld /\ LobApart(x.parties) /\ (b => LobAble(x))
  BY <1>3 DEF LobAnswers
<1>5. \A y \in Member : Lob!HasRoom(x, y) <=> s[y].level # "off"
  BY <1>3 DEF LobAnswers, LobGood
<1>6. ASSUME NEW y \in Member, Lob!HasRoom(x, y)
      PROVE  LobSees(x, s[y], y) /\ LobHears(x, y) /\ (b => LobRight(x, s[y], y))
  <2>1. Lob!HasRoom(w, y)
    BY <1>3, <1>6 DEF LobAnswers
  <2>2. PICK c : c = s[y]
    OBVIOUS
  <2>3. LobSees(w, c, y) /\ LobHears(w, y) /\ (b => LobCalm(w) /\ LobRight(w, c, y))
    BY <2>1, <2>2 DEF LobGood
  <2>4. CASE y \in Lob!Range(r.seats)
    BY <1>2, <1>3, <1>4, <2>2, <2>3, <2>4, LobTold
  <2>5. CASE y \notin Lob!Range(r.seats)
    <3>1. PICK d : d = Lob!GetRoom(w, y) /\ LobSits(w.parties, d, y)
      BY <1>2, <2>1, LobHoused
    <3>2. \A z \in Lob!Range(d.seats) : z \in Member /\ z \notin Lob!Range(r.seats)
      BY <1>2, <2>5, <3>1, LobHome, LobSeats DEF LobSits, LobApart
    <3>3. \A z \in Lob!Range(d.seats) : x.status[z] = w.status[z]
      BY <1>3, <3>2 DEF LobAnswers
    <3>4. LobKept(w, x, y)
      BY <1>3, <2>1, <2>5, <3>1, <3>3 DEF LobKept, LobAnswers
    <3> QED BY <1>2, <1>4, <2>1, <2>2, <2>3, <3>4, LobStill
  <2> QED BY <2>4, <2>5
<1>7. s \in [Member -> LobScreen]
  BY DEF LobGood
<1>8. LobGood(x, s, b)
  BY <1>4, <1>5, <1>6, <1>7 DEF LobGood
<1> QED BY <1>1, <1>8

\* A game that starts.
LEMMA LobBegins ==
    ASSUME NEW w, NEW s, NEW b, LobGood(w, s, b), NEW x, NEW T, LobStarts(w, x, T)
    PROVE  LobGood(x, s, b)
<1>1. w \in LobWorld /\ LobApart(w.parties) /\ x \in LobWorld /\ LobApart(x.parties) /\ s \in [Member -> LobScreen]
  BY DEF LobGood, LobStarts
<1>2. (b => LobAble(x)) /\ \A y \in Member : Lob!HasRoom(x, y) <=> s[y].level # "off"
  BY DEF LobStarts, LobGood
<1>3. ASSUME NEW y \in Member, Lob!HasRoom(x, y)
      PROVE  LobSees(x, s[y], y) /\ LobHears(x, y) /\ (b => LobRight(x, s[y], y))
  <2>1. Lob!HasRoom(w, y)
    BY <1>3 DEF LobStarts
  <2>2. PICK c : c = s[y]
    OBVIOUS
  <2>3. LobSees(w, c, y) /\ LobHears(w, y) /\ (b => LobRight(w, c, y))
    BY <2>1, <2>2 DEF LobGood
  <2>4. CASE y \in T
    <3>1. PICK r, m, q : r = Lob!GetRoom(x, y) /\ m = LobInfo(r.seats) /\ q = Append(w.mail[y], m)
      OBVIOUS
    <3>2. r.seats \in Lob!Seats
      BY <1>1, <1>3, <3>1, LobHoused, LobHome
    <3>3. m \in Lob!Message /\ m.kind = "info" /\ m.seats = r.seats
      BY <3>1, <3>2 DEF LobInfo, Lob!Message
    <3>4. LobStart \in Lob!Message /\ LobStart.kind = "start"
      BY DEF LobStart, Lob!Message
    <3>5. x.mail[y] = Append(q, LobStart)
      BY <2>4, <3>1 DEF LobStarts
    <3>6. PICK o : o = [w EXCEPT !.mail[y] = q]
      OBVIOUS
    <3>7. o \in LobWorld /\ o.mail[y] = q
      <4>1. q \in Seq(Lob!Message)
        BY <1>1, <3>1, <3>3 DEF LobWorld
      <4> QED BY <1>1, <3>6, <4>1 DEF LobWorld
    <3>8. LobHears(o, y)
      BY <1>1, <2>3, <3>1, <3>3, <3>7, LobMore
    <3>9. LobHears(x, y) /\ LobStarted(x, c, y)
      BY <1>1, <3>4, <3>5, <3>7, <3>8, LobMore
    <3>10. LobSees(x, c, y)
      <4>1. w.mail[y] \in Seq(Lob!Message) /\ q \in Seq(Lob!Message)
        BY <1>1, <3>7 DEF LobWorld
      <4>2. Lob!Ends(q, c.seats, m.seats)
        BY <3>1, <3>3, <4>1, LobEndsMore
      <4>3. Lob!Ends(Append(q, LobStart), c.seats, m.seats)
        BY <3>4, <4>1, <4>2, LobEndsMore
      <4> QED BY <3>1, <3>3, <3>5, <4>3 DEF LobSees
    <3> QED BY <2>2, <3>9, <3>10 DEF LobRight
  <2>5. CASE y \notin T
    BY <2>1, <2>5, <1>1, <2>2, <2>3, LobStill DEF LobStarts
  <2> QED BY <2>4, <2>5
<1> QED BY <1>1, <1>2, <1>3 DEF LobGood

\* A client handles its next message.
LEMMA LobHandles ==
    ASSUME NEW w, NEW s, NEW b, LobGood(w, s, b), NEW p \in Member, w.mail[p] # << >>, NEW m, m = w.mail[p][1],
           NEW x \in LobWorld, x.parties = w.parties, x.status = w.status, x.mail[p] = Tail(w.mail[p]),
           \A y \in Member : y # p => x.mail[y] = w.mail[y],
           NEW t \in [Member -> LobScreen], NEW c, t[p] = c, \A y \in Member : y # p => t[y] = s[y],
           s[p].level # "off", c.level # "off", c.seats = IF m.kind = "info" THEN m.seats ELSE s[p].seats,
           \/ c.level \in {"leaving", "game"}
           \/ m.kind # "start" /\ s[p].level = "lobby" /\ LobShown(c) = Lob!Handled(p, LobShown(s[p]), m)
    PROVE  LobGood(x, t, b)
<1>1. w \in LobWorld /\ LobApart(w.parties) /\ s \in [Member -> LobScreen]
  BY DEF LobGood
<1>2. PICK q : q = w.mail[p]
  OBVIOUS
<1>3. q \in Seq(Lob!Message) /\ q # << >> /\ m = q[1] /\ Tail(q) \in Seq(Lob!Message)
  BY <1>1, <1>2 DEF LobWorld
<1>4. /\ x \in LobWorld /\ x.parties = w.parties /\ x.status = w.status /\ x.mail[p] = Tail(q)
      /\ \A y \in Member : y # p => x.mail[y] = w.mail[y]
  BY <1>1, <1>2, <1>3 DEF LobWorld
<1>5. t \in [Member -> LobScreen] /\ t[p] = c /\ \A y \in Member : y # p => t[y] = s[y]
  BY <1>1
<1>6. \A y : Lob!GetRoom(x, y) = Lob!GetRoom(w, y) /\ (Lob!HasRoom(x, y) <=> Lob!HasRoom(w, y))
  BY <1>4 DEF Lob!GetRoom, Lob!HasRoom
<1>7. \A y \in Member : Lob!HasRoom(x, y) <=> t[y].level # "off"
  BY <1>5, <1>6 DEF LobGood
<1>8. b => LobAble(x)
  BY <1>4 DEF LobAble, LobGood
<1>9. \A y \in Member : \A v : Lob!Fits(w, y, v) <=> Lob!Fits(x, y, v)
  BY <1>4, <1>6 DEF Lob!Fits
<1>10. PICK k, u : k = Len(q) /\ u = Tail(q)
  OBVIOUS
<1>11. /\ k \in Nat \ {0} /\ DOMAIN q = 1 .. k /\ DOMAIN u = 1 .. k - 1 /\ \A i \in 1 .. k - 1 : u[i] = q[i + 1] /\ i + 1 \in 1 .. k
       /\ \A i \in 1 .. k : i = 1 \/ (i - 1 \in 1 .. k - 1 /\ u[i - 1] = q[i])
  BY <1>3, <1>10
<1>12. LobSees(w, s[p], p) /\ LobHears(w, p) /\ (b => LobRight(w, s[p], p))
  BY DEF LobGood
<1>13. LobSees(x, c, p)
  <2>1. PICK f, g : f = s[p].seats /\ g = Lob!GetRoom(w, p).seats
    OBVIOUS
  <2>2. Lob!Ends(q, f, g)
    BY <1>2, <1>12, <2>1 DEF LobSees
  <2>3. /\ q[1].kind = "info" => Lob!Ends(Tail(q), q[1].seats, g)
        /\ q[1].kind # "info" => Lob!Ends(Tail(q), f, g)
    BY <1>3, <2>2, LobEndsLess
  <2> QED BY <1>3, <1>4, <1>6, <2>1, <2>3 DEF LobSees
<1>14. LobHears(x, p)
  BY <1>2, <1>4, <1>10, <1>11, <1>12 DEF LobHears
<1>15. ASSUME b, ~LobStarted(x, c, p)
       PROVE  x.status[p] # "GAME" /\ \E v \in Lob!View : Lob!Leads(p, LobShown(c), x.mail[p], v) /\ Lob!Fits(x, p, v)
  <2>1. m.kind # "start" /\ s[p].level = "lobby" /\ LobShown(c) = Lob!Handled(p, LobShown(s[p]), m)
    BY <1>15 DEF LobStarted
  <2>2. ~LobStarted(w, s[p], p)
    <3>1. \A i \in DOMAIN u : u[i].kind # "start"
      BY <1>4, <1>10, <1>15 DEF LobStarted
    <3>2. ASSUME NEW i \in 1 .. k
          PROVE  q[i].kind # "start"
      <4>1. CASE i = 1
        BY <1>3, <2>1, <4>1
      <4>2. CASE i - 1 \in 1 .. k - 1 /\ u[i - 1] = q[i]
        BY <1>11, <3>1, <4>2
      <4> QED BY <1>11, <4>1, <4>2
    <3> QED BY <1>2, <1>11, <2>1, <3>2 DEF LobStarted
  <2>3. PICK v \in Lob!View : w.status[p] # "GAME" /\ Lob!Leads(p, LobShown(s[p]), q, v) /\ Lob!Fits(w, p, v)
    BY <1>2, <1>12, <1>15, <2>2 DEF LobRight
  <2>4. Lob!Leads(p, LobShown(c), Tail(q), v)
    <3>1. PICK f : f = LobShown(s[p])
      OBVIOUS
    <3>2. Lob!Leads(p, Lob!Handled(p, f, q[1]), Tail(q), v)
      BY <1>3, <2>3, <3>1, LobLeadsLess
    <3> QED BY <1>3, <2>1, <3>1, <3>2
  <2> QED BY <1>4, <1>9, <2>3, <2>4
<1>16. ASSUME NEW y \in Member, y # p, Lob!HasRoom(x, y)
       PROVE  LobSees(x, t[y], y) /\ LobHears(x, y) /\ (b => LobRight(x, t[y], y))
  BY <1>6, <1>16, <1>4, <1>5, <1>9 DEF LobGood, LobRight, LobStarted, LobSees, LobHears
<1> QED BY <1>1, <1>4, <1>5, <1>7, <1>8, <1>13, <1>14, <1>15, <1>16 DEF LobGood, LobRight

\* A client changes on its own: it opens the level of the game, or shows an invitation no longer.
LEMMA LobTurns ==
    ASSUME NEW w, NEW s, NEW b, LobGood(w, s, b), NEW p \in Member,
           NEW t \in [Member -> LobScreen], NEW c, t[p] = c, \A y \in Member : y # p => t[y] = s[y],
           LobShown(c) = LobShown(s[p]), c.seats = s[p].seats, c.level = "off" <=> s[p].level = "off",
           c.level = s[p].level \/ c.level \in {"leaving", "game"}
    PROVE  LobGood(w, t, b)
<1>1. /\ t \in [Member -> LobScreen] /\ t[p] = c /\ \A y \in Member : y # p => t[y] = s[y]
      /\ w \in LobWorld /\ LobApart(w.parties)
  BY DEF LobGood
<1>2. \A y \in Member : Lob!HasRoom(w, y) <=> t[y].level # "off"
  BY <1>1 DEF LobGood
<1>3. ASSUME NEW y \in Member, Lob!HasRoom(w, y)
      PROVE  LobSees(w, t[y], y) /\ LobHears(w, y) /\ (b => LobRight(w, t[y], y))
  BY <1>3, <1>1 DEF LobGood, LobStarted, LobSees, LobRight
<1>4. b => LobAble(w)
  BY DEF LobGood
<1> QED BY <1>1, <1>2, <1>3, <1>4 DEF LobGood

\* What clients have sent.
LobAsking(a, s) ==
    /\ a \in [Member -> Seq(Lob!Request)]
    /\ \A p \in Member : s[p].level # "off" =>
         /\ s[p].invitation # p
         /\ \A i \in DOMAIN a[p] : a[p][i].kind \in {"invite", "accept"} => a[p][i].whom # p
LobAll == LobGood(Lob!World, screen, "Batch" \notin may) /\ LobAsking(asks, screen)

LEMMA LobIs == Lob!LobbyInv <=> LobAll
<1>1. Lob!World.parties = parties /\ Lob!World.status = status /\ Lob!World.mail = mail
  BY DEF Lob!World
<1>2. Lob!Seated(Lob!World) <=>
        /\ parties \subseteq LobRoom /\ LobApart(parties)
        /\ \A p \in Member : Lob!HasRoom(Lob!World, p) <=> screen[p].level # "off"
  BY <1>1 DEF Lob!Seated, LobRoom, LobApart
<1>3. Lob!Told(Lob!World) <=> \A p \in Member : Lob!HasRoom(Lob!World, p) => LobSees(Lob!World, screen[p], p)
  BY <1>1 DEF Lob!Told, LobSees
<1>4. Lob!Right(Lob!World) <=>
        /\ LobAble(Lob!World)
        /\ \A p \in Member : Lob!HasRoom(Lob!World, p) => LobRight(Lob!World, screen[p], p)
  BY DEF Lob!Shown, LobShown, Lob!Started, LobStarted, LobRight, LobAble, Lob!Right
<1>5. Lob!Typed <=>
        /\ status \in [Member -> Lob!State] /\ mail \in [Member -> Seq(Lob!Message)] /\ asks \in [Member -> Seq(Lob!Request)]
        /\ screen \in [Member -> LobScreen]
  BY DEF Lob!Typed, LobScreen
<1>6. parties \subseteq LobRoom /\ status \in [Member -> Lob!State] /\ mail \in [Member -> Seq(Lob!Message)] <=>
        Lob!World \in LobWorld
  BY <1>1 DEF Lob!World, LobWorld
<1>7. ASSUME \A p \in Member : Lob!HasRoom(Lob!World, p) <=> screen[p].level # "off"
      PROVE  Lob!Others <=>
               /\ \A p \in Member : Lob!HasRoom(Lob!World, p) => LobHears(Lob!World, p)
               /\ \A p \in Member : screen[p].level # "off" =>
                    /\ screen[p].invitation # p
                    /\ \A i \in DOMAIN asks[p] : asks[p][i].kind \in {"invite", "accept"} => asks[p][i].whom # p
  BY <1>1, <1>7 DEF Lob!Others, LobHears
<1> QED
  BY <1>1, <1>2, <1>3, <1>4, <1>5, <1>6, <1>7, Zenon DEF Lob!LobbyInv, LobAll, LobGood, LobAsking

\* Without Batch a match is made before the next request is handled.
LEMMA LobCalms ==
    ASSUME LobAll, Lob!Served, "Batch" \notin may
    PROVE  LobCalm(Lob!World)
<1>1. LobAble(Lob!World) /\ Lob!Matches = {} /\ Lob!World \in LobWorld /\ Lob!World.parties = parties
  BY DEF LobAll, LobGood, Lob!Served, Lob!World
<1>2. ASSUME NEW r \in parties, r.state = "READY", Len(r.seats) # 1
      PROVE  FALSE
  <2>1. Len(r.seats) = 2
    BY <1>1, <1>2, LobSeats DEF LobWorld, LobRoom
  <2>2. PICK m : m = <<r, r>>
    OBVIOUS
  <2>3. m[1] = r /\ m[2] = r
    BY <2>2
  <2>4. m \in {q \in parties : q.state = "READY"} \X {q \in parties : q.state = "READY"}
    BY <1>2, <2>2
  <2>5. m \in Lob!Matches
    BY <2>1, <2>3, <2>4 DEF Lob!Matches, Lob!MAX_PLAYER
  <2> QED BY <1>1, <2>5
<1> QED BY <1>1, <1>2 DEF LobCalm

LEMMA LobBecomes ==
    ASSUME NEW x \in LobWorld, Lob!Become(x)
    PROVE  Lob!World' = x
  BY DEF Lob!Become, Lob!World, LobWorld

\* A request that is taken.
LEMMA LobReceives ==
    ASSUME LobAll, NEW p \in Member, NEW k, Lob!Received(p, k)
    PROVE  /\ Lob!HasRoom(Lob!World, p) /\ screen' = screen /\ may' = may
           /\ "Batch" \notin may => LobCalm(Lob!World)
           /\ LobAsking(asks', screen)
           /\ k = "ready" => Head(asks[p]).on \in BOOLEAN
           /\ k \in {"kick", "king"} => Head(asks[p]).seat \in {1, 2}
           /\ k \in {"invite", "accept"} => Head(asks[p]).whom \in Member /\ Head(asks[p]).whom # p
<1>1. /\ Lob!HasRoom(Lob!World, p) /\ screen' = screen /\ may' = may /\ Lob!Served
      /\ asks[p] # << >> /\ Head(asks[p]).kind = k /\ asks' = [asks EXCEPT ![p] = Tail(@)]
  BY DEF Lob!Received
<1>2. /\ asks \in [Member -> Seq(Lob!Request)] /\ screen[p].level # "off"
      /\ \A y \in Member : screen[y].level # "off" =>
           /\ screen[y].invitation # y
           /\ \A i \in DOMAIN asks[y] : asks[y][i].kind \in {"invite", "accept"} => asks[y][i].whom # y
  BY <1>1 DEF LobAll, LobAsking, LobGood
<1>3. PICK q, u : q = asks[p] /\ u = Tail(q)
  OBVIOUS
<1>4. /\ q \in Seq(Lob!Request) /\ q # << >> /\ u \in Seq(Lob!Request) /\ Head(q) = q[1] /\ 1 \in DOMAIN q /\ q[1] \in Lob!Request
      /\ \A i \in DOMAIN u : i + 1 \in DOMAIN q /\ u[i] = q[i + 1]
  BY <1>1, <1>2, <1>3
<1>5. asks' \in [Member -> Seq(Lob!Request)] /\ asks'[p] = u /\ \A y \in Member : y # p => asks'[y] = asks[y]
  BY <1>1, <1>2, <1>3, <1>4
<1>6. LobAsking(asks', screen)
  <2>1. \A i \in DOMAIN u : u[i].kind \in {"invite", "accept"} => u[i].whom # p
    BY <1>2, <1>3, <1>4
  <2> QED BY <1>2, <1>5, <2>1 DEF LobAsking
<1>7. q[1].kind = k /\ (k \in {"invite", "accept"} => q[1].whom # p)
  BY <1>1, <1>2, <1>3, <1>4
<1>8. /\ k = "ready" => q[1].on \in BOOLEAN
      /\ k \in {"kick", "king"} => q[1].seat \in {1, 2}
      /\ k \in {"invite", "accept"} => q[1].whom \in Member
  BY <1>4, <1>7 DEF Lob!Request
<1> QED BY <1>1, <1>3, <1>4, <1>6, <1>7, <1>8, LobCalms

(***************************************************************************)
(* The actions of the lobby.                                               *)
(***************************************************************************)
LEMMA LobComes ==
    ASSUME NEW x, Lob!Become(x), may' = may, LobGood(x, screen', "Batch" \notin may), LobAsking(asks', screen')
    PROVE  LobAll'
  BY LobBecomes DEF LobGood, LobAll

\* ... that leave everybody who asks in the lobby.
LEMMA LobHandling ==
    ASSUME LobAll, NEW p \in Member, NEW k, Lob!Received(p, k), NEW x, LobServes(Lob!World, x, Member), Lob!Become(x)
    PROVE  LobAll'
<1>1. screen' = screen /\ may' = may /\ ("Batch" \notin may => LobCalm(Lob!World)) /\ LobAsking(asks', screen)
  BY LobReceives
<1>2. PICK w, s, b : w = Lob!World /\ s = screen /\ b = ("Batch" \notin may)
  OBVIOUS
<1>3. LobGood(w, s, b) /\ (b => LobCalm(w)) /\ LobServes(w, x, Member) /\ s \in [Member -> LobScreen]
  BY <1>1, <1>2 DEF LobAll, LobGood
<1>4. \A y \in Member : IF y \in Member THEN s[y] = s[y] ELSE s[y].level = "off"
  OBVIOUS
<1>5. LobGood(x, s, b)
  BY <1>3, <1>4, LobServed
<1> QED BY <1>1, <1>2, <1>5, LobComes

LEMMA LobMatchRequest ==
    ASSUME LobAll, NEW p \in Member, Lob!MatchRequest(p)
    PROVE  LobAll'
<1>1. Lob!Received(p, "ready")
  BY DEF Lob!MatchRequest
<1>2. /\ Lob!HasRoom(Lob!World, p) /\ screen' = screen /\ may' = may
      /\ ("Batch" \notin may => LobCalm(Lob!World)) /\ LobAsking(asks', screen) /\ Head(asks[p]).on \in BOOLEAN
  BY <1>1, LobReceives
<1>3. PICK w, s, b, ok, r, x : /\ w = Lob!World /\ s = screen /\ b = ("Batch" \notin may) /\ ok = Head(asks[p]).on
                               /\ r = Lob!GetRoom(w, p) /\ x = Lob!ChangeRoomReady(w, p, ok)
  OBVIOUS
<1>4. LobGood(w, s, b) /\ (b => LobCalm(w)) /\ w \in LobWorld /\ LobApart(w.parties) /\ ok \in BOOLEAN /\ Lob!HasRoom(w, p)
  BY <1>2, <1>3 DEF LobAll, LobGood
<1>5. LobSits(w.parties, r, p)
  BY <1>3, <1>4, LobHoused
<1>6. Lob!Become(x)
  BY <1>3 DEF Lob!MatchRequest
<1>7. CASE r.state = "GAME"
  BY <1>3, <1>7, <1>2, <1>4, <1>6, LobComes DEF Lob!ChangeRoomReady
<1>8. CASE r.state # "GAME"
  BY <1>3, <1>4, <1>5, <1>8, LobAnswered, <1>2, <1>6, LobComes
<1> QED BY <1>7, <1>8

LEMMA LobWorldGood ==
    ASSUME LobAll
    PROVE  /\ Lob!World \in LobWorld /\ LobApart(Lob!World.parties) /\ LobServes(Lob!World, Lob!World, Member)
           /\ Lob!World.parties = parties
<1>1. Lob!World \in LobWorld /\ LobApart(Lob!World.parties) /\ Lob!World.parties = parties
  BY DEF LobAll, LobGood, Lob!World
<1>2. PICK m, T : m = [kind |-> "failed"] /\ T = {}
  OBVIOUS
<1>3. m \in Lob!Message /\ m.kind \in {"invite", "failed"} /\ (m.kind = "invite" => m.from \notin T)
  BY <1>2 DEF Lob!Message
<1>4. PICK w : w = Lob!World
  OBVIOUS
<1>5. LobServes(w, w, Member) /\ LobServes(w, Lob!Send(w, T, m), Member)
  BY <1>1, <1>3, <1>4, LobSends
<1> QED BY <1>1, <1>4, <1>5

LEMMA LobFriendKickRequest ==
    ASSUME LobAll, NEW p \in Member, Lob!FriendKickRequest(p)
    PROVE  LobAll'
<1>1. Lob!Received(p, "kick")
  BY DEF Lob!FriendKickRequest
<1>2. PICK w, r, i : w = Lob!World /\ r = Lob!GetRoom(w, p) /\ i = Head(asks[p]).seat
  OBVIOUS
<1>3. w \in LobWorld /\ LobApart(w.parties) /\ LobServes(w, w, Member) /\ Lob!HasRoom(w, p)
  BY <1>1, <1>2, LobReceives, LobWorldGood
<1>4. LobSits(w.parties, r, p)
  BY <1>2, <1>3, LobHoused
<1>5. CASE i \in DOMAIN r.seats /\ p \in {r.seats[1], r.seats[i]}
  <2>1. PICK y, x : y = r.seats[i] /\ x = Lob!KickPlayer(w, y)
    OBVIOUS
  <2>2. LobSits(w.parties, r, y)
    BY <1>4, <1>5, <2>1 DEF LobSits, Lob!Range
  <2>3. y \in Member /\ Lob!HasRoom(w, y)
    BY <1>3, <1>4, <1>5, <2>1, <2>2, LobHome, LobSeats
  <2>4. LobServes(w, x, Member)
    BY <1>3, <2>1, <2>3, LobKicks
  <2>5. Lob!Become(x)
    BY <1>2, <1>5, <2>1 DEF Lob!FriendKickRequest
  <2> QED BY <1>1, <1>2, <2>4, <2>5, LobHandling
<1>6. CASE ~(i \in DOMAIN r.seats /\ p \in {r.seats[1], r.seats[i]})
  BY <1>2, <1>6, <1>1, <1>3, LobHandling DEF Lob!FriendKickRequest
<1> QED BY <1>5, <1>6

LEMMA LobSetPartyKing ==
    ASSUME LobAll, NEW p \in Member, Lob!SetPartyKing(p)
    PROVE  LobAll'
<1>1. Lob!Received(p, "king")
  BY DEF Lob!SetPartyKing
<1>2. PICK w, r, i : w = Lob!World /\ r = Lob!GetRoom(w, p) /\ i = Head(asks[p]).seat
  OBVIOUS
<1>3. w \in LobWorld /\ LobApart(w.parties) /\ LobServes(w, w, Member) /\ Lob!HasRoom(w, p)
  BY <1>1, <1>2, LobReceives, LobWorldGood
<1>4. r \in w.parties
  BY <1>2, <1>3, LobHoused DEF LobSits
<1>5. CASE p = r.seats[1] /\ i \in DOMAIN r.seats \ {1}
  <2>1. PICK x : x = Lob!ChangePartyKing(w, r, i)
    OBVIOUS
  <2>2. LobServes(w, x, Member)
    BY <1>3, <1>4, <1>5, <2>1, LobKings
  <2>3. Lob!Become(x)
    BY <1>2, <1>5, <2>1 DEF Lob!SetPartyKing
  <2> QED BY <1>1, <1>2, <2>2, <2>3, LobHandling
<1>6. CASE ~(p = r.seats[1] /\ i \in DOMAIN r.seats \ {1})
  BY <1>2, <1>6, <1>1, <1>3, LobHandling DEF Lob!SetPartyKing
<1> QED BY <1>5, <1>6

LEMMA LobInviteFriendRequest ==
    ASSUME LobAll, NEW p \in Member, Lob!InviteFriendRequest(p)
    PROVE  LobAll'
<1>1. Lob!Received(p, "invite")
  BY DEF Lob!InviteFriendRequest
<1>2. PICK w, c, m, x : /\ w = Lob!World /\ c = Head(asks[p]).whom /\ m = [kind |-> "invite", from |-> p]
                        /\ x = Lob!Send(w, {c}, m)
  OBVIOUS
<1>3. w \in LobWorld /\ LobApart(w.parties) /\ c # p
  BY <1>1, <1>2, LobReceives, LobWorldGood
<1>4. m \in Lob!Message /\ m.kind \in {"invite", "failed"} /\ (m.kind = "invite" => m.from \notin {c})
  BY <1>2, <1>3 DEF Lob!Message
<1>5. LobServes(w, x, Member)
  BY <1>2, <1>3, <1>4, LobSends
<1>6. Lob!Become(x)
  BY <1>2 DEF Lob!InviteFriendRequest
<1> QED BY <1>1, <1>2, <1>5, <1>6, LobHandling

LEMMA LobInviteFriendAnswer ==
    ASSUME LobAll, NEW p \in Member, Lob!InviteFriendAnswer(p)
    PROVE  LobAll'
<1>1. Lob!Received(p, "accept")
  BY DEF Lob!InviteFriendAnswer
<1>2. PICK w, c, x : w = Lob!World /\ c = Head(asks[p]).whom /\ x = Lob!MoveRoom(w, c, p)
  OBVIOUS
<1>3. w \in LobWorld /\ LobApart(w.parties) /\ c \in Member /\ c # p /\ Lob!HasRoom(w, p)
  BY <1>1, <1>2, LobReceives, LobWorldGood
<1>4. Lob!Become(x) /\ Lob!HasRoom(w, c)
  BY <1>2 DEF Lob!InviteFriendAnswer
<1>5. CASE Len(Lob!GetRoom(w, c).seats) = 2
  <2>1. PICK m : m = [kind |-> "failed"]
    OBVIOUS
  <2>2. m \in Lob!Message /\ m.kind \in {"invite", "failed"} /\ (m.kind = "invite" => m.from \notin {c, p})
    BY <2>1 DEF Lob!Message
  <2>3. x = Lob!Send(w, {c, p}, m)
    BY <1>2, <1>5, <2>1 DEF Lob!MoveRoom, Lob!MAX_PLAYER
  <2>4. LobServes(w, x, Member)
    BY <1>3, <2>2, <2>3, LobSends
  <2> QED BY <1>1, <1>2, <1>4, <2>4, LobHandling
<1>6. CASE Len(Lob!GetRoom(w, c).seats) # 2
  BY <1>2, <1>3, <1>4, <1>6, LobMoves, <1>1, LobHandling
<1> QED BY <1>5, <1>6

LEMMA LobUpdate ==
    ASSUME LobAll, Lob!Update
    PROVE  LobAll'
<1>1. PICK m \in Lob!Matches :
        LET all == Lob!Room(IF m[1] = m[2] THEN m[1].seats ELSE m[1].seats \o m[2].seats, "READY")
            w == Lob!ChangeRoomState([Lob!World EXCEPT !.parties = (@ \ {m[1], m[2]}) \cup {all}], all, "GAME")
        IN  /\ Lob!Become(Lob!Send(Lob!SendRoomInfoToAllMember(w, all), Lob!Range(all.seats), [kind |-> "start"]))
            /\ UNCHANGED <<may, asks, screen, presses, leaves>>
  BY DEF Lob!Update
<1>2. PICK w, s, b, r, q, e : /\ w = Lob!World /\ s = screen /\ b = ("Batch" \notin may) /\ r = m[1] /\ q = m[2]
                              /\ e = IF r = q THEN r.seats ELSE r.seats \o q.seats
  OBVIOUS
<1>3. /\ r \in parties /\ r.state = "READY" /\ q \in parties /\ q.state = "READY"
      /\ IF r = q THEN Len(r.seats) = 2 ELSE Len(r.seats) + Len(q.seats) = 2
  BY <1>2 DEF Lob!Matches, Lob!MAX_PLAYER
<1>4. LobGood(w, s, b) /\ w \in LobWorld /\ LobApart(w.parties) /\ w.parties = parties
  BY <1>2, LobWorldGood DEF LobAll
<1>5. PICK x, T : x = LobUpdated(w, r, q, e) /\ T = Lob!Range(e)
  OBVIOUS
<1>6. LobStarts(w, x, T)
  BY <1>2, <1>3, <1>4, <1>5, LobUpdates
<1>7. LobGood(x, s, b)
  BY <1>4, <1>6, LobBegins
<1>8. Lob!Room(e, "READY").seats = e
  BY DEF Lob!Room
<1>9. Lob!Become(x) /\ may' = may /\ asks' = asks /\ screen' = screen
  BY <1>1, <1>2, <1>5, <1>8 DEF LobUpdated, LobStart
<1>10. LobAsking(asks', screen')
  BY <1>9 DEF LobAll
<1> QED BY <1>2, <1>7, <1>9, <1>10, LobComes

LEMMA LobLeave ==
    ASSUME LobAll, NEW p \in Member, Lob!Leave(p)
    PROVE  LobAll'
<1>1. /\ Lob!HasRoom(Lob!World, p) /\ Lob!Become(Lob!OutRoom(Lob!World, p)) /\ screen' = [screen EXCEPT ![p].level = "off"]
      /\ may' = may /\ asks' = asks /\ Lob!Served
  BY DEF Lob!Leave
<1>2. PICK w, s, b, x, t, S : /\ w = Lob!World /\ s = screen /\ b = ("Batch" \notin may) /\ x = Lob!OutRoom(w, p)
                              /\ t = [s EXCEPT ![p].level = "off"] /\ S = Member \ {p}
  OBVIOUS
<1>3. LobGood(w, s, b) /\ (b => LobCalm(w)) /\ w \in LobWorld /\ LobApart(w.parties) /\ s \in [Member -> LobScreen]
  BY <1>1, <1>2, LobCalms DEF LobAll, LobGood
<1>4. LobServes(w, x, S)
  BY <1>1, <1>2, <1>3, LobLeaves
<1>5. t \in [Member -> LobScreen] /\ t[p].level = "off" /\ \A y \in Member : y # p => t[y] = s[y]
  BY <1>2, <1>3 DEF LobScreen
<1>6. \A y \in Member : IF y \in S THEN t[y] = s[y] ELSE t[y].level = "off"
  BY <1>2, <1>5
<1>7. LobGood(x, t, b)
  BY <1>3, <1>4, <1>5, <1>6, LobServed
<1>8. LobAsking(asks, s)
  BY <1>2 DEF LobAll
<1>9. LobAsking(asks, t)
  BY <1>5, <1>8 DEF LobAsking
<1> QED BY <1>1, <1>2, <1>7, <1>9, LobComes

\* Nothing changes on the server.
LEMMA LobQuiet ==
    ASSUME LobAll, may' = may, parties' = parties, status' = status, mail' = mail, LobAsking(asks', screen'),
           LobGood(Lob!World, screen', "Batch" \notin may)
    PROVE  LobAll'
  BY DEF Lob!World, LobAll

LEMMA LobAsks ==
    ASSUME LobAll, NEW p \in Member, NEW x \in Lob!Request, Lob!Ask(p, x), x.kind \in {"invite", "accept"} => x.whom # p
    PROVE  LobAsking(asks', screen)
<1>1. asks' = [asks EXCEPT ![p] = Append(@, x)]
  BY DEF Lob!Ask
<1>2. LobAsking(asks, screen)
  BY DEF LobAll
<1>3. PICK q, u : q = asks[p] /\ u = Append(q, x)
  OBVIOUS
<1>4. q \in Seq(Lob!Request) /\ u \in Seq(Lob!Request) /\ \A i \in DOMAIN u : u[i] = x \/ (i \in DOMAIN q /\ u[i] = q[i])
  BY <1>2, <1>3 DEF LobAsking
<1>5. asks' \in [Member -> Seq(Lob!Request)] /\ asks'[p] = u /\ \A y \in Member : y # p => asks'[y] = asks[y]
  BY <1>1, <1>2, <1>3, <1>4 DEF LobAsking
<1>6. ASSUME screen[p].level # "off"
      PROVE  \A i \in DOMAIN u : u[i].kind \in {"invite", "accept"} => u[i].whom # p
  BY <1>2, <1>3, <1>4, <1>6 DEF LobAsking
<1> QED BY <1>2, <1>5, <1>6 DEF LobAsking

LEMMA LobAskings ==
    ASSUME LobAll, NEW p \in Member,
           Lob!OnReady(p) \/ Lob!InviteFriend(p) \/ Lob!AnswerInviteRequest(p) \/ Lob!Kick(p) \/ Lob!AskPartyKing(p)
    PROVE  LobAll'
<1>1. /\ LobGood(Lob!World, screen, "Batch" \notin may) /\ screen \in [Member -> LobScreen]
      /\ screen[p].level # "off" => screen[p].invitation # p
  BY DEF LobAll, LobGood, LobAsking
<1>2. ASSUME NEW x \in Lob!Request, Lob!Ask(p, x), x.kind \in {"invite", "accept"} => x.whom # p, screen' = screen
      PROVE  LobAll'
  BY <1>2, LobAsks, <1>1, LobQuiet DEF Lob!Ask
<1>3. CASE Lob!OnReady(p)
  <2>1. PICK ok \in BOOLEAN : Lob!Ask(p, [kind |-> "ready", on |-> ok]) /\ screen' = screen
    BY <1>3 DEF Lob!OnReady
  <2>2. PICK x : x = [kind |-> "ready", on |-> ok]
    OBVIOUS
  <2>3. x \in Lob!Request /\ x.kind \notin {"invite", "accept"}
    BY <2>2 DEF Lob!Request
  <2> QED BY <1>2, <2>1, <2>2, <2>3
<1>4. CASE Lob!InviteFriend(p)
  <2>1. PICK c \in Member \ {p} : Lob!Ask(p, [kind |-> "invite", whom |-> c]) /\ screen' = screen
    BY <1>4 DEF Lob!InviteFriend
  <2>2. PICK x : x = [kind |-> "invite", whom |-> c]
    OBVIOUS
  <2>3. x \in Lob!Request /\ x.whom # p
    BY <2>2 DEF Lob!Request
  <2> QED BY <1>2, <2>1, <2>2, <2>3
<1>5. CASE Lob!Kick(p)
  <2>1. PICK i \in DOMAIN screen[p].seats : Lob!Ask(p, [kind |-> "kick", seat |-> i]) /\ screen' = screen
    BY <1>5 DEF Lob!Kick
  <2>2. PICK x : x = [kind |-> "kick", seat |-> i]
    OBVIOUS
  <2>3. i \in {1, 2}
    BY <1>1, LobSeats DEF LobScreen
  <2>4. x \in Lob!Request /\ x.kind \notin {"invite", "accept"}
    BY <2>2, <2>3 DEF Lob!Request
  <2> QED BY <1>2, <2>1, <2>2, <2>4
<1>6. CASE Lob!AskPartyKing(p)
  <2>1. PICK i \in DOMAIN screen[p].seats : Lob!Ask(p, [kind |-> "king", seat |-> i]) /\ screen' = screen
    BY <1>6 DEF Lob!AskPartyKing
  <2>2. PICK x : x = [kind |-> "king", seat |-> i]
    OBVIOUS
  <2>3. i \in {1, 2}
    BY <1>1, LobSeats DEF LobScreen
  <2>4. x \in Lob!Request /\ x.kind \notin {"invite", "accept"}
    BY <2>2, <2>3 DEF Lob!Request
  <2> QED BY <1>2, <2>1, <2>2, <2>4
<1>7. CASE Lob!AnswerInviteRequest(p)
  <2>1. PICK c, x : c = screen[p].invitation /\ x = [kind |-> "accept", whom |-> c]
    OBVIOUS
  <2>2. /\ c # NoOne /\ Lob!Ask(p, x) /\ screen' = [screen EXCEPT ![p].invitation = NoOne] /\ screen[p].level = "lobby"
        /\ may' = may /\ parties' = parties /\ status' = status /\ mail' = mail
    BY <1>7, <2>1 DEF Lob!AnswerInviteRequest, Lob!Ask
  <2>3. c \in Member /\ c # p
    BY <1>1, <2>1, <2>2 DEF LobScreen
  <2>4. x \in Lob!Request /\ x.whom # p
    BY <2>1, <2>3 DEF Lob!Request
  <2>5. LobAsking(asks', screen)
    BY <2>2, <2>4, LobAsks
  <2>6. PICK w, s, b, o, t : /\ w = Lob!World /\ s = screen /\ b = ("Batch" \notin may) /\ o = [s[p] EXCEPT !.invitation = NoOne]
                             /\ t = [s EXCEPT ![p] = o]
    OBVIOUS
  <2>7. /\ o \in LobScreen /\ o.level = s[p].level /\ o.seats = s[p].seats /\ o.ready = s[p].ready /\ o.button = s[p].button
        /\ o.invitation = NoOne
    BY <1>1, <2>6 DEF LobScreen
  <2>8. LobGood(w, t, b)
    <3>1. LobShown(o) = LobShown(s[p])
      BY <2>7 DEF LobShown
    <3>2. LobGood(w, s, b) /\ s[p].level # "off"
      BY <1>1, <2>2, <2>6
    <3>3. (o.level = "off" <=> s[p].level = "off") /\ (o.level = s[p].level \/ o.level \in {"leaving", "game"})
      BY <2>7
    <3>4. t \in [Member -> LobScreen] /\ t[p] = o /\ \A y \in Member : y # p => t[y] = s[y]
      BY <1>1, <2>6, <2>7
    <3> QED BY <2>7, <3>1, <3>2, <3>3, <3>4, LobTurns
  <2>9. t = screen'
    BY <1>1, <2>2, <2>6 DEF LobScreen
  <2>10. NoOne \notin Member
    BY ClientAssumption DEF ClientAssumption, Lob!LobbyAssumption
  <2>11. LobAsking(asks', t)
    BY <1>1, <2>6, <2>5, <2>7, <2>10 DEF LobAsking
  <2> QED BY <2>2, <2>6, <2>8, <2>9, <2>11, LobQuiet
<1> QED BY <1>3, <1>4, <1>5, <1>6, <1>7

\* A message that is taken, and a screen that shows it.
LobTaking(p, k, c) ==
    /\ Lob!Handle(p, k) /\ c \in LobScreen /\ screen' = [screen EXCEPT ![p] = c]
    /\ screen[p].level # "off" /\ c.level # "off"
    /\ c.invitation = screen[p].invitation \/ (k = "invite" /\ c.invitation = Head(mail[p]).from)
    /\ c.seats = IF k = "info" THEN Head(mail[p]).seats ELSE screen[p].seats
    /\ \/ c.level \in {"leaving", "game"}
       \/ k # "start" /\ screen[p].level = "lobby" /\ LobShown(c) = Lob!Handled(p, LobShown(screen[p]), Head(mail[p]))

LEMMA LobTakes ==
    ASSUME LobAll, NEW p \in Member, NEW k, NEW c, LobTaking(p, k, c)
    PROVE  LobAll'
<1>0. /\ Lob!Handle(p, k) /\ c \in LobScreen /\ screen' = [screen EXCEPT ![p] = c]
      /\ screen[p].level # "off" /\ c.level # "off"
      /\ c.invitation = screen[p].invitation \/ (k = "invite" /\ c.invitation = Head(mail[p]).from)
      /\ c.seats = IF k = "info" THEN Head(mail[p]).seats ELSE screen[p].seats
      /\ \/ c.level \in {"leaving", "game"}
         \/ k # "start" /\ screen[p].level = "lobby" /\ LobShown(c) = Lob!Handled(p, LobShown(screen[p]), Head(mail[p]))
  BY DEF LobTaking
<1>1. PICK w, s, b, m : w = Lob!World /\ s = screen /\ b = ("Batch" \notin may) /\ m = Head(mail[p])
  OBVIOUS
<1>2. /\ mail[p] # << >> /\ m.kind = k /\ mail' = [mail EXCEPT ![p] = Tail(@)]
      /\ may' = may /\ parties' = parties /\ status' = status /\ asks' = asks
  BY <1>0, <1>1 DEF Lob!Handle
<1>3. LobGood(w, s, b) /\ LobAsking(asks, s) /\ w \in LobWorld /\ s \in [Member -> LobScreen] /\ w.mail = mail
  BY <1>0, <1>1 DEF LobAll, LobGood, Lob!World
<1>4. mail[p] \in Seq(Lob!Message) /\ m = w.mail[p][1] /\ 1 \in DOMAIN w.mail[p]
  BY <1>0, <1>1, <1>2, <1>3 DEF LobWorld
<1>5. PICK x, t : x = [w EXCEPT !.mail[p] = Tail(@)] /\ t = [s EXCEPT ![p] = c]
  OBVIOUS
<1>6. LobGood(x, t, b)
  <2>1. w.mail[p] # << >> /\ s[p].level # "off"
    BY <1>0, <1>1, <1>2, <1>3
  <2>2. /\ x \in LobWorld /\ x.parties = w.parties /\ x.status = w.status /\ x.mail[p] = Tail(w.mail[p])
        /\ \A y \in Member : y # p => x.mail[y] = w.mail[y]
    <3>1. Tail(w.mail[p]) \in Seq(Lob!Message)
      BY <1>0, <1>3, <1>4, <2>1
    <3> QED BY <1>0, <1>3, <1>5, <3>1 DEF LobWorld
  <2>3. t \in [Member -> LobScreen] /\ t[p] = c /\ \A y \in Member : y # p => t[y] = s[y]
    BY <1>0, <1>3, <1>5
  <2>4. /\ c.seats = IF m.kind = "info" THEN m.seats ELSE s[p].seats
        /\ \/ c.level \in {"leaving", "game"}
           \/ m.kind # "start" /\ s[p].level = "lobby" /\ LobShown(c) = Lob!Handled(p, LobShown(s[p]), m)
    BY <1>0, <1>1, <1>2
  <2> QED BY <1>0, <1>3, <1>4, <2>1, <2>2, <2>3, <2>4, LobHandles
<1>7. Lob!World' = x /\ screen' = t
  BY <1>0, <1>1, <1>2, <1>5 DEF Lob!World
<1>8. Lob!HasRoom(w, p) /\ (m.kind = "invite" => m.from # p)
  BY <1>0, <1>1, <1>3, <1>4 DEF LobGood, LobHears
<1>9. LobAsking(asks, t)
  BY <1>0, <1>3, <1>5, <1>1, <1>2, <1>8 DEF LobAsking
<1> QED BY <1>0, <1>1, <1>2, <1>6, <1>7, <1>9 DEF LobAll

LEMMA LobHeard ==
    ASSUME LobAll, NEW p \in Member, NEW k, Lob!Handle(p, k)
    PROVE  Head(mail[p]) \in Lob!Message /\ Head(mail[p]).kind = k /\ screen \in [Member -> LobScreen]
<1>1. mail \in [Member -> Seq(Lob!Message)] /\ screen \in [Member -> LobScreen]
  BY DEF LobAll, LobGood, Lob!World, LobWorld
<1>2. PICK q : q = mail[p]
  OBVIOUS
<1>3. q \in Seq(Lob!Message) /\ q # << >> /\ Head(q).kind = k
  BY <1>1, <1>2 DEF Lob!Handle
<1>4. Head(q) \in Lob!Message
  BY <1>3
<1> QED BY <1>1, <1>2, <1>3, <1>4

LEMMA LobRoomInfo ==
    ASSUME LobAll, NEW p \in Member, Lob!RoomInfo(p)
    PROVE  LobAll'
<1>1. PICK m, d : m = Head(mail[p]) /\ d = screen[p]
  OBVIOUS
<1>2. /\ Lob!Handle(p, "info") /\ d.level \in {"lobby", "game"}
      /\ screen' = [screen EXCEPT ![p].seats = m.seats, ![p].ready = {}]
  BY <1>1 DEF Lob!RoomInfo
<1>3. m \in Lob!Message /\ m.kind = "info" /\ screen \in [Member -> LobScreen] /\ d \in LobScreen
  BY <1>1, <1>2, LobHeard
<1>4. m.seats \in Lob!Seats
  BY <1>3 DEF Lob!Message
<1>5. PICK c : c = [d EXCEPT !.seats = m.seats, !.ready = {}]
  OBVIOUS
<1>6. /\ c \in LobScreen /\ c.seats = m.seats /\ c.ready = {} /\ c.level = d.level /\ c.button = d.button
      /\ c.invitation = d.invitation
  BY <1>3, <1>4, <1>5 DEF LobScreen
<1>7. screen' = [screen EXCEPT ![p] = c]
  BY <1>1, <1>2, <1>3, <1>5 DEF LobScreen
<1>8. LobShown(c) = Lob!Handled(p, LobShown(d), m)
  BY <1>3, <1>6 DEF LobShown, Lob!Handled
<1>9. LobTaking(p, "info", c)
  BY <1>1, <1>2, <1>6, <1>7, <1>8 DEF LobTaking
<1> QED BY <1>9, LobTakes

LEMMA LobMatchAnswer ==
    ASSUME LobAll, NEW p \in Member, Lob!MatchAnswer(p)
    PROVE  LobAll'
<1>1. PICK m, d : m = Head(mail[p]) /\ d = screen[p]
  OBVIOUS
<1>2. PICK n, y : /\ n = IF m.seat \in DOMAIN d.seats /\ d.seats[m.seat] = p THEN m.on ELSE d.button
                  /\ y = IF m.on THEN d.ready \cup {m.seat} ELSE d.ready \ {m.seat}
  OBVIOUS
<1>3. Lob!Handle(p, "match") /\ d.level = "lobby" /\ screen' = [screen EXCEPT ![p].button = n, ![p].ready = y]
  BY <1>1, <1>2 DEF Lob!MatchAnswer
<1>4. m \in Lob!Message /\ m.kind = "match" /\ screen \in [Member -> LobScreen] /\ d \in LobScreen
  BY <1>1, <1>3, LobHeard
<1>5. m.seat \in {1, 2} /\ m.on \in BOOLEAN
  BY <1>4 DEF Lob!Message
<1>6. d.button \in BOOLEAN /\ d.ready \in SUBSET {1, 2}
  BY <1>4 DEF LobScreen
<1>7. n \in BOOLEAN
  BY <1>2, <1>5, <1>6, Zenon
<1>8. y \in SUBSET {1, 2}
  BY <1>2, <1>5, <1>6
<1>9. PICK c : c = [d EXCEPT !.button = n, !.ready = y]
  OBVIOUS
<1>10. /\ c \in LobScreen /\ c.seats = d.seats /\ c.ready = y /\ c.level = d.level /\ c.button = n
       /\ c.invitation = d.invitation
  BY <1>4, <1>7, <1>8, <1>9 DEF LobScreen
<1>11. screen' = [screen EXCEPT ![p] = c]
  BY <1>1, <1>3, <1>4, <1>9 DEF LobScreen
<1>12. LobShown(c) = Lob!Handled(p, LobShown(d), m)
  <2>1. PICK v : v = LobShown(d)
    OBVIOUS
  <2>2. v.seats = d.seats /\ v.button = d.button /\ v.ready = d.ready /\ v = [seats |-> d.seats, ready |-> d.ready, button |-> d.button]
    BY <2>1 DEF LobShown
  <2>3. Lob!Handled(p, v, m) = [v EXCEPT !.button = IF m.seat \in DOMAIN v.seats /\ v.seats[m.seat] = p THEN m.on ELSE v.button,
                                !.ready = IF m.on THEN v.ready \cup {m.seat} ELSE v.ready \ {m.seat}]
    BY <1>4 DEF Lob!Handled
  <2>4. Lob!Handled(p, v, m) = [v EXCEPT !.button = n, !.ready = y]
    BY <1>2, <2>2, <2>3
  <2>5. [v EXCEPT !.button = n, !.ready = y] = [seats |-> d.seats, ready |-> y, button |-> n]
    <3>1. v \in Lob!View
      BY <1>4, <2>2 DEF LobScreen, Lob!View
    <3>2. PICK u : u = [v EXCEPT !.button = n, !.ready = y]
      OBVIOUS
    <3>3. u \in Lob!View /\ u.seats = d.seats /\ u.ready = y /\ u.button = n
      BY <1>7, <1>8, <2>2, <3>1, <3>2 DEF Lob!View
    <3>4. u = [seats |-> u.seats, ready |-> u.ready, button |-> u.button]
      BY <3>3 DEF Lob!View
    <3> QED BY <3>2, <3>3, <3>4
  <2>6. LobShown(c) = [seats |-> d.seats, ready |-> y, button |-> n]
    BY <1>10 DEF LobShown
  <2> QED BY <2>1, <2>4, <2>5, <2>6
<1>13. /\ screen[p].level # "off" /\ c.level # "off" /\ c.invitation = screen[p].invitation /\ c.seats = screen[p].seats
       /\ LobShown(c) = Lob!Handled(p, LobShown(screen[p]), Head(mail[p])) /\ screen[p].level = "lobby"
  BY <1>1, <1>3, <1>10, <1>12
<1>14. LobTaking(p, "match", c)
  BY <1>3, <1>10, <1>11, <1>13 DEF LobTaking
<1> QED BY <1>14, LobTakes

\* The other messages.
LEMMA LobOthers ==
    ASSUME LobAll, NEW p \in Member,
           Lob!OpenRequestInviteWG(p) \/ Lob!InviteFriendFailed(p) \/ Lob!StartGame(p) \/ Lob!Ignored(p)
    PROVE  LobAll'
<1>1. PICK m, d : m = Head(mail[p]) /\ d = screen[p]
  OBVIOUS
<1>2. CASE Lob!OpenRequestInviteWG(p)
  <2>1. Lob!Handle(p, "invite") /\ d.level = "lobby" /\ screen' = [screen EXCEPT ![p].invitation = m.from]
    BY <1>1, <1>2 DEF Lob!OpenRequestInviteWG
  <2>2. m \in Lob!Message /\ m.kind = "invite" /\ screen \in [Member -> LobScreen] /\ d \in LobScreen
    BY <1>1, <2>1, LobHeard
  <2>3. m.from \in Member
    BY <2>2 DEF Lob!Message
  <2>4. PICK c : c = [d EXCEPT !.invitation = m.from]
    OBVIOUS
  <2>5. /\ c \in LobScreen /\ c.seats = d.seats /\ c.ready = d.ready /\ c.level = d.level /\ c.button = d.button
        /\ c.invitation = m.from
    BY <2>2, <2>3, <2>4 DEF LobScreen
  <2>6. screen' = [screen EXCEPT ![p] = c]
    BY <1>1, <2>1, <2>2, <2>4 DEF LobScreen
  <2>7. LobShown(c) = Lob!Handled(p, LobShown(d), m)
    BY <2>2, <2>5 DEF LobShown, Lob!Handled
  <2>8. /\ screen[p].level # "off" /\ c.level # "off" /\ c.invitation = Head(mail[p]).from /\ c.seats = screen[p].seats
        /\ LobShown(c) = Lob!Handled(p, LobShown(screen[p]), Head(mail[p])) /\ screen[p].level = "lobby"
    BY <1>1, <2>1, <2>5, <2>7
  <2>9. LobTaking(p, "invite", c)
    BY <2>1, <2>5, <2>6, <2>8 DEF LobTaking
  <2> QED BY <2>9, LobTakes
<1>3. CASE Lob!InviteFriendFailed(p)
  BY <1>1, <1>3, LobHeard, LobTakes DEF Lob!InviteFriendFailed, Lob!Handled, LobTaking
<1>4. CASE Lob!StartGame(p)
  <2>1. Lob!Handle(p, "start") /\ d.level = "lobby" /\ screen' = [screen EXCEPT ![p].level = "leaving"]
    BY <1>1, <1>4 DEF Lob!StartGame
  <2>2. m \in Lob!Message /\ m.kind = "start" /\ screen \in [Member -> LobScreen] /\ d \in LobScreen
    BY <1>1, <2>1, LobHeard
  <2>3. PICK c : c = [d EXCEPT !.level = "leaving"]
    OBVIOUS
  <2>4. c \in LobScreen /\ c.seats = d.seats /\ c.level = "leaving" /\ c.invitation = d.invitation
    BY <2>2, <2>3 DEF LobScreen
  <2>5. screen' = [screen EXCEPT ![p] = c]
    BY <1>1, <2>1, <2>2, <2>3 DEF LobScreen
  <2>6. LobTaking(p, "start", c)
    BY <1>1, <2>1, <2>2, <2>4, <2>5 DEF LobTaking
  <2> QED BY <2>6, LobTakes
<1>5. CASE Lob!Ignored(p)
  <2>1. PICK k \in {"match", "invite", "failed", "start"} : Lob!Handle(p, k)
    BY <1>5 DEF Lob!Ignored
  <2>2. d.level = "game" /\ screen' = screen
    BY <1>1, <1>5 DEF Lob!Ignored
  <2>3. screen \in [Member -> LobScreen] /\ d \in LobScreen /\ k # "info"
    BY <1>1, <2>1, LobHeard
  <2>4. screen' = [screen EXCEPT ![p] = d]
    BY <1>1, <2>2, <2>3
  <2>5. LobTaking(p, k, d)
    BY <1>1, <2>1, <2>2, <2>3, <2>4 DEF LobTaking
  <2> QED BY <2>5, LobTakes
<1> QED BY <1>2, <1>3, <1>4, <1>5

LEMMA LobOnGameStart ==
    ASSUME LobAll, NEW p \in Member, Lob!OnGameStart(p)
    PROVE  LobAll'
<1>1. /\ screen[p].level = "leaving" /\ screen' = [screen EXCEPT ![p].level = "game"]
      /\ may' = may /\ parties' = parties /\ status' = status /\ mail' = mail /\ asks' = asks
  BY DEF Lob!OnGameStart
<1>2. PICK w, s, b, o, t : /\ w = Lob!World /\ s = screen /\ b = ("Batch" \notin may) /\ o = [s[p] EXCEPT !.level = "game"]
                           /\ t = [s EXCEPT ![p] = o]
  OBVIOUS
<1>3. LobGood(w, s, b) /\ LobAsking(asks, s) /\ s \in [Member -> LobScreen]
  BY <1>2 DEF LobAll, LobGood
<1>4. /\ o \in LobScreen /\ o.level = "game" /\ o.seats = s[p].seats /\ o.ready = s[p].ready /\ o.button = s[p].button
      /\ o.invitation = s[p].invitation
  BY <1>2, <1>3 DEF LobScreen
<1>5. LobShown(o) = LobShown(s[p])
  BY <1>4 DEF LobShown
<1>6. LobGood(w, t, b)
  <2>1. s[p].level # "off" /\ o.level # "off" /\ o.level \in {"leaving", "game"}
    BY <1>1, <1>2, <1>4
  <2>2. t \in [Member -> LobScreen] /\ t[p] = o /\ \A y \in Member : y # p => t[y] = s[y]
    BY <1>2, <1>3, <1>4
  <2> QED BY <1>3, <1>4, <1>5, <2>1, <2>2, LobTurns
<1>7. t = screen'
  BY <1>1, <1>2, <1>3 DEF LobScreen
<1>8. LobAsking(asks', t)
  BY <1>2, <1>3, <1>1, <1>4 DEF LobAsking
<1> QED BY <1>1, <1>2, <1>6, <1>7, <1>8, LobQuiet

LobbyInv == part = "lobby" => Lob!LobbyInv

LEMMA LobInit ==
    ASSUME Lob!Init
    PROVE  Lob!LobbyInv
<1>1. /\ parties = {Lob!Room(<<p>>, "LOBBY") : p \in Member} /\ status = [p \in Member |-> "LOBBY"]
      /\ asks = [p \in Member |-> << >>] /\ mail = [p \in Member |-> << >>]
      /\ screen = [p \in Member |-> Lob!BeginPlay(p)]
  BY DEF Lob!Init
<1>2. PICK w, s : w = Lob!World /\ s = screen
  OBVIOUS
<1>3. w.parties = parties /\ w.status = status /\ w.mail = mail
  BY <1>2 DEF Lob!World
<1>4. \A p \in Member : /\ Lob!Room(<<p>>, "LOBBY") \in LobRoom /\ Lob!Room(<<p>>, "LOBBY").seats = <<p>>
                        /\ Lob!Room(<<p>>, "LOBBY").state = "LOBBY"
  BY LobSeats DEF Lob!Room, LobRoom, Lob!State
<1>5. \A p \in Member : /\ s[p] \in LobScreen /\ s[p].level = "lobby" /\ s[p].seats = <<p>> /\ s[p].ready = {} /\ s[p].button = FALSE
                        /\ s[p].invitation = NoOne
  BY <1>1, <1>2, LobSeats DEF Lob!BeginPlay, LobScreen
<1>6. w \in LobWorld
  <2>1. parties \in SUBSET LobRoom
    BY <1>1, <1>4
  <2>2. status \in [Member -> Lob!State] /\ mail \in [Member -> Seq(Lob!Message)]
    BY <1>1 DEF Lob!State
  <2> QED BY <1>2, <2>1, <2>2 DEF Lob!World, LobWorld
<1>7. s \in [Member -> LobScreen]
  BY <1>1, <1>2, <1>5
<1>8. LobApart(w.parties)
  <2> SUFFICES ASSUME NEW r \in parties, NEW q \in parties, Lob!Range(r.seats) \cap Lob!Range(q.seats) # {}
               PROVE  r = q
    BY <1>3 DEF LobApart
  <2>1. PICK p \in Member : r = Lob!Room(<<p>>, "LOBBY")
    BY <1>1
  <2>2. PICK y \in Member : q = Lob!Room(<<y>>, "LOBBY")
    BY <1>1
  <2>3. Lob!Range(r.seats) = {p} /\ Lob!Range(q.seats) = {y}
    BY <1>4, <2>1, <2>2, LobSeats
  <2> QED BY <2>1, <2>2, <2>3
<1>9. ASSUME NEW p \in Member
      PROVE  /\ Lob!HasRoom(w, p) /\ Lob!GetRoom(w, p).seats = <<p>>
             /\ LobSees(w, s[p], p) /\ LobHears(w, p) /\ LobRight(w, s[p], p)
  <2>1. LobSits(w.parties, Lob!Room(<<p>>, "LOBBY"), p)
    <3>1. Lob!Room(<<p>>, "LOBBY") \in w.parties
      BY <1>1, <1>3
    <3>2. p \in Lob!Range(<<p>>)
      BY LobSeats
    <3> QED BY <1>4, <3>1, <3>2 DEF LobSits
  <2>2. Lob!HasRoom(w, p) /\ Lob!GetRoom(w, p) = Lob!Room(<<p>>, "LOBBY")
    BY <1>6, <1>8, <2>1, LobHome
  <2>3. w.mail[p] = << >> /\ w.status[p] = "LOBBY" /\ Lob!GetRoom(w, p).seats = <<p>>
    BY <1>1, <1>3, <1>4, <2>2
  <2>4. \A i \in DOMAIN << >> : FALSE
    OBVIOUS
  <2>5. LobSees(w, s[p], p) /\ LobHears(w, p)
    BY <1>5, <2>3, <2>4 DEF LobSees, LobHears, Lob!Ends
  <2>6. PICK v : v = LobShown(s[p])
    OBVIOUS
  <2>7. v.seats = <<p>> /\ v.ready = {} /\ v.button = FALSE
    BY <1>5, <2>6 DEF LobShown
  <2>8. v \in Lob!View
    BY <1>5, <2>6 DEF LobShown, LobScreen, Lob!View
  <2>9. Lob!Leads(p, v, << >>, v)
    BY <2>8, LobLeadsNone
  <2>10. v.button = (w.status[p] = "READY")
    BY <2>3, <2>7
  <2>11. Lob!Fits(w, p, v)
    BY <2>3, <2>7, <2>10 DEF Lob!Fits
  <2>12. LobRight(w, s[p], p)
    BY <2>3, <2>6, <2>8, <2>9, <2>11 DEF LobRight
  <2> QED BY <2>2, <2>3, <2>5, <2>12
<1>10. LobAble(w)
  <2>1. ASSUME NEW r \in parties
        PROVE  r.state = "LOBBY"
    <3>1. PICK p \in Member : r = Lob!Room(<<p>>, "LOBBY")
      BY <1>1
    <3> QED BY <1>4, <3>1
  <2> QED BY <1>3, <2>1 DEF LobAble
<1>11. LobGood(w, s, "Batch" \notin may)
  BY <1>5, <1>6, <1>7, <1>8, <1>9, <1>10 DEF LobGood
<1>12. LobAsking(asks, s)
  BY ClientAssumption, <1>1, <1>5 DEF ClientAssumption, Lob!LobbyAssumption, LobAsking
<1> QED BY <1>2, <1>11, <1>12, LobIs DEF LobAll

LEMMA LobStep == LobbyInv /\ [Next]_vars => LobbyInv'
<1> SUFFICES ASSUME LobbyInv, [Next]_vars, part' = "lobby"
             PROVE  Lob!LobbyInv'
  BY DEF LobbyInv
<1>1. LobAll' => Lob!LobbyInv'
  BY LobIs, PTL
<1>2. CASE UNCHANGED vars
  BY <1>2, LobIs, <1>1 DEF vars, LobbyInv, lobbyOnly, Lob!World, LobAll
<1>3. CASE Next
  <2>1. part = "lobby" /\ Lob!Next
    BY <1>3 DEF Next
  <2>2. LobAll
    BY <2>1, LobIs DEF LobbyInv
  <2> QED
    BY <1>1, <2>1, <2>2, LobUpdate, LobMatchRequest, LobFriendKickRequest, LobSetPartyKing, LobInviteFriendRequest,
       LobInviteFriendAnswer, LobLeave, LobAskings, LobRoomInfo, LobMatchAnswer, LobOthers, LobOnGameStart DEF Lob!Next
<1> QED BY <1>2, <1>3

LEMMA LobAgrees == Lob!LobbyInv => Lob!ScreensAgree
<1> SUFFICES ASSUME LobAll, NEW p \in Member, screen[p].level \in {"lobby", "game"}, mail[p] = << >>
             PROVE  /\ screen[p].seats = Lob!GetRoom(Lob!World, p).seats
                    /\ screen[p].level = "lobby" /\ "Batch" \notin may =>
                         /\ screen[p].button = (status[p] = "READY")
                         /\ \A i \in screen[p].ready : status[screen[p].seats[i]] = "READY"
  BY LobIs DEF Lob!ScreensAgree
<1>1. PICK w, c : w = Lob!World /\ c = screen[p]
  OBVIOUS
<1>2. w.mail[p] = << >> /\ w.status = status
  BY <1>1 DEF Lob!World
<1>3. LobSees(w, c, p) /\ ("Batch" \notin may => LobRight(w, c, p)) /\ c \in LobScreen
  BY <1>1 DEF LobAll, LobGood
<1>4. \A i \in DOMAIN << >> : FALSE
  OBVIOUS
<1>5. c.seats = Lob!GetRoom(w, p).seats
  BY <1>2, <1>3, <1>4 DEF LobSees, Lob!Ends
<1>6. ASSUME c.level = "lobby", "Batch" \notin may
      PROVE  /\ c.button = (status[p] = "READY")
             /\ \A i \in c.ready : status[c.seats[i]] = "READY"
  <2>1. ~LobStarted(w, c, p)
    BY <1>2, <1>4, <1>6 DEF LobStarted
  <2>2. PICK v \in Lob!View : Lob!Leads(p, LobShown(c), << >>, v) /\ Lob!Fits(w, p, v)
    BY <1>2, <1>3, <1>6, <2>1 DEF LobRight
  <2>3. LobShown(c) \in Lob!View
    BY <1>3 DEF LobShown, LobScreen, Lob!View
  <2>4. v = LobShown(c)
    BY <2>2, <2>3, LobLeadsNone
  <2>5. v.seats = c.seats /\ v.ready = c.ready /\ v.button = c.button
    BY <2>4 DEF LobShown
  <2> QED BY <1>2, <2>2, <2>5 DEF Lob!Fits
<1> QED BY <1>1, <1>5, <1>6

\* Lobby: whatever players ask of each other, and whoever leaves, a client that has handled all its messages
\* shows the seats of its party as the server has them; without Batch also its own button, and nobody as ready
\* who is not.
THEOREM ScreensAgreeHolds == Spec => []ScreensAgree
<1>1. Init => LobbyInv
  BY LobInit DEF Init, LobbyInv
<1>2. LobbyInv /\ [Next]_vars => LobbyInv'
  BY LobStep
<1>3. LobbyInv => ScreensAgree
  BY LobAgrees DEF LobbyInv, ScreensAgree
<1>4. Spec => Init /\ [][Next]_vars
  BY PTL DEF Spec
<1> QED
  BY <1>1, <1>2, <1>3, <1>4, PTL

(***************************************************************************)
(* The packets in what the server sent (ClientStream, Framing).            *)
(***************************************************************************)
StrByte == [packet : Nat, at : Nat, len : Nat]
StrLens == Seq(0 .. BufSize) \ {<< >>}

LEMMA StrLeast ==
    ASSUME NEW T, T \subseteq Nat, T # {}
    PROVE  \E x \in T : \A y \in T : x <= y
<1> DEFINE R == OpToRel(<, Nat)
<1>1. IsWellFoundedOn(R, Nat)
  BY NatLessThanWellFounded
<1>2. \A x, y \in Nat : y < x => <<y, x>> \in R
  BY DEF OpToRel
<1> HIDE DEF R
<1>3. PICK x \in T : \A y \in T : ~ (<<y, x>> \in R)
  BY <1>1, WFMin
<1>4. \A y \in T : ~ (y < x)
  BY <1>2, <1>3
<1> QED BY <1>3, <1>4

LEMMA StrSizes == LengthSize \in Nat /\ LengthSize >= 1 /\ BufSize \in Nat /\ LengthSize < BufSize
  BY ClientAssumption DEF ClientAssumption, Stream!SizeAssumption

\* One after the other.
StrJoined(seqs, f) == f[1] = seqs[1] /\ \A i \in 2 .. Len(seqs) : f[i] = f[i - 1] \o seqs[i]

\* FlattenSeq is defined: its recursion ends, as a least number where it did not would have one before it.
LEMMA StrFlatten ==
    ASSUME NEW seqs, Len(seqs) \in Nat, Len(seqs) >= 1
    PROVE  \E f : StrJoined(seqs, f) /\ Stream!FlattenSeq(seqs) = f[Len(seqs)]
<1> DEFINE n == Len(seqs)
           Upto(f, l) == f = [i \in 1 .. l |-> IF i = 1 THEN seqs[i] ELSE f[i - 1] \o seqs[i]]
           T == {l \in Nat : l >= 1 /\ ~ \E f : Upto(f, l)}
<1>1. \E f : Upto(f, 1)
  <2>1. PICK f : f = [i \in {1} |-> seqs[1]]
    OBVIOUS
  <2>2. 1 .. 1 = {1}
    OBVIOUS
  <2>3. Upto(f, 1)
    BY <2>1, <2>2
  <2> QED BY <2>3
<1>2. ASSUME NEW l \in Nat, l >= 1, NEW f, Upto(f, l)
      PROVE  \E g : Upto(g, l + 1)
  <2>1. PICK g : g = [i \in 1 .. l + 1 |-> IF i = l + 1 THEN f[l] \o seqs[l + 1] ELSE f[i]]
    OBVIOUS
  <2>2. \A i \in 1 .. l : f[i] = IF i = 1 THEN seqs[i] ELSE f[i - 1] \o seqs[i]
    BY <1>2
  <2>3. \A i \in 1 .. l : g[i] = f[i]
    BY <2>1
  <2>4. g[l + 1] = g[l] \o seqs[l + 1]
    <3>1. l \in 1 .. l /\ l + 1 \in 1 .. l + 1
      BY <1>2
    <3> QED BY <2>1, <2>3, <3>1
  <2>5. ASSUME NEW i \in 1 .. l + 1
        PROVE  g[i] = IF i = 1 THEN seqs[i] ELSE g[i - 1] \o seqs[i]
    <3>1. CASE i = l + 1
      <4>1. i - 1 = l /\ i # 1
        BY <1>2, <3>1
      <4> QED BY <2>4, <3>1, <4>1
    <3>2. CASE i # l + 1
      BY <3>2, <2>2, <2>3
    <3> QED BY <3>1, <3>2
  <2>6. g = [i \in 1 .. l + 1 |-> g[i]]
    BY <2>1
  <2>7. Upto(g, l + 1)
    BY <2>5, <2>6
  <2> QED BY <2>7
<1>3. \A l \in Nat : l >= 1 => \E f : Upto(f, l)
  <2> SUFFICES ASSUME T # {} PROVE FALSE
    OBVIOUS
  <2>1. PICK l \in T : \A h \in T : l <= h
    <3>1. T \subseteq Nat
      OBVIOUS
    <3> HIDE DEF T
    <3> QED BY <3>1, StrLeast
  <2>2. l \in Nat /\ l >= 1 /\ l # 1
    BY ZenonT(60), <1>1, <2>1
  <2>3. l - 1 \in Nat /\ l - 1 >= 1 /\ (l - 1) + 1 = l /\ ~(l <= l - 1)
    BY <2>2
  <2>4. \E f : Upto(f, l - 1)
    BY <2>1, <2>3
  <2>5. \E f : Upto(f, (l - 1) + 1)
    BY <1>2, <2>3, <2>4
  <2> QED BY <2>1, <2>3, <2>5
<1>4. \E f : Upto(f, n)
  BY <1>3
<1>5. PICK f : f = CHOOSE g : Upto(g, n)
  OBVIOUS
<1>6. Upto(f, n)
  BY <1>4, <1>5
<1>7. Stream!FlattenSeq(seqs) = f[n]
  BY <1>5 DEF Stream!FlattenSeq
<1>8. StrJoined(seqs, f)
  <2>1. \A i \in 1 .. n : f[i] = IF i = 1 THEN seqs[i] ELSE f[i - 1] \o seqs[i]
    BY <1>6
  <2>2. \A i \in 2 .. n : i \in 1 .. n /\ i # 1
    OBVIOUS
  <2>3. 1 \in 1 .. n
    OBVIOUS
  <2> QED BY <2>1, <2>2, <2>3 DEF StrJoined
<1> QED BY <1>7, <1>8

\* The stream s is made of packets of these lengths: the p-th ends at st[p].
StrSize(lens1, p) == LengthSize + lens1[p]
StrByteOf(lens1, p, i) == [packet |-> p, at |-> i, len |-> lens1[p]]
StrLaid(lens1, s, st) ==
    /\ s \in Seq(StrByte) /\ st \in [0 .. Len(lens1) -> Nat] /\ st[0] = 0 /\ st[Len(lens1)] = Len(s)
    /\ \A p \in 1 .. Len(lens1) :
         /\ st[p] = st[p - 1] + StrSize(lens1, p)
         /\ \A i \in 1 .. StrSize(lens1, p) : s[st[p - 1] + i] = StrByteOf(lens1, p, i)

\* A packet as a sequence.
LEMMA StrPacket ==
    ASSUME NEW lens1 \in StrLens, NEW p \in 1 .. Len(lens1)
    PROVE  /\ Len(lens1) \in Nat /\ lens1[p] \in 0 .. BufSize /\ StrSize(lens1, p) \in Nat /\ StrSize(lens1, p) >= LengthSize
           /\ Stream!Packets(lens1)[p] \in Seq(StrByte)
           /\ Len(Stream!Packets(lens1)[p]) = StrSize(lens1, p)
           /\ \A i \in 1 .. StrSize(lens1, p) : Stream!Packets(lens1)[p][i] = StrByteOf(lens1, p, i)
           /\ Stream!Packets(lens1)[p] = [i \in 1 .. StrSize(lens1, p) |-> StrByteOf(lens1, p, i)]
<1>1. Len(lens1) \in Nat /\ lens1[p] \in 0 .. BufSize /\ DOMAIN lens1 = 1 .. Len(lens1)
  <2>1. PICK R : R = 0 .. BufSize
    OBVIOUS
  <2>2. lens1 \in Seq(R)
    BY <2>1 DEF StrLens
  <2>3. Len(lens1) \in Nat /\ lens1[p] \in R /\ DOMAIN lens1 = 1 .. Len(lens1)
    BY <2>2
  <2> QED BY <2>1, <2>3
<1>2. StrSize(lens1, p) \in Nat /\ StrSize(lens1, p) >= LengthSize
  BY <1>1, StrSizes DEF StrSize
<1>3. Stream!Packets(lens1)[p] = [i \in 1 .. StrSize(lens1, p) |-> StrByteOf(lens1, p, i)]
  BY <1>1 DEF Stream!Packets, Stream!Packet, StrSize, StrByteOf
<1>4. PICK n \in Nat : n = StrSize(lens1, p)
  BY <1>2
<1>5. \A i \in 1 .. n : StrByteOf(lens1, p, i) \in StrByte
  BY <1>1 DEF StrByteOf, StrByte
<1>6. PICK q : q = [i \in 1 .. n |-> StrByteOf(lens1, p, i)]
  OBVIOUS
<1>7. q \in Seq(StrByte) /\ Len(q) = n /\ \A i \in 1 .. n : q[i] = StrByteOf(lens1, p, i)
  BY <1>5, <1>6
<1> QED BY <1>1, <1>2, <1>3, <1>4, <1>6, <1>7

\* The stream of a connection is.
LEMMA StrLays ==
    ASSUME NEW lens1 \in StrLens
    PROVE  \E st : StrLaid(lens1, Stream!Stream(lens1), st)
<1>1. PICK n \in Nat : n = Len(lens1) /\ n >= 1 /\ DOMAIN lens1 = 1 .. n
  BY DEF StrLens
<1>2. PICK seqs : seqs = Stream!Packets(lens1)
  OBVIOUS
<1>3. Len(seqs) = n
  <2>1. seqs = [p \in 1 .. n |-> Stream!Packet(p, lens1[p])]
    BY <1>1, <1>2 DEF Stream!Packets
  <2>2. PICK R : \A p \in 1 .. n : Stream!Packet(p, lens1[p]) \in R
    <3>1. \A p \in 1 .. n : Stream!Packet(p, lens1[p]) \in {Stream!Packet(j, lens1[j]) : j \in 1 .. n}
      OBVIOUS
    <3> QED BY <3>1
  <2>3. seqs \in [1 .. n -> R]
    BY <2>1, <2>2
  <2> QED BY <2>1, <2>3
<1>4. PICK f : StrJoined(seqs, f) /\ Stream!FlattenSeq(seqs) = f[n]
  BY <1>1, <1>3, StrFlatten
<1>5. f[1] = seqs[1] /\ \A i \in 2 .. n : f[i] = f[i - 1] \o seqs[i]
  BY <1>3, <1>4 DEF StrJoined
<1>6. PICK st : st = [p \in 0 .. n |-> IF p = 0 THEN 0 ELSE Len(f[p])]
  OBVIOUS
<1>7. st[0] = 0 /\ \A p \in 1 .. n : st[p] = Len(f[p])
  BY <1>1, <1>6
<1> DEFINE size(p) == StrSize(lens1, p)
           byte(p, i) == StrByteOf(lens1, p, i)
           Good(i) == /\ f[i] \in Seq(StrByte)
                      /\ \A p \in 0 .. i : st[p] \in Nat /\ st[p] <= st[i]
                      /\ \A p \in 1 .. i : /\ st[p] = st[p - 1] + size(p)
                                           /\ \A x \in 1 .. size(p) : f[i][st[p - 1] + x] = byte(p, x)
           T == {i \in 1 .. n : ~Good(i)}
<1>8. ASSUME NEW p \in 1 .. n
      PROVE  /\ size(p) \in Nat /\ seqs[p] \in Seq(StrByte) /\ Len(seqs[p]) = size(p)
             /\ \A i \in 1 .. size(p) : seqs[p][i] = byte(p, i)
  BY <1>1, <1>2, StrPacket
<1> HIDE DEF size, byte
<1>9. Good(1)
  BY <1>1, <1>5, <1>7, <1>8
<1>10. ASSUME NEW i \in 2 .. n, Good(i - 1)
       PROVE  Good(i)
  <2>1. i \in 1 .. n /\ i - 1 \in 1 .. n /\ i \in Nat
    BY <1>1
  <2>2. PICK a \in Seq(StrByte) : a = f[i - 1]
    BY <1>10
  <2>3. PICK b \in Seq(StrByte) : b = seqs[i]
    BY <1>8, <2>1
  <2>4. f[i] = a \o b
    BY <1>5, <2>2, <2>3
  <2>5. /\ f[i] \in Seq(StrByte) /\ Len(f[i]) = Len(a) + Len(b)
        /\ \A j \in 1 .. Len(a) + Len(b) : f[i][j] = IF j <= Len(a) THEN a[j] ELSE b[j - Len(a)]
    BY <2>4, ConcatProperties
  <2>6. /\ Len(a) = st[i - 1] /\ Len(b) = size(i) /\ st[i] = st[i - 1] + size(i)
        /\ st[i - 1] \in Nat /\ size(i) \in Nat
    <3>1. Len(a) = st[i - 1] /\ st[i] = Len(f[i])
      BY <1>7, <2>1, <2>2
    <3>2. Len(b) = size(i) /\ size(i) \in Nat
      BY <1>8, <2>1, <2>3
    <3>3. Len(a) \in Nat /\ Len(f[i]) = Len(a) + Len(b)
      BY <2>5
    <3> QED BY <3>1, <3>2, <3>3
  <2>7. \A p \in 0 .. i : st[p] \in Nat /\ st[p] <= st[i]
    BY <2>1, <1>10, <2>6
  <2>8. ASSUME NEW p \in 1 .. i - 1
        PROVE  /\ st[p] = st[p - 1] + size(p)
               /\ \A x \in 1 .. size(p) : f[i][st[p - 1] + x] = byte(p, x)
    <3>1. /\ st[p] = st[p - 1] + size(p) /\ st[p] <= st[i - 1] /\ st[p - 1] \in Nat /\ st[p] \in Nat
          /\ \A x \in 1 .. size(p) : a[st[p - 1] + x] = byte(p, x)
      <4>1. p \in 0 .. i - 1 /\ p - 1 \in 0 .. i - 1
        BY <2>1
      <4> QED BY <1>10, <2>2, <4>1
    <3>2. size(p) \in Nat
      BY <1>8, <2>1
    <3>3. \A x \in 1 .. size(p) : st[p - 1] + x \in 1 .. Len(a) + Len(b) /\ st[p - 1] + x <= Len(a)
      BY SMTT(60), <2>6, <3>1, <3>2
    <3> QED BY <2>5, <3>1, <3>3
  <2>9. \A x \in 1 .. size(i) : f[i][st[i - 1] + x] = byte(i, x)
    <3> SUFFICES ASSUME NEW x \in 1 .. size(i)
                 PROVE  f[i][st[i - 1] + x] = byte(i, x)
      OBVIOUS
    <3>1. b[x] = byte(i, x)
      BY <1>8, <2>1, <2>3
    <3>2. PICK j \in 1 .. Len(a) + Len(b) : j = st[i - 1] + x /\ ~(j <= Len(a)) /\ j - Len(a) = x
      <4>1. PICK y \in Nat : y = st[i - 1] /\ y = Len(a)
        BY <2>6
      <4>2. PICK z \in Nat : z = size(i) /\ z = Len(b)
        BY <2>6
      <4>3. y + x \in 1 .. y + z /\ ~(y + x <= y) /\ y + x - y = x
        BY <4>2
      <4> QED BY <4>1, <4>2, <4>3
    <3>3. f[i][j] = b[j - Len(a)]
      BY <2>5, <3>2
    <3> QED BY <3>1, <3>2, <3>3
  <2>10. \A p \in 1 .. i : p \in 1 .. i - 1 \/ p = i
    BY <2>1
  <2> QED BY <2>5, <2>6, <2>7, <2>8, <2>9, <2>10
<1>11. Good(n)
  <2> SUFFICES ASSUME T # {} PROVE FALSE
    BY <1>1
  <2>1. PICK i \in T : \A h \in T : i <= h
    <3>1. T \subseteq Nat
      OBVIOUS
    <3> HIDE DEF T
    <3> QED BY <3>1, StrLeast
  <2>2. i \in 1 .. n /\ i # 1 /\ ~Good(i)
    BY <1>9, <2>1
  <2>3. i \in 2 .. n /\ i - 1 \in 1 .. n /\ ~(i <= i - 1)
    BY <2>2
  <2>4. Good(i - 1)
    BY <2>1, <2>3
  <2> QED BY <1>10, <2>2, <2>3, <2>4
<1>12. PICK s : s = f[n]
  OBVIOUS
<1>13. s = Stream!Stream(lens1)
  BY <1>2, <1>4, <1>12 DEF Stream!Stream
<1>14. StrLaid(lens1, s, st)
  <2>1. st \in [0 .. n -> Nat]
    BY <1>11, <1>6
  <2>2. s \in Seq(StrByte) /\ st[n] = Len(s)
    BY <1>1, <1>7, <1>11, <1>12
  <2>3. \A p \in 1 .. n : /\ st[p] = st[p - 1] + StrSize(lens1, p)
                          /\ \A x \in 1 .. StrSize(lens1, p) : s[st[p - 1] + x] = StrByteOf(lens1, p, x)
    BY <1>11, <1>12 DEF size, byte
  <2> QED BY <1>1, <1>7, <2>1, <2>2, <2>3 DEF StrLaid
<1> QED BY <1>13, <1>14

\* What Walk does at cursor c.
StrStep(buf, n, junk, w, c) ==
    LET len == Stream!LengthAt(buf, c, junk)
        next == c + LengthSize + len
    IN  IF c >= n THEN [stop |-> "end", at |-> c, found |-> << >>]
        ELSE IF Stream!BadLength(len) THEN [stop |-> "bad", at |-> c, found |-> << >>]
        ELSE IF next > n THEN [stop |-> "cut", at |-> c, found |-> << >>]
        ELSE [w[next] EXCEPT !.found = << SubSeq(buf, c + 1, next) >> \o @]

\* Walk is defined: the cursor goes on until it is behind the buffer.
LEMMA StrWalkIs ==
    ASSUME NEW buf \in Seq(StrByte), NEW n \in Nat, NEW junk \in Int
    PROVE  \E w : /\ \A c \in Nat : w[c] = StrStep(buf, n, junk, w, c)
                  /\ Stream!Walk(buf, n, junk) = w[0]
<1> DEFINE len(c) == Stream!LengthAt(buf, c, junk)
           Step(w, c) ==
               IF c >= n THEN [stop |-> "end", at |-> c, found |-> << >>]
               ELSE IF Stream!BadLength(len(c)) THEN [stop |-> "bad", at |-> c, found |-> << >>]
               ELSE IF c + LengthSize + len(c) > n THEN [stop |-> "cut", at |-> c, found |-> << >>]
               ELSE [w[c + LengthSize + len(c)] EXCEPT
                        !.found = << SubSeq(buf, c + 1, c + LengthSize + len(c)) >> \o @]
           Behind(l) == {c \in Nat : c + l >= n}
           Upto(w, l) == w = [c \in Behind(l) |-> Step(w, c)]
           T == {l \in Nat : ~ \E w : Upto(w, l)}
<1>1. ASSUME NEW c \in Nat
      PROVE  len(c) \in Int
  <2>1. ASSUME c + LengthSize <= Len(buf)
        PROVE  buf[c + 1].len \in Int
    <3>1. c + 1 \in 1 .. Len(buf)
      BY <2>1, StrSizes
    <3>2. buf[c + 1] \in StrByte
      BY <3>1
    <3> QED BY <3>2 DEF StrByte
  <2> QED BY <2>1 DEF Stream!LengthAt
<1>2. ASSUME NEW c \in Nat, ~Stream!BadLength(len(c))
      PROVE  c + LengthSize + len(c) \in Nat /\ c + LengthSize + len(c) > c
  BY <1>1, <1>2, StrSizes DEF Stream!BadLength
<1> HIDE DEF len
<1>3. ASSUME NEW w, NEW v, NEW c \in Nat,
             ~Stream!BadLength(len(c)) => w[c + LengthSize + len(c)] = v[c + LengthSize + len(c)]
      PROVE  Step(w, c) = Step(v, c)
  BY <1>3
<1>4. \E w : Upto(w, 0)
  <2>1. PICK w : w = [c \in Behind(0) |-> [stop |-> "end", at |-> c, found |-> << >>]]
    OBVIOUS
  <2>2. \A c \in Behind(0) : c >= n
    OBVIOUS
  <2>3. Upto(w, 0)
    BY <2>1, <2>2
  <2> QED BY <2>3
<1>5. ASSUME NEW l \in Nat, NEW w, Upto(w, l)
      PROVE  \E v : Upto(v, l + 1)
  <2> HIDE DEF Step
  <2>1. PICK v : v = [c \in Behind(l + 1) |-> IF c + l >= n THEN w[c] ELSE Step(w, c)]
    OBVIOUS
  <2>2. ASSUME NEW c \in Behind(l)
        PROVE  c \in Behind(l + 1) /\ w[c] = Step(w, c) /\ v[c] = w[c]
    <3>1. c \in Nat /\ c + l >= n /\ c \in Behind(l + 1)
      OBVIOUS
    <3> HIDE DEF Behind
    <3> QED BY <1>5, <2>1, <3>1
  <2>3. ASSUME NEW c \in Behind(l + 1)
        PROVE  v[c] = Step(v, c)
    <3>1. v[c] = Step(w, c)
      BY <2>1, <2>2
    <3>2. ASSUME ~Stream!BadLength(len(c))
          PROVE  c + LengthSize + len(c) \in Behind(l)
      BY <1>2, <3>2
    <3>3. Step(w, c) = Step(v, c)
      BY <1>3, <2>2, <3>2
    <3> QED BY <3>1, <3>3
  <2>4. v = [c \in Behind(l + 1) |-> v[c]]
    BY <2>1
  <2>5. Upto(v, l + 1)
    BY <2>3, <2>4
  <2> QED BY <2>5
<1> HIDE DEF Step
<1>6. \A l \in Nat : \E w : Upto(w, l)
  <2> SUFFICES ASSUME T # {} PROVE FALSE
    OBVIOUS
  <2>1. PICK l \in T : \A h \in T : l <= h
    <3>1. T \subseteq Nat
      OBVIOUS
    <3> HIDE DEF T
    <3> QED BY <3>1, StrLeast
  <2>2. l \in Nat /\ l # 0
    BY <1>4, <2>1
  <2>3. l - 1 \in Nat /\ (l - 1) + 1 = l /\ ~(l <= l - 1)
    BY <2>2
  <2>4. \E w : Upto(w, l - 1)
    BY <2>1, <2>3
  <2>5. \E w : Upto(w, (l - 1) + 1)
    BY <1>5, <2>3, <2>4
  <2> QED BY <2>1, <2>3, <2>5
<1>7. Behind(n) = Nat
  OBVIOUS
<1> DEFINE All(w) == w = [c \in Nat |-> Step(w, c)]
<1>8. \E w : All(w)
  BY <1>6, <1>7
<1>9. PICK w : w = CHOOSE v : All(v)
  OBVIOUS
<1>10. All(w)
  BY <1>8, <1>9
<1>11. Stream!Walk(buf, n, junk) = w[0]
  BY SMTT(60), <1>9 DEF Stream!Walk, Step, len
<1>12. ASSUME NEW c \in Nat
       PROVE  w[c] = StrStep(buf, n, junk, w, c)
  BY <1>10 DEF StrStep, Step, len
<1> QED BY <1>11, <1>12

\* buf has the bytes of s from behind a to b.
StrCut(buf, s, a, b) ==
    buf \in Seq(StrByte) /\ Len(buf) = b - a /\ \A i \in 1 .. b - a : buf[i] = s[a + i]

\* Pieces of the stream are cut and put together.
LEMMA StrCuts ==
    ASSUME NEW s, NEW buf, NEW a \in Nat, NEW b \in Nat, a <= b, StrCut(buf, s, a, b),
           NEW c \in Nat, NEW d \in Nat, c <= d, d <= b - a
    PROVE  StrCut(SubSeq(buf, c + 1, d), s, a + c, a + d)
<1>1. buf \in Seq(StrByte) /\ Len(buf) = b - a /\ \A i \in 1 .. b - a : buf[i] = s[a + i]
  BY DEF StrCut
<1>2. PICK q : q = SubSeq(buf, c + 1, d)
  OBVIOUS
<1>3. /\ q \in Seq(StrByte) /\ Len(q) = (IF c + 1 <= d THEN d - (c + 1) + 1 ELSE 0)
      /\ \A i \in 1 .. d - (c + 1) + 1 : q[i] = buf[(c + 1) + i - 1]
  BY <1>1, <1>2, SubSeqProperties
<1>4. d - (c + 1) + 1 = d - c /\ (~(c + 1 <= d) => d - c = 0) /\ (a + d) - (a + c) = d - c
  OBVIOUS
<1>5. ASSUME NEW i \in 1 .. d - c
      PROVE  q[i] = s[(a + c) + i]
  BY <1>3, <1>4, <1>1
<1> QED BY <1>2, <1>3, <1>4, <1>5 DEF StrCut

LEMMA StrWhole ==
    ASSUME NEW s \in Seq(StrByte)
    PROVE  StrCut(s, s, 0, Len(s))
  BY DEF StrCut

LEMMA StrConcat ==
    ASSUME NEW s, NEW x, NEW y, NEW a \in Nat, NEW b \in Nat, NEW c \in Nat, a <= b, b <= c,
           StrCut(x, s, a, b), StrCut(y, s, b, c)
    PROVE  StrCut(x \o y, s, a, c)
<1>1. /\ x \in Seq(StrByte) /\ Len(x) = b - a /\ (\A i \in 1 .. b - a : x[i] = s[a + i])
      /\ y \in Seq(StrByte) /\ Len(y) = c - b /\ (\A i \in 1 .. c - b : y[i] = s[b + i])
  BY DEF StrCut
<1>2. PICK q : q = x \o y
  OBVIOUS
<1>3. /\ q \in Seq(StrByte) /\ Len(q) = Len(x) + Len(y)
      /\ \A i \in 1 .. Len(x) + Len(y) : q[i] = IF i <= Len(x) THEN x[i] ELSE y[i - Len(x)]
  BY <1>1, <1>2, ConcatProperties
<1>4. Len(x) + Len(y) = c - a
  BY <1>1
<1>5. ASSUME NEW i \in 1 .. c - a
      PROVE  q[i] = s[a + i]
  <2>1. CASE i <= b - a
    BY <1>1, <1>3, <1>4, <2>1
  <2>2. CASE ~(i <= b - a)
    <3>1. PICK j \in 1 .. c - b : j = i - (b - a) /\ b + j = a + i
      BY <2>2
    <3>2. q[i] = y[j]
      BY <1>1, <1>3, <1>4, <2>2, <3>1
    <3> QED BY <1>1, <3>1, <3>2
  <2> QED BY <2>1, <2>2
<1> QED BY <1>2, <1>3, <1>4, <1>5 DEF StrCut

LEMMA StrSame ==
    ASSUME NEW s, NEW x, NEW y, NEW a \in Nat, NEW b \in Nat, a <= b, StrCut(x, s, a, b), StrCut(y, s, a, b)
    PROVE  x = y
  BY SeqEqual DEF StrCut

\* The packets of the stream.
LEMMA StrPlace ==
    ASSUME NEW lens1 \in StrLens, NEW s, NEW st, StrLaid(lens1, s, st), NEW p \in 1 .. Len(lens1)
    PROVE  /\ st[p] \in Nat /\ st[p - 1] \in Nat /\ st[p] = st[p - 1] + StrSize(lens1, p)
           /\ StrCut(Stream!Packets(lens1)[p], s, st[p - 1], st[p])
<1>1. p - 1 \in 0 .. Len(lens1) /\ p \in 0 .. Len(lens1)
  BY StrPacket
<1>2. /\ st[p] \in Nat /\ st[p - 1] \in Nat /\ st[p] = st[p - 1] + StrSize(lens1, p)
      /\ \A i \in 1 .. StrSize(lens1, p) : s[st[p - 1] + i] = StrByteOf(lens1, p, i)
  BY <1>1 DEF StrLaid
<1>3. PICK q : q = Stream!Packets(lens1)[p]
  OBVIOUS
<1>4. /\ q \in Seq(StrByte) /\ Len(q) = StrSize(lens1, p) /\ StrSize(lens1, p) \in Nat
      /\ \A i \in 1 .. StrSize(lens1, p) : q[i] = StrByteOf(lens1, p, i)
  BY <1>3, StrPacket
<1>5. st[p] - st[p - 1] = StrSize(lens1, p)
  BY <1>2, <1>4
<1> QED BY <1>2, <1>3, <1>4, <1>5 DEF StrCut

LEMMA StrMonotone ==
    ASSUME NEW lens1 \in StrLens, NEW s, NEW st, StrLaid(lens1, s, st), NEW p \in 0 .. Len(lens1), NEW q \in p .. Len(lens1)
    PROVE  st[p] \in Nat /\ st[q] \in Nat /\ st[p] <= st[q] /\ st[q] <= Len(s)
<1>1. /\ Len(lens1) \in Nat /\ st[Len(lens1)] = Len(s)
      /\ \A i \in 0 .. Len(lens1) : st[i] \in Nat
  BY DEF StrLaid, StrLens
<1>2. ASSUME NEW i \in 1 .. Len(lens1)
      PROVE  st[i - 1] <= st[i]
  <2>1. st[i] \in Nat /\ st[i - 1] \in Nat /\ st[i] = st[i - 1] + StrSize(lens1, i)
    BY StrPlace
  <2>2. StrSize(lens1, i) \in Nat
    BY StrPacket
  <2> QED BY <2>1, <2>2
<1>3. ASSUME NEW a \in 0 .. Len(lens1), NEW b \in a .. Len(lens1)
      PROVE  st[a] <= st[b]
  <2> DEFINE T == {i \in a .. Len(lens1) : ~(st[a] <= st[i])}
  <2> SUFFICES ASSUME T # {} PROVE FALSE
    OBVIOUS
  <2>1. PICK i \in T : \A h \in T : i <= h
    <3>1. T \subseteq Nat
      BY <1>1
    <3> HIDE DEF T
    <3> QED BY <3>1, StrLeast
  <2>2. i \in a .. Len(lens1) /\ ~(st[a] <= st[i])
    BY <2>1
  <2>3. i # a
    BY <1>1, <2>2
  <2>4. i - 1 \in a .. Len(lens1) /\ i \in 1 .. Len(lens1) /\ ~(i <= i - 1) /\ i \in 0 .. Len(lens1) /\ i - 1 \in 0 .. Len(lens1)
    BY <1>1, <2>2, <2>3
  <2>5. st[a] <= st[i - 1]
    BY <2>1, <2>4
  <2>6. st[i - 1] <= st[i] /\ st[i - 1] \in Nat /\ st[i] \in Nat /\ st[a] \in Nat
    BY <1>1, <1>2, <2>4
  <2> QED BY <2>2, <2>5, <2>6
<1>4. q \in 0 .. Len(lens1) /\ Len(lens1) \in q .. Len(lens1)
  BY <1>1
<1> QED BY <1>1, <1>3, <1>4

\* The first e bytes have the first q packets and a part of the next one, with its whole length field.
StrEnds(lens1, st, q, e) ==
    /\ q \in 0 .. Len(lens1) /\ e \in Nat /\ st[q] <= e /\ e <= st[Len(lens1)]
    /\ q < Len(lens1) => e < st[q + 1]
    /\ e = st[q] \/ e >= st[q] + LengthSize

\* A length field is read.
StrField(lens1, s, st, buf, a, e, r, c) ==
    /\ lens1 \in StrLens /\ StrLaid(lens1, s, st) /\ a \in Nat /\ e \in Nat /\ StrCut(buf, s, a, e)
    /\ r \in Nat /\ r < Len(lens1) /\ a <= st[r] /\ st[r] + LengthSize <= e /\ c = st[r] - a

LEMMA StrLength ==
    ASSUME NEW lens1, NEW s, NEW st, NEW buf, NEW junk, NEW a, NEW e, NEW r, NEW c, StrField(lens1, s, st, buf, a, e, r, c)
    PROVE  Stream!LengthAt(buf, c, junk) = lens1[r + 1]
<1>0. /\ lens1 \in StrLens /\ StrLaid(lens1, s, st) /\ a \in Nat /\ e \in Nat /\ StrCut(buf, s, a, e)
      /\ r \in Nat /\ r < Len(lens1) /\ a <= st[r] /\ st[r] + LengthSize <= e /\ c = st[r] - a
  BY DEF StrField
<1>1. r + 1 \in 1 .. Len(lens1) /\ (r + 1) - 1 = r /\ r \in 0 .. Len(lens1) /\ r \in r .. Len(lens1)
  BY <1>0 DEF StrLens
<1>2. lens1[r + 1] \in 0 .. BufSize /\ StrSize(lens1, r + 1) \in Nat
  BY <1>0, <1>1, StrPacket
<1>3. PICK x \in Nat : x = st[r]
  BY <1>0, <1>1, StrMonotone
<1>4. \A i \in 1 .. StrSize(lens1, r + 1) : s[x + i] = StrByteOf(lens1, r + 1, i)
  BY <1>0, <1>1, <1>3 DEF StrLaid
<1>5. c \in Nat /\ c = x - a /\ c + LengthSize <= e - a
  BY SMTT(60), <1>0, <1>3, StrSizes
<1>6. a \in Nat /\ e \in Nat /\ c + LengthSize <= e - a /\ a + c = x
  BY <1>0, <1>3, <1>5
<1>7. ASSUME NEW i \in 1 .. LengthSize
      PROVE  buf[c + i] = StrByteOf(lens1, r + 1, i)
  <2>1. c + i \in 1 .. e - a /\ a + (c + i) = x + i
    BY <1>5, <1>6, StrSizes
  <2>2. i \in 1 .. StrSize(lens1, r + 1)
    <3>1. PICK l \in Nat : l = lens1[r + 1] /\ StrSize(lens1, r + 1) = LengthSize + l
      BY <1>2 DEF StrSize
    <3> QED BY <3>1, StrSizes
  <2>3. buf[c + i] = s[a + (c + i)]
    BY <1>0, <2>1 DEF StrCut
  <2> QED BY <1>0, <1>4, <2>1, <2>2, <2>3
<1>8. 1 \in 1 .. LengthSize
  BY <1>0, StrSizes
<1>9. buf[c + 1] = StrByteOf(lens1, r + 1, 1)
  BY <1>0, <1>7, <1>8
<1>10. ASSUME NEW i \in 1 .. LengthSize
      PROVE  buf[c + i] = [buf[c + 1] EXCEPT !.at = i]
  BY <1>0, <1>7, <1>9 DEF StrByteOf
<1>11. c + LengthSize <= Len(buf) /\ buf[c + 1].len = lens1[r + 1]
  BY <1>0, <1>9, <1>6 DEF StrCut, StrByteOf
<1> QED BY <1>0, <1>3, <1>5, <1>10, <1>11 DEF Stream!LengthAt

LEMMA StrPacketSeq ==
    ASSUME NEW lens1 \in StrLens
    PROVE  Stream!Packets(lens1) \in Seq(Seq(StrByte)) /\ Len(Stream!Packets(lens1)) = Len(lens1)
<1> DEFINE P == Stream!Packets(lens1)
<1>1. PICK n \in Nat : n = Len(lens1) /\ DOMAIN lens1 = 1 .. n
  BY DEF StrLens
<1>2. \A i \in 1 .. n : P[i] \in Seq(StrByte)
  BY <1>1, StrPacket
<1>3. P = [i \in 1 .. n |-> P[i]]
  BY <1>1 DEF Stream!Packets
<1> HIDE DEF P
<1>4. P \in [1 .. n -> Seq(StrByte)]
  BY <1>2, <1>3
<1>5. P \in Seq(Seq(StrByte)) /\ Len(P) = n
  BY <1>3, <1>4
<1> QED BY <1>1, <1>5 DEF P

\* Walk finds the packets in a piece of the stream that begins with one.
StrPiece(lens1, s, st, p, q, e, buf) ==
    /\ lens1 \in StrLens /\ StrLaid(lens1, s, st) /\ p \in Nat /\ q \in Nat /\ p <= q
    /\ StrEnds(lens1, st, q, e) /\ StrCut(buf, s, st[p], e)

LEMMA StrFinds ==
    ASSUME NEW lens1, NEW s, NEW st, NEW p, NEW q, NEW e, NEW buf, StrPiece(lens1, s, st, p, q, e, buf),
           NEW junk \in Int
    PROVE  /\ Stream!Walk(buf, Len(buf), junk).stop = IF e = st[q] THEN "end" ELSE "cut"
           /\ Stream!Walk(buf, Len(buf), junk).at = st[q] - st[p]
           /\ Stream!Walk(buf, Len(buf), junk).found = SubSeq(Stream!Packets(lens1), p + 1, q)
<1>0. /\ lens1 \in StrLens /\ StrLaid(lens1, s, st) /\ p \in Nat /\ q \in Nat /\ p <= q
      /\ StrEnds(lens1, st, q, e) /\ StrCut(buf, s, st[p], e)
  BY DEF StrPiece
<1>1. PICK n \in Nat : n = Len(lens1)
  BY <1>0 DEF StrLens
<1>2. q <= n /\ e \in Nat
  BY <1>0, <1>1 DEF StrEnds
<1>3. PICK a \in Nat : a = st[p]
  BY <1>0, <1>1, <1>2, StrMonotone
<1>4. \A r \in 0 .. n : st[r] \in Nat
  BY <1>0, <1>1 DEF StrLaid
<1>5. ASSUME NEW r \in p .. q
      PROVE  r \in 0 .. n /\ a <= st[r] /\ st[r] <= st[q] /\ st[r] \in Nat
  <2>1. p \in 0 .. n /\ r \in p .. n /\ r \in 0 .. n /\ q \in r .. n
    BY <1>0, <1>2
  <2> QED BY <1>0, <1>1, <1>3, <2>1, StrMonotone
<1>6. PICK z \in Nat : z = st[q] /\ a <= z /\ z <= e
  BY <1>0, <1>5 DEF StrEnds
<1>7. buf \in Seq(StrByte) /\ Len(buf) = e - a /\ Len(buf) \in Nat /\ StrCut(buf, s, a, e)
  BY <1>0, <1>2, <1>3, <1>6 DEF StrCut
<1>8. PICK w : /\ \A c \in Nat : w[c] = StrStep(buf, Len(buf), junk, w, c)
               /\ Stream!Walk(buf, Len(buf), junk) = w[0]
  BY <1>0, <1>7, StrWalkIs
<1> DEFINE P == Stream!Packets(lens1)
           stop == IF e = z THEN "end" ELSE "cut"
           Found(r) == [stop |-> stop, at |-> z - a, found |-> SubSeq(P, r + 1, q)]
           Good(r) == w[st[r] - a] = Found(r)
           T == {k \in 0 .. q - p : ~Good(q - k)}
<1>9. P \in Seq(Seq(StrByte)) /\ Len(P) = n
  BY <1>0, <1>1, StrPacketSeq
<1>10. ASSUME NEW r \in p .. q, r < n, st[r] + LengthSize <= e
       PROVE  /\ Stream!LengthAt(buf, st[r] - a, junk) = lens1[r + 1] /\ ~Stream!BadLength(lens1[r + 1])
              /\ (st[r] - a) + LengthSize + lens1[r + 1] = st[r + 1] - a /\ st[r + 1] \in Nat
  <2>1. r \in Nat /\ r + 1 \in 1 .. n /\ (r + 1) - 1 = r
    BY <1>0, <1>10
  <2>2. Stream!LengthAt(buf, st[r] - a, junk) = lens1[r + 1]
    <3>1. r \in Nat /\ r < Len(lens1) /\ a <= st[r] /\ st[r] + LengthSize <= e
      BY <1>0, <1>1, <1>5, <1>10, <2>1
    <3>2. PICK c : c = st[r] - a
      BY <1>0
    <3>3. StrField(lens1, s, st, buf, a, e, r, c)
      BY <1>0, <1>2, <1>7, <3>1, <3>2 DEF StrField
    <3>4. Stream!LengthAt(buf, c, junk) = lens1[r + 1]
      BY <1>0, <3>3, StrLength
    <3> QED BY <1>0, <3>2, <3>4
  <2>3. lens1[r + 1] \in 0 .. BufSize
    BY <1>0, <1>1, <2>1, StrPacket
  <2>4. st[r + 1] = st[r] + StrSize(lens1, r + 1) /\ st[r + 1] \in Nat /\ st[r] \in Nat
    BY <1>0, <1>1, <2>1, StrPlace
  <2>5. ~Stream!BadLength(lens1[r + 1])
    BY <1>0, <2>3, StrSizes DEF Stream!BadLength
  <2>6. (st[r] - a) + LengthSize + lens1[r + 1] = st[r + 1] - a
    BY <1>0, <2>3, <2>4, StrSizes DEF StrSize
  <2> QED BY <1>0, <2>2, <2>4, <2>5, <2>6
<1>11. Good(q)
  <2>1. q \in p .. q
    BY <1>0
  <2>2. z - a \in Nat /\ (z - a >= Len(buf) <=> e = z)
    BY SMTT(60), <1>0, <1>2, <1>6, <1>7 DEF StrEnds
  <2>3. w[z - a] = StrStep(buf, Len(buf), junk, w, z - a)
    BY <1>0, <1>8, <2>2
  <2>4. SubSeq(P, q + 1, q) = << >>
    BY <1>0, SubSeqEmpty
  <2>5. CASE e = z
    BY <1>0, <2>2, <2>3, <2>5, <1>6, <2>4 DEF StrStep
  <2>6. CASE e # z
    <3>1. q < n /\ z + LengthSize <= e /\ e < st[q + 1]
      BY <1>0, <1>1, <1>6, <1>2, <2>6, StrSizes DEF StrEnds
    <3>2. /\ Stream!LengthAt(buf, z - a, junk) = lens1[q + 1] /\ ~Stream!BadLength(lens1[q + 1])
          /\ (z - a) + LengthSize + lens1[q + 1] = st[q + 1] - a /\ st[q + 1] \in Nat
      BY <1>0, <1>6, <1>10, <2>1, <3>1
    <3>3. (z - a) + LengthSize + lens1[q + 1] > Len(buf)
      BY <1>0, <1>2, <1>7, <3>1, <3>2
    <3>4. w[z - a] = [stop |-> "cut", at |-> z - a, found |-> << >>]
      BY <1>0, <2>2, <2>3, <2>6, <3>2, <3>3 DEF StrStep
    <3> QED BY <1>0, <1>6, <2>4, <2>6, <3>4
  <2> QED BY <1>0, <2>5, <2>6
<1>12. ASSUME NEW r \in p .. q, r + 1 \in p .. q, Good(r + 1)
       PROVE  Good(r)
  <2>1. r \in p .. q /\ r < n /\ r \in Nat /\ r + 1 \in 1 .. n /\ (r + 1) - 1 = r
    BY <1>0, <1>2, <1>12
  <2>2. PICK x \in Nat : x = st[r] /\ a <= x
    BY <1>0, <1>5
  <2>3. PICK y \in Nat : y = st[r + 1] /\ y <= z
    BY <1>0, <1>5, <1>6, <1>12
  <2>4. y = x + StrSize(lens1, r + 1) /\ StrSize(lens1, r + 1) \in Nat /\ StrSize(lens1, r + 1) >= LengthSize
    <3>1. st[r + 1] = st[r] + StrSize(lens1, r + 1)
      BY <1>0, <1>1, <2>1, StrPlace
    <3>2. StrSize(lens1, r + 1) \in Nat /\ StrSize(lens1, r + 1) >= LengthSize
      BY <1>0, <1>1, <2>1, StrPacket
    <3> QED BY <1>0, <2>2, <2>3, <3>1, <3>2
  <2>5. x + LengthSize <= e /\ x < y /\ y <= e
    BY <1>0, <1>2, <1>6, <2>2, <2>3, <2>4, StrSizes
  <2>6. /\ Stream!LengthAt(buf, x - a, junk) = lens1[r + 1] /\ ~Stream!BadLength(lens1[r + 1])
        /\ (x - a) + LengthSize + lens1[r + 1] = y - a
    BY <1>0, <1>10, <2>1, <2>2, <2>3, <2>5
  <2>7. x - a \in Nat /\ ~(x - a >= Len(buf)) /\ ~(y - a > Len(buf)) /\ y - a \in Nat
    <3>1. a <= x /\ x < y /\ y <= e /\ e \in Nat
      BY <1>0, <1>2, <2>2, <2>5
    <3>2. PICK l \in Nat : l = Len(buf) /\ l = e - a
      BY <1>0, <1>7
    <3> QED BY <1>0, <3>1, <3>2
  <2>8. w[x - a] = [w[y - a] EXCEPT !.found = << SubSeq(buf, (x - a) + 1, y - a) >> \o @]
    <3>1. w[x - a] = StrStep(buf, Len(buf), junk, w, x - a)
      BY <1>0, <1>8, <2>7
    <3> QED BY <1>0, <2>6, <2>7, <3>1 DEF StrStep
  <2>9. w[y - a] = Found(r + 1)
    BY <1>0, <1>12, <2>3
  <2>10. SubSeq(buf, (x - a) + 1, y - a) = P[r + 1]
    <3>1. StrCut(SubSeq(buf, (x - a) + 1, y - a), s, a + (x - a), a + (y - a))
      <4>1. a <= e /\ x - a <= y - a /\ y - a <= e - a
        BY <1>0, <1>2, <1>6, <2>2, <2>3, <2>5
      <4> QED BY <1>0, <1>2, <1>7, <2>7, <4>1, StrCuts
    <3>2. a + (x - a) = x /\ a + (y - a) = y /\ x <= y
      BY <1>0, <2>2, <2>3, <2>5
    <3>3. StrCut(P[r + 1], s, x, y)
      BY <1>0, <1>1, <2>1, <2>2, <2>3, StrPlace
    <3> QED BY <1>0, <3>1, <3>2, <3>3, StrSame
  <2>11. << P[r + 1] >> \o SubSeq(P, (r + 1) + 1, q) = SubSeq(P, r + 1, q)
    <3>1. r + 1 \in 1 .. Len(P) /\ q \in r + 1 .. Len(P)
      BY <1>0, <1>2, <1>9, <1>12, <2>1
    <3> HIDE DEF P
    <3> QED BY <1>0, <1>9, <3>1, SubSeqRecursiveFirst
  <2>12. w[x - a] = [stop |-> stop, at |-> z - a, found |-> << P[r + 1] >> \o SubSeq(P, (r + 1) + 1, q)]
    <3>1. PICK u : u = SubSeq(P, (r + 1) + 1, q)
      BY <1>0
    <3>2. PICK b : b = SubSeq(buf, (x - a) + 1, y - a) /\ b = P[r + 1]
      BY <1>0, <2>10
    <3>3. PICK v : v = w[y - a] /\ v = [stop |-> stop, at |-> z - a, found |-> u]
      BY <1>0, <2>9, <3>1
    <3>4. w[x - a] = [v EXCEPT !.found = << b >> \o @]
      BY <1>0, <2>8, <3>2, <3>3
    <3>5. v.found = u
      BY <1>0, <3>3
    <3>6. PICK h : h = << b >> \o u
      BY <1>0
    <3>7. w[x - a] = [v EXCEPT !.found = h]
      BY <1>0, <3>4, <3>5, <3>6
    <3>8. [v EXCEPT !.found = h] = [stop |-> stop, at |-> z - a, found |-> h]
      BY <1>0, <3>3
    <3>9. h = << P[r + 1] >> \o SubSeq(P, (r + 1) + 1, q)
      BY <1>0, <3>1, <3>2, <3>6
    <3> HIDE DEF P, stop
    <3> QED BY <1>0, <3>7, <3>8, <3>9
  <2>13. w[x - a] = Found(r)
    BY <1>0, <2>11, <2>12
  <2> QED BY <1>0, <2>2, <2>13
<1> HIDE DEF Good
<1>13. Good(p)
  <2> SUFFICES ASSUME T # {} PROVE FALSE
    BY <1>0
  <2>1. PICK k \in T : \A h \in T : k <= h
    <3>1. T \subseteq Nat
      BY <1>0
    <3> HIDE DEF T
    <3> QED BY <1>0, <3>1, StrLeast
  <2>2. k \in 0 .. q - p /\ ~Good(q - k)
    BY <1>0, <2>1
  <2>3. k # 0
    BY <1>0, <1>11, <2>2
  <2>4. k - 1 \in 0 .. q - p /\ ~(k <= k - 1) /\ q - (k - 1) = (q - k) + 1 /\ q - k \in p .. q /\ (q - k) + 1 \in p .. q
    BY <1>0, <2>2, <2>3
  <2>5. Good(q - (k - 1))
    BY <1>0, <2>1, <2>4
  <2> QED BY <1>0, <1>12, <2>2, <2>4, <2>5
<1>14. w[0] = Found(p)
  BY <1>0, <1>3, <1>13 DEF Good
<1> QED BY <1>0, <1>3, <1>6, <1>8, <1>14

LEMMA StrArith ==
    \A x, e, z, l \in Nat :
        /\ x < e /\ e < x + z => e - x + 1 \in 1 .. z /\ x + (e - x + 1) = e + 1 /\ e - x + 1 >= 2
        /\ e - x + 1 > l => e >= x + l
OBVIOUS

\* Where a receive ends: if not inside a length field, at one of the places above.
LEMMA StrWhere ==
    ASSUME NEW lens1 \in StrLens, NEW s, NEW st, StrLaid(lens1, s, st), NEW p \in 0 .. Len(lens1),
           NEW e \in Nat, st[p] <= e, e <= Len(s), e < Len(s) => s[e + 1].at \notin 2 .. LengthSize
    PROVE  \E q \in Nat : p <= q /\ StrEnds(lens1, st, q, e)
<1>1. PICK n \in Nat : n = Len(lens1)
  BY DEF StrLens
<1>2. st[0] = 0 /\ st[n] = Len(s) /\ \A r \in 0 .. n : st[r] \in Nat
  BY <1>1 DEF StrLaid
<1> DEFINE T == {q \in 0 .. n : q < n => e < st[q + 1]}
<1>3. PICK q \in T : \A r \in T : q <= r
  <2>1. n \in T
    OBVIOUS
  <2>2. T \subseteq Nat
    OBVIOUS
  <2> HIDE DEF T
  <2> QED BY <2>1, <2>2, StrLeast
<1>4. q \in 0 .. n /\ (q < n => e < st[q + 1])
  BY <1>3
<1>5. st[q] <= e
  <2>1. CASE q = 0
    BY <1>2, <2>1
  <2>2. CASE q # 0
    <3>1. q - 1 \in 0 .. n /\ q - 1 < n /\ (q - 1) + 1 = q /\ ~(q <= q - 1)
      BY <1>4, <2>2
    <3>2. ~(e < st[(q - 1) + 1])
      BY <1>3, <3>1
    <3>3. ~(e < st[q])
      BY <3>1, <3>2
    <3> QED BY <1>2, <1>4, <3>3
  <2> QED BY <2>1, <2>2
<1>6. p <= q
  <2> SUFFICES ASSUME ~(p <= q) PROVE FALSE
    OBVIOUS
  <2>1. q < n /\ q + 1 \in 0 .. n /\ p \in q + 1 .. n
    BY <1>1, <1>4
  <2>2. st[q + 1] <= st[p]
    BY <1>1, <2>1, StrMonotone
  <2> QED BY <1>1, <1>2, <1>4, <2>1, <2>2
<1>7. e = st[q] \/ e >= st[q] + LengthSize
  <2> SUFFICES ASSUME e # st[q] PROVE e >= st[q] + LengthSize
    OBVIOUS
  <2>1. PICK x \in Nat : x = st[q] /\ x < e
    BY <1>2, <1>4, <1>5
  <2>2. q < n
    BY <1>2, <1>4, <2>1
  <2>3. q + 1 \in 1 .. Len(lens1) /\ (q + 1) - 1 = q
    BY <1>1, <1>4, <2>2
  <2>4. PICK z \in Nat : z = StrSize(lens1, q + 1) /\ st[q + 1] = x + z
    <3>1. st[q + 1] = st[q] + StrSize(lens1, q + 1)
      BY <2>3, StrPlace
    <3>2. StrSize(lens1, q + 1) \in Nat
      BY <2>3, StrPacket
    <3> QED BY <2>1, <3>1, <3>2
  <2>5. PICK i \in 1 .. z : i = e - x + 1 /\ x + i = e + 1 /\ i >= 2
    <3>1. e < x + z
      BY <1>4, <2>2, <2>4
    <3>2. e - x + 1 \in 1 .. z /\ x + (e - x + 1) = e + 1 /\ e - x + 1 >= 2
      BY <2>1, <3>1, StrArith
    <3> QED BY <3>2
  <2>6. s[e + 1].at = i
    <3>1. s[x + i] = StrByteOf(lens1, q + 1, i)
      BY <2>1, <2>3, <2>4 DEF StrLaid
    <3> QED BY <2>5, <3>1 DEF StrByteOf
  <2>7. e < Len(s)
    <3>1. q + 1 \in 0 .. n /\ n \in q + 1 .. n
      BY <1>4, <2>2
    <3>2. st[q + 1] <= Len(s) /\ st[q + 1] \in Nat
      BY <1>1, <3>1, StrMonotone
    <3>3. e < st[q + 1] /\ Len(s) \in Nat
      BY <1>2, <1>4, <2>2
    <3> QED BY <3>2, <3>3
  <2>8. i \notin 2 .. LengthSize
    BY <2>6, <2>7
  <2>9. i > LengthSize
    BY <2>5, <2>8, StrSizes
  <2>10. LengthSize \in Nat
    BY StrSizes
  <2>11. e - x + 1 > LengthSize
    BY <2>5, <2>9
  <2>12. e >= x + LengthSize
    BY <2>10, <2>11, StrArith
  <2> QED BY <2>1, <2>12
<1>8. e <= st[n]
  BY <1>2
<1> QED BY <1>1, <1>4, <1>5, <1>6, <1>7, <1>8 DEF StrEnds

\* Of the stream s, e bytes were received; the packets in them were handled, and what follows them was saved.
StrAt(lens1, s, st, p, e, u, sv, h) ==
    /\ StrLaid(lens1, s, st) /\ StrEnds(lens1, st, p, e)
    /\ StrCut(u, s, e, Len(s)) /\ StrCut(sv, s, st[p], e)
    /\ h = SubSeq(Stream!Packets(lens1), 1, p)

StrGood(lens1, u, sv, h) ==
    /\ lens1 \in StrLens
    /\ \E st, p, e : StrAt(lens1, Stream!Stream(lens1), st, p, e, u, sv, h)

LEMMA StrBegins == Stream!Init => StrGood(lens, unread, saved, handled)
<1> SUFFICES ASSUME Stream!Init
             PROVE  StrGood(lens, unread, saved, handled)
  OBVIOUS
<1>1. unread = Stream!Stream(lens) /\ saved = << >> /\ handled = << >>
  BY DEF Stream!Init
<1>2. lens \in StrLens
  <2>1. PayloadLens \subseteq 0 .. BufSize /\ MaxPackets \in Nat
    BY ClientAssumption DEF ClientAssumption, Stream!PacketAssumption
  <2>2. PICK n \in 1 .. MaxPackets : lens \in [1 .. n -> PayloadLens]
    BY DEF Stream!Init
  <2>3. n \in Nat /\ n >= 1
    BY <2>1, <2>2
  <2>4. lens \in [1 .. n -> 0 .. BufSize]
    BY <2>1, <2>2
  <2>5. lens \in Seq(0 .. BufSize) /\ Len(lens) = n
    <3>1. PICK R : R = 0 .. BufSize
      OBVIOUS
    <3>2. lens \in [1 .. n -> R]
      BY <2>4, <3>1
    <3>3. lens \in Seq(R) /\ Len(lens) = n
      BY <2>3, <3>2
    <3> QED BY <3>1, <3>3
  <2> QED BY <2>3, <2>5 DEF StrLens
<1>3. PICK st : StrLaid(lens, Stream!Stream(lens), st)
  BY <1>2, StrLays
<1>4. PICK s : s = Stream!Stream(lens)
  OBVIOUS
<1>5. s \in Seq(StrByte) /\ Len(s) \in Nat /\ st[0] = 0 /\ st[Len(lens)] = Len(s)
  BY <1>3, <1>4 DEF StrLaid
<1>6. Len(lens) \in Nat /\ Len(lens) >= 1
  BY <1>2 DEF StrLens
<1>7. StrEnds(lens, st, 0, 0)
  <2>1. 1 \in 1 .. Len(lens) /\ 1 - 1 = 0
    BY <1>6
  <2>2. st[1] = st[0] + StrSize(lens, 1)
    BY <1>2, <1>3, <2>1, StrPlace
  <2>3. StrSize(lens, 1) \in Nat /\ StrSize(lens, 1) >= LengthSize
    BY <1>2, <2>1, StrPacket
  <2>4. 0 < st[0 + 1]
    BY <1>5, <2>2, <2>3, StrSizes
  <2> QED BY <1>5, <1>6, <2>4 DEF StrEnds
<1>8. StrCut(unread, s, 0, Len(s))
  BY <1>1, <1>4, <1>5, StrWhole
<1>9. StrCut(saved, s, st[0], 0)
  BY <1>1, <1>5 DEF StrCut
<1>10. handled = SubSeq(Stream!Packets(lens), 1, 0)
  BY <1>1, SubSeqEmpty
<1>11. StrAt(lens, s, st, 0, 0, unread, saved, handled)
  BY <1>3, <1>4, <1>7, <1>8, <1>9, <1>10 DEF StrAt
<1> QED BY <1>2, <1>4, <1>11 DEF StrGood

\* k bytes are received: the packets in them and in what was saved are handled, and what follows is saved.
LEMMA StrReceives ==
    ASSUME cuts = {}, StrGood(lens, unread, saved, handled), Stream!Next
    PROVE  StrGood(lens, unread', saved', handled')
<1> DEFINE P == Stream!Packets(lens)
<1>1. PICK k \in 1 .. BufSize, junk \in {-1, 0} : Stream!TCPRecvThread(k, junk)
  BY DEF Stream!Next
<1>2. PICK s : s = Stream!Stream(lens)
  OBVIOUS
<1>3. PICK st, p, e : lens \in StrLens /\ StrAt(lens, s, st, p, e, unread, saved, handled)
  BY <1>2 DEF StrGood
<1>4. /\ StrLaid(lens, s, st) /\ StrEnds(lens, st, p, e)
      /\ StrCut(unread, s, e, Len(s)) /\ StrCut(saved, s, st[p], e)
      /\ handled = SubSeq(P, 1, p)
  BY <1>3 DEF StrAt
<1>5. PICK n \in Nat : n = Len(lens)
  BY <1>3 DEF StrLens
<1>6. /\ p \in 0 .. n /\ e \in Nat /\ e <= Len(s) /\ Len(s) \in Nat /\ \A r \in 0 .. n : st[r] \in Nat
  BY SMTT(60), <1>4, <1>5 DEF StrLaid, StrEnds
<1>7. PICK a \in Nat : a = st[p] /\ a <= e
  BY <1>4, <1>6 DEF StrEnds
<1>8. /\ Len(unread) = Len(s) - e /\ unread \in Seq(StrByte) /\ (\A i \in 1 .. Len(s) - e : unread[i] = s[e + i])
      /\ Len(saved) = e - a /\ saved \in Seq(StrByte)
  BY <1>4, <1>7 DEF StrCut
<1>9. /\ k \in Nat /\ k >= 1 /\ k <= Len(unread) /\ Len(saved) + k <= BufSize /\ junk \in Int
      /\ k < Len(unread) => unread[k + 1].at \notin 2 .. LengthSize
  <2>1. k \in 1 .. Len(unread) /\ ~(Len(saved) + k > BufSize)
        /\ (k < Len(unread) => unread[k + 1].at \notin 2 .. LengthSize)
    BY <1>1 DEF Stream!TCPRecvThread
  <2>2. Len(saved) \in Nat /\ BufSize \in Nat
    BY <1>6, <1>7, <1>8, StrSizes
  <2> QED BY <2>1, <2>2
<1>10. PICK f \in Nat : f = e + k /\ f <= Len(s) /\ e <= f /\ f - a = Len(saved) + k /\ f - e = k
  <2>1. e + k \in Nat /\ e + k <= Len(s) /\ e <= e + k /\ (e + k) - a = Len(saved) + k /\ (e + k) - e = k
    <3>1. PICK l \in Nat : l = Len(s) /\ e <= l
      BY <1>6
    <3>2. k \in Nat /\ k <= l - e /\ Len(saved) = e - a /\ e \in Nat
      BY <1>6, <1>8, <1>9, <3>1
    <3> QED BY <3>1, <3>2
  <2> QED BY <2>1
<1>11. f < Len(s) => s[f + 1].at \notin 2 .. LengthSize
  <2> SUFFICES ASSUME f < Len(s) PROVE s[f + 1].at \notin 2 .. LengthSize
    OBVIOUS
  <2>1. k + 1 \in 1 .. Len(s) - e /\ e + (k + 1) = f + 1 /\ k < Len(s) - e
    BY <1>6, <1>9, <1>10
  <2> QED BY <1>8, <1>9, <2>1
<1>12. PICK q \in Nat : p <= q /\ StrEnds(lens, st, q, f)
  BY SMTT(60), <1>3, <1>4, <1>5, <1>6, <1>7, <1>10, <1>11, StrWhere
<1>13. PICK z \in Nat : z = st[q] /\ a <= z /\ z <= f /\ q <= n
  BY <1>5, <1>6, <1>12, <1>3, <1>4, StrMonotone, <1>7 DEF StrEnds
<1>14. PICK recv : recv = Stream!Bytes(unread, 0, k) /\ StrCut(recv, s, e, f)
  <2>1. StrCut(SubSeq(unread, 0 + 1, k), s, e + 0, e + k)
    <3>1. 0 <= k /\ k <= Len(s) - e
      BY <1>8, <1>9
    <3> QED BY <1>4, <1>6, <1>9, <3>1, StrCuts
  <2>2. e + 0 = e
    BY <1>6
  <2> QED BY <1>10, <2>1, <2>2 DEF Stream!Bytes
<1>15. PICK data : data = saved \o recv /\ StrCut(data, s, a, f)
  BY <1>4, <1>6, <1>7, <1>10, <1>14, StrConcat
<1>16. Len(data) = f - a /\ data \in Seq(StrByte) /\ Len(data) \in Nat /\ Len(data) <= BufSize /\ Len(recv) = k
  BY <1>7, <1>9, <1>10, <1>13, <1>14, <1>15 DEF StrCut
<1>17. Stream!Filled(recv, junk) = [data |-> data, saved |-> << >>, crash |-> FALSE]
  <2>1. CASE saved = << >>
    BY <1>14, <1>15, <2>1, ConcatEmptySeq DEF StrCut, Stream!Filled
  <2>2. CASE saved # << >>
    <3>1. ~(Len(saved) + k > BufSize)
      <4>1. Len(saved) \in Nat /\ BufSize \in Nat
        BY <1>6, <1>7, <1>8, StrSizes
      <4> QED BY <1>9, <4>1
    <3> QED BY <1>15, <1>16, <2>2, <3>1 DEF Stream!Filled, Stream!AddSavedData, Stream!Joined
  <2> QED BY <2>1, <2>2
<1>18. PICK walk : /\ walk = Stream!Walk(data, Len(data), junk)
                   /\ walk.stop = (IF f = z THEN "end" ELSE "cut") /\ walk.at = z - a
                   /\ walk.found = SubSeq(P, p + 1, q)
  <2>1. StrPiece(lens, s, st, p, q, f, data)
    BY <1>3, <1>4, <1>6, <1>7, <1>12, <1>15 DEF StrPiece
  <2>2. /\ Stream!Walk(data, Len(data), junk).stop = IF f = st[q] THEN "end" ELSE "cut"
        /\ Stream!Walk(data, Len(data), junk).at = st[q] - st[p]
        /\ Stream!Walk(data, Len(data), junk).found = SubSeq(P, p + 1, q)
    BY <1>9, <2>1, StrFinds
  <2> QED BY <1>7, <1>13, <2>2
<1>19. PICK in, out : /\ in = Stream!Filled(recv, junk) /\ out = Stream!Searched(in, junk)
                      /\ unread' = SubSeq(unread, k + 1, Len(unread)) /\ saved' = out.saved
                      /\ handled' = handled \o Stream!RecvProc(out.data, junk)
  BY <1>1, <1>14 DEF Stream!TCPRecvThread
<1>20. in.data = data /\ in.saved = << >>
  BY <1>17, <1>19
<1>21. out = IF walk.stop = "cut" THEN Stream!DelayData(<< >>, data, walk.at)
              ELSE [data |-> IF walk.stop = "bad" THEN << >> ELSE data, saved |-> << >>]
  BY <1>18, <1>19, <1>20 DEF Stream!Searched
<1>22. StrCut(unread', s, f, Len(s))
  <2>1. StrCut(SubSeq(unread, k + 1, Len(unread)), s, e + k, e + Len(unread))
    <3>1. Len(unread) \in Nat /\ k <= Len(unread) /\ Len(unread) <= Len(s) - e
      BY <1>6, <1>8, <1>9
    <3> QED BY <1>4, <1>6, <1>9, <3>1, StrCuts
  <2>2. e + Len(unread) = Len(s)
    BY <1>6, <1>8
  <2> QED BY <1>10, <1>19, <2>1, <2>2
<1>23. StrCut(saved', s, z, f) /\ Stream!RecvProc(out.data, junk) = SubSeq(P, p + 1, q)
  <2>1. CASE f = z
    <3>1. walk.stop = "end" /\ walk.found = SubSeq(P, p + 1, q)
      BY <1>18, <2>1
    <3>2. out = [data |-> data, saved |-> << >>]
      BY <1>21, <3>1
    <3>3. saved' = << >> /\ out.data = data
      BY <1>19, <3>2
    <3>4. StrCut(<< >>, s, z, f)
      BY <1>13, <2>1 DEF StrCut
    <3> QED BY <1>18, <3>1, <3>3, <3>4 DEF Stream!RecvProc
  <2>2. CASE f # z
    <3>1. walk.stop = "cut" /\ walk.at = z - a
      BY <1>18, <2>2
    <3>2. out = Stream!DelayData(<< >>, data, z - a)
      BY <1>21, <3>1
    <3>3. ~(Len(<< >>) + Len(data) - (z - a) > BufSize)
      <4>1. Len(<< >>) = 0 /\ z - a \in Nat /\ BufSize \in Nat
        BY <1>13, StrSizes
      <4>2. 0 + Len(data) - (z - a) <= BufSize
        BY <1>16, <4>1
      <4> QED BY <1>16, <4>1, <4>2
    <3>4. PICK left, rest : left = SubSeq(data, 0 + 1, z - a) /\ rest = SubSeq(data, (z - a) + 1, Len(data))
      OBVIOUS
    <3>5. out.data = left /\ out.saved = << >> \o rest
      BY <3>2, <3>3, <3>4 DEF Stream!DelayData, Stream!Bytes
    <3>6. StrCut(left, s, a, z)
      <4>1. StrCut(SubSeq(data, 0 + 1, z - a), s, a + 0, a + (z - a))
        <5>1. 0 \in Nat /\ z - a \in Nat /\ 0 <= z - a /\ z - a <= f - a /\ a <= f
          BY <1>13
        <5> QED BY <1>15, <5>1, StrCuts
      <4>2. a + 0 = a /\ a + (z - a) = z
        BY <1>13
      <4> QED BY <3>4, <4>1, <4>2
    <3>7. StrCut(rest, s, z, f)
      <4>1. StrCut(SubSeq(data, (z - a) + 1, f - a), s, a + (z - a), a + (f - a))
        <5>1. f - a \in Nat /\ z - a \in Nat /\ z - a <= f - a /\ f - a <= f - a /\ a <= f
          BY <1>13
        <5> QED BY <1>15, <5>1, StrCuts
      <4>2. a + (f - a) = f /\ a + (z - a) = z
        BY <1>13
      <4> QED BY <1>16, <3>4, <4>1, <4>2
    <3>8. saved' = rest
      BY <3>7, <1>19, <3>5, ConcatEmptySeq DEF StrCut
    <3>9. StrEnds(lens, st, q, z)
      <4>1. q \in 0 .. Len(lens) /\ f <= st[Len(lens)] /\ (q < Len(lens) => f < st[q + 1])
        BY <1>12 DEF StrEnds
      <4>2. st[Len(lens)] \in Nat /\ (q < Len(lens) => st[q + 1] \in Nat)
        BY <1>5, <1>6, <1>13
      <4>3. z <= st[Len(lens)] /\ (q < Len(lens) => z < st[q + 1])
        BY <1>13, <4>1, <4>2
      <4> QED BY <1>13, <4>1, <4>3 DEF StrEnds
    <3>10. Stream!Walk(left, Len(left), junk).found = SubSeq(P, p + 1, q)
      <4>1. StrPiece(lens, s, st, p, q, z, left)
        BY <1>3, <1>4, <1>6, <1>7, <1>12, <3>6, <3>9 DEF StrPiece
      <4> QED BY <1>9, <4>1, StrFinds
    <3> QED BY <3>5, <3>7, <3>8, <3>10 DEF Stream!RecvProc
  <2> QED BY <2>1, <2>2
<1>24. handled' = SubSeq(P, 1, q)
  <2>1. P \in Seq(Seq(StrByte)) /\ Len(P) = n
    BY <1>3, <1>5, StrPacketSeq
  <2>2. 1 \in 1 .. Len(P) + 1 /\ p \in 1 - 1 .. Len(P) /\ q \in p .. Len(P)
    BY <1>6, <1>12, <1>13, <2>1
  <2> HIDE DEF P
  <2>3. SubSeq(P, 1, p) \o SubSeq(P, p + 1, q) = SubSeq(P, 1, q)
    BY <2>1, <2>2, ConcatAdjacentSubSeq
  <2> QED BY <1>4, <1>19, <1>23, <2>3
<1>25. StrAt(lens, s, st, q, f, unread', saved', handled')
  BY <1>4, <1>12, <1>13, <1>22, <1>23, <1>24 DEF StrAt
<1> QED BY <1>2, <1>3, <1>25 DEF StrGood

\* What was handled is what arrived in whole.
LEMMA StrHolds ==
    ASSUME StrGood(lens, unread, saved, handled)
    PROVE  Stream!ArrivedAreHandled
<1>1. PICK s : s = Stream!Stream(lens)
  OBVIOUS
<1>2. PICK st, p, e : lens \in StrLens /\ StrAt(lens, s, st, p, e, unread, saved, handled)
  BY <1>1 DEF StrGood
<1>3. /\ StrLaid(lens, s, st) /\ StrEnds(lens, st, p, e) /\ StrCut(unread, s, e, Len(s))
      /\ handled = SubSeq(Stream!Packets(lens), 1, p)
  BY <1>2 DEF StrAt
<1>4. e \in Nat /\ e <= Len(s) /\ Len(s) \in Nat /\ p \in Nat /\ 0 <= p /\ st[0] = 0 /\ s \in Seq(StrByte)
  BY <1>3 DEF StrEnds, StrLaid
<1>5. Len(s) - Len(unread) = e
  BY <1>3, <1>4 DEF StrCut
<1>6. PICK arrived : arrived = SubSeq(s, 1, Len(s) - Len(unread)) /\ StrCut(arrived, s, st[0], e)
  <2>1. StrCut(s, s, 0, Len(s))
    BY <1>4, StrWhole
  <2>2. StrCut(SubSeq(s, 0 + 1, e), s, 0 + 0, 0 + e)
    <3>1. 0 \in Nat /\ 0 <= e /\ 0 <= Len(s) /\ e <= Len(s) - 0
      BY <1>4
    <3> QED BY <1>4, <2>1, <3>1, StrCuts
  <2>3. 0 + 1 = 1 /\ 0 + 0 = 0 /\ 0 + e = e
    BY <1>4
  <2> QED BY <1>4, <1>5, <2>2, <2>3
<1>7. StrPiece(lens, s, st, 0, p, e, arrived)
  BY <1>2, <1>3, <1>4, <1>6 DEF StrPiece
<1>8. Stream!Walk(arrived, Len(arrived), -1).found = handled
  BY <1>7, StrFinds, <1>3
<1> QED BY <1>1, <1>6, <1>8 DEF Stream!ArrivedAreHandled

StrInv == part = "stream" /\ cuts = {} => StrGood(lens, unread, saved, handled)

\* The invariant of the run.
LEMMA StrNext == StrInv /\ [Next]_vars => StrInv'
<1> SUFFICES ASSUME StrInv, [Next]_vars
             PROVE  StrInv'
  OBVIOUS
<1>1. CASE part = "stream" /\ Stream!Next /\ part' = part
  <2>1. cuts' = cuts /\ lens' = lens
    BY <1>1 DEF Stream!Next, Stream!TCPRecvThread
  <2>2. ASSUME cuts = {}
        PROVE  StrGood(lens, unread', saved', handled')
    BY <1>1, <2>2, StrReceives DEF StrInv
  <2> QED BY <2>1, <2>2 DEF StrInv
<1>2. CASE part' = part /\ part # "stream"
  BY <1>2 DEF StrInv
<1>3. CASE UNCHANGED <<part, cuts, lens, unread, saved, handled>>
  BY <1>3 DEF StrInv
<1> QED BY <1>1, <1>2, <1>3 DEF Next, vars, streamOnly

\* UNetworkSystem::TCPRecvThread, AddSavedData, DelayData: for any packets that fit into a buffer and any cuts of
\* the stream that neither overflow one nor end inside a length field, exactly the packets that have arrived in
\* whole are handled, in their order.
THEOREM ArrivedAreHandledHolds == Spec => []ArrivedAreHandled
<1>1. Init => StrInv
  BY StrBegins DEF Init, StrInv
<1>2. StrInv => ArrivedAreHandled
  BY StrHolds DEF StrInv, ArrivedAreHandled, Stream!ArrivedAreHandled
<1>3. Spec => Init /\ [][Next]_vars
  BY PTL DEF Spec
<1> QED
  BY <1>1, <1>2, <1>3, StrNext, PTL
=============================================================================
