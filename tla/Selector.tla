------------------------------- MODULE Selector -------------------------------
(***************************************************************************)
(* The choice of the heroes (CharacterSelector.cpp): only the master keeps *)
(* it, and gives the heroes to the clients again when one has been lost    *)
(* and comes back, with seats that have changed.                           *)
(***************************************************************************)
EXTENDS Naturals, Sequences

CONSTANTS MaxSelects,    \* bound: choices made
          MaxLosses      \* bound: connections lost

SelectorAssumption == {MaxSelects, MaxLosses} \subseteq Nat

Client == {0, 1}
Other(c) == 1 - c
Hero == {"crusher", "esper"}
Not(h) == CHOOSE g \in Hero : g # h
None == "none"
NoSeat == 2
Owning(slot) == IF slot = 0 THEN "master" ELSE "slave"

VARIABLES
    sel,      \* sel[c]: the selector on client c
    slot,     \* slot[c]: its seat
    away,     \* the client that is lost, if any
    plays,    \* plays[c]: the hero it controls
    auth,     \* auth[c][h]: the seat it thinks hero h is played from
    chan,     \* chan[c]: calls on their way to client c
    selects, losses,
    muddled   \* somebody chose a hero while it had the other, or was lost before the end (history)

vars == <<sel, slot, away, plays, auth, chan, selects, losses, muddled>>

\* The states of the heroes, the seat each is shown to be chosen from, and the end.
New == [state |-> [h \in Hero |-> None], shown |-> [h \in Hero |-> NoSeat], ended |-> FALSE]

Init ==
    /\ sel = [c \in Client |-> New] /\ slot = [c \in Client |-> c] /\ away = {}
    /\ plays = [c \in Client |-> None] /\ auth = [c \in Client |-> New.shown]
    /\ chan = [c \in Client |-> << >>] /\ selects = 0 /\ losses = 0 /\ muddled = FALSE
-----------------------------------------------------------------------------
Tell(ch, c, calls) == chan' = [ch EXCEPT ![Other(c)] = IF away = {} THEN @ \o calls ELSE @]

\* The widget ends the choice: a client takes the hero that is shown to be its own.
EndSelect(c, s) ==
    /\ sel' = [sel EXCEPT ![c] = [s EXCEPT !.ended = TRUE]]
    /\ plays' = [plays EXCEPT ![c] = IF slot[c] \in {s.shown[h] : h \in Hero}
                                      THEN CHOOSE h \in Hero : s.shown[h] = slot[c] ELSE None]
    /\ auth' = [auth EXCEPT ![c] = s.shown]

Show(s, h, n) == [s EXCEPT !.shown[h] = n]      \* _RPCSelect

\* The choice made from seat n: taken, given back, or refused.  Whether it is over is asked before the
\* other hero is given back.
MasterSelect(m, n, h, ch) ==
    LET s == sel[m]  own == Owning(n)
        free == s.state[h] = None
        had == s.state[Not(h)] = own
        taken == Show([s EXCEPT !.state[h] = own], h, n)
        over == free /\ s.state[Not(h)] # None
        undo == IF had THEN << <<"show", Not(h), NoSeat>> >> ELSE << >>
    IN  /\ muddled' = (muddled \/ (free /\ had))
        /\ CASE over -> /\ EndSelect(m, taken)
                        /\ Tell(ch, m, << <<"show", h, n>>, <<"end", h, n>> >> \o undo)
             [] free /\ ~over -> /\ sel' = [sel EXCEPT ![m] = taken] /\ Tell(ch, m, << <<"show", h, n>> >>)
                                 /\ UNCHANGED <<plays, auth>>
             [] s.state[h] = own ->
                  /\ sel' = [sel EXCEPT ![m] = Show([s EXCEPT !.state[h] = None], h, NoSeat)]
                  /\ Tell(ch, m, << <<"show", h, NoSeat>> >>)
                  /\ UNCHANGED <<plays, auth>>
             [] OTHER -> chan' = ch /\ UNCHANGED <<sel, plays, auth>>

\* A player chooses after the calls that were on their way have arrived.
Select(c, h) ==
    /\ chan[c] = << >> /\ ~sel[c].ended /\ away = {} /\ selects < MaxSelects /\ selects' = selects + 1
    /\ IF slot[c] = 0 THEN MasterSelect(c, 0, h, chan)
       ELSE Tell(chan, c, << <<"select", h, 1>> >>) /\ UNCHANGED <<sel, plays, auth, muddled>>
    /\ UNCHANGED <<slot, away, losses>>

\* SetAuthority on client c
Possess(c, seats) ==
    /\ auth' = [auth EXCEPT ![c] = seats]
    /\ plays' = [plays EXCEPT ![c] = CHOOSE h \in Hero : seats[h] = slot[c]]

\* Disconnected, on the client that stays: the hero it controls is the master's now.
\* Mutant: the states stay as they are.
Disconnected_Nothing(s, h) == s
Disconnected(s, h) ==
    IF ~s.ended THEN s
    ELSE [s EXCEPT !.state = [g \in Hero |-> IF (h = "crusher") = (g = "crusher") THEN "master" ELSE "slave"]]

\* A connection is lost, or a client ends and is started again, with the calls on their way; those
\* that arrive do so before the other client hears of the loss.
Lose(c) ==
    /\ away = {} /\ losses < MaxLosses /\ losses' = losses + 1
    /\ muddled' = (muddled \/ \E d \in Client : ~sel[d].ended)
    /\ away' = {c} /\ slot' = [slot EXCEPT ![Other(c)] = 0, ![c] = 1]
    /\ \E crash \in BOOLEAN :
         /\ sel' = [sel EXCEPT ![Other(c)] = Disconnected(@, plays[Other(c)]), ![c] = IF crash THEN New ELSE @]
         /\ plays' = IF crash THEN [plays EXCEPT ![c] = None] ELSE plays
         /\ auth' = IF crash THEN [auth EXCEPT ![c] = New.shown] ELSE auth
    /\ chan' = [d \in Client |-> << >>]
    /\ UNCHANGED selects

\* It comes back; Reconnected on the other client, the master: _RPCRefreshAuthority.
Return(c) ==
    LET m == Other(c)
        seats == [h \in Hero |-> IF sel[m].state["crusher"] = "master" THEN IF h = "crusher" THEN 0 ELSE 1
                                 ELSE IF h = "crusher" THEN 1 ELSE 0]
    IN  /\ away = {c} /\ away' = {} /\ UNCHANGED slot
        /\ IF sel[m].ended
           THEN Possess(m, seats) /\ chan' = [chan EXCEPT ![c] = << <<"authority", "crusher", seats>> >>]
           ELSE UNCHANGED <<plays, auth, chan>>
        /\ UNCHANGED <<sel, selects, losses, muddled>>

Recv(c) ==
    /\ chan[c] # << >>
    /\ LET what == Head(chan[c])[1]  h == Head(chan[c])[2]  arg == Head(chan[c])[3]
           rest == [chan EXCEPT ![c] = Tail(@)]
       IN  CASE what = "select" -> MasterSelect(c, arg, h, rest)
             [] what = "show" -> /\ sel' = [sel EXCEPT ![c] = Show(@, h, arg)] /\ chan' = rest
                                 /\ UNCHANGED <<plays, auth, muddled>>
             [] what = "end" -> EndSelect(c, sel[c]) /\ chan' = rest /\ UNCHANGED muddled
             [] OTHER ->                                    \* "authority", and _RPCRecvAuthority
                  /\ Possess(c, arg) /\ sel' = [sel EXCEPT ![c].ended = TRUE]
                  /\ chan' = rest /\ UNCHANGED muddled
    /\ UNCHANGED <<slot, away, selects, losses>>

Next ==
    \/ \E c \in Client, h \in Hero : Select(c, h)
    \/ \E c \in Client : Lose(c) \/ Return(c) \/ Recv(c)

Spec == Init /\ [][Next]_vars
-----------------------------------------------------------------------------
\* When both clients have ended the choice and nothing is under way, each plays a hero of its own and
\* both know from which seats, also after losses: unless somebody has changed its mind, which ends
\* the choice too early (CharacterSelector.cpp:227), or was lost before its end, which leaves states behind.
EachPlaysOne ==
    (~muddled /\ away = {} /\ \A c \in Client : sel[c].ended /\ chan[c] = << >>) =>
        \A c \in Client : plays[c] # None /\ plays[c] # plays[Other(c)] /\ auth[c][plays[c]] = slot[c]
                           /\ auth[Other(c)] = auth[c]

\* A client that keeps running keeps the hero it plays.
HeroKept ==
    \A c \in Client :
        plays[c] # None /\ ~muddled => plays'[c] = plays[c] \/ (away' = {c} /\ plays'[c] = None)

\* Both: the heroes are shared out once and for all.
HeroesKept == []EachPlaysOne /\ [][HeroKept]_vars

-----------------------------------------------------------------------------
(* Why they do (proved in HeroesProofs). *)
Owner == {None, "master", "slave"}
Seat == 0 .. NoSeat
Selecting == [state : [Hero -> Owner], shown : [Hero -> Seat], ended : BOOLEAN]
Seats(h) == [g \in Hero |-> IF g = h THEN 0 ELSE 1]     \* when the master plays h
Message == ({"select"} \X Hero \X {1}) \cup ({"show"} \X Hero \X Seat) \cup ({"end"} \X Hero \X Client)
               \cup ({"authority"} \X {"crusher"} \X {Seats(h) : h \in Hero})
Typed ==
    /\ sel \in [Client -> Selecting] /\ slot \in [Client -> Client]
    /\ plays \in [Client -> Hero \cup {None}] /\ auth \in [Client -> [Hero -> Seat]]
    /\ chan \in [Client -> Seq(Message)]

\* When the first n calls of the queue q have arrived, hero h, now shown to be chosen from seat now, will be
\* shown to be chosen from seat.
Shows(q, i, h) == q[i][1] = "show" /\ q[i][2] = h
WillShow(q, n, h, now, seat) ==
    /\ \A i \in 1 .. n : Shows(q, i, h) => q[i][3] = seat \/ \E j \in 1 .. n : i < j /\ Shows(q, j, h)
    /\ (\A i \in 1 .. n : ~Shows(q, i, h)) => now = seat

\* While the heroes are chosen the master is client 0; the other one will be shown what the master has
\* decided, and at the end what is valid from then on.
SeatOf(own) == IF own = "master" THEN 0 ELSE IF own = "slave" THEN 1 ELSE NoSeat
Decided ==
    /\ \A h \in Hero : sel[0].shown[h] = SeatOf(sel[0].state[h])
    /\ sel[0].state["crusher"] = sel[0].state["esper"] => sel[0].state["crusher"] = None
    /\ ~sel[0].ended => plays[0] = None /\ ~sel[1].ended /\ \A i \in DOMAIN chan[1] : chan[1][i][1] # "end"
    /\ sel[0].ended => plays[0] \in Hero /\ sel[0].state[plays[0]] = "master" /\ auth[0] = Seats(plays[0])
Followed ==
    LET q == chan[1]  shown == sel[1].shown
    IN  /\ \A h \in Hero : WillShow(q, Len(q), h, shown[h], sel[0].shown[h])
        /\ \A i \in DOMAIN q : q[i][1] = "end" =>
              \A h \in Hero : WillShow(q, i, h, shown[h], Seats(plays[0])[h])
        /\ IF sel[1].ended THEN plays[1] = Not(plays[0]) /\ auth[1] = auth[0] ELSE plays[1] = None
Choosing ==
    /\ away = {} /\ \A c \in Client : slot[c] = c
    /\ \A i \in DOMAIN chan[0] : chan[0][i][1] = "select"
    /\ \A i \in DOMAIN chan[1] : chan[1][i][1] \in {"show", "end"}
    /\ Decided /\ Followed

\* After a loss the one that stayed is the master, m; the other one is away, or is told its hero, or knows it.
Staying(m) ==
    LET c == Other(m)  h == plays[m]  seats == Seats(h)
    IN  /\ slot[m] = 0 /\ slot[c] = 1 /\ chan[m] = << >>
        /\ sel[m].ended /\ h \in Hero /\ sel[m].state[h] = "master" /\ sel[m].state[Not(h)] = "slave"
        /\ plays[c] = IF sel[c].ended THEN Not(h) ELSE None
        /\ \/ away = {c} /\ chan[c] = << >>
           \/ away = {} /\ auth[m] = seats /\ chan[c] = << <<"authority", "crusher", seats>> >>
           \/ away = {} /\ auth[m] = seats /\ chan[c] = << >> /\ sel[c].ended /\ auth[c] = seats

SelectorInv == ~muddled => Typed /\ (Choosing \/ \E m \in Client : Staying(m))
=============================================================================
