-------------------------------- MODULE EventLoop ------------------------------
(***************************************************************************)
(* libsponge/util/eventloop, with the rules of a TCPSpongeSocket: each has *)
(* a file descriptor, a direction and three callbacks.  The field rules of *)
(* the socket is the list of the rules and its field loop is the round in  *)
(* progress: the rules that asked for their event, those of them whose     *)
(* event has happened, the rules whose descriptor has hung up, and the     *)
(* rules still to be served.  One call of wait_next_event is Setup, then   *)
(* Polled, then ServeNext for each rule that was triggered.                *)
(***************************************************************************)
EXTENDS SpongeSocket

LOCAL INSTANCE SequencesExt

\* The first pass of wait_next_event, in the order of the rules: a rule whose
\* descriptor is at its end or closed is cancelled, the others ask for their event
\* if they are interested, after what the rules before them have done.
Setup(s) ==
  FoldLeft(LAMBDA t, rule :
             IF Defunct(t, rule) THEN cancel(t, rule)
             ELSE [t EXCEPT !.rules = Append(@, rule),
                            !.loop.asked = IF interest(t, rule) THEN @ \cup {rule} ELSE @],
           [s EXCEPT !.rules = << >>, !.loop = Idle], s.rules)

\* Result::Exit.
NothingToPoll(s) == s.loop.asked = {}

\* The rules that the second pass acts upon: those whose event has happened and
\* those for which a hang-up is all that has happened.
Triggered(s) ==
  SelectSeq(s.rules, LAMBDA rule : rule \in s.loop.asked /\ (Ready(s, rule) \/ Hup(s, rule)))

\* poll: the events asked for, and every hang-up, asked for or not (a rule that is
\* not interested is polled for errors).
Polled(s) ==
  [s EXCEPT !.loop.ready = {rule \in s.loop.asked : Ready(s, rule)},
            !.loop.hup = {rule \in ToSet(s.rules) : Hup(s, rule)},
            !.loop.todo = Triggered(s)]

\* Result::Timeout.
TimedOut(s) == s.loop.ready = {} /\ s.loop.hup = {}

\* Mutant: whether something is ready is not looked at.
HungUpOnly_always(s, rule) == rule \in s.loop.hup

\* The event asked for will not happen again.
HungUpOnly(s, rule) == rule \in s.loop.hup /\ rule \notin s.loop.ready

\* The second pass, for the next triggered rule: its callback, or its end if only
\* a hang-up was seen.  The callback adds the rules whose descriptor it reads or
\* writes to served.
Serve(s, rule) ==
  LET t == [s EXCEPT !.loop.todo = Tail(@), !.served = {}]
  IN  IF HungUpOnly(s, rule) THEN cancel([t EXCEPT !.rules = SelectSeq(@, LAMBDA r : r # rule)], rule)
      ELSE callback(t, rule)

\* A callback has neither used the descriptor nor lost interest.
BusyWait(s, after, rule) ==
  ~HungUpOnly(s, rule) /\ rule \notin after.served /\ interest(after, rule)

\* wait_next_event throws if it would wait busily.
ServeNext(s) ==
  LET rule  == Head(s.loop.todo)
      after == Serve(s, rule)
  IN  IF BusyWait(s, after, rule) THEN [after EXCEPT !.signal = TRUE] ELSE after

================================================================================
