----------------------------- MODULE QueueOrder -----------------------------
(***************************************************************************)
(* The play order of PlaybackService.ets: which index of the queue comes   *)
(* next, with shuffle and its history, the repeat modes, prev, the         *)
(* replacement and the extension of the queue.  Every operation here is    *)
(* one synchronous step of the JS thread; the loading it starts is the     *)
(* subject of module PlayerSession.                                        *)
(*                                                                         *)
(* Math.random is any choice.  computeNextIndex gives up after 200 draws   *)
(* of an index that was already played and takes the last of them, which   *)
(* for a queue of 200 entries happens in one of three rounds: any draw may *)
(* be in vain, and inVain remembers that one was.                          *)
(***************************************************************************)
EXTENDS Integers, Sequences

CONSTANT MaxSize  \* bound on the length of the queue

ASSUME OrderAssumption == MaxSize \in Nat \ {0}

VARIABLES
    size,        \* queue.length
    current,     \* currentIndex
    shuffle,
    repeatMode,  \* 0 none, 1 all, 2 one
    history,     \* shuffleHistory
    playing,     \* a media is loaded and may come to its end
    heard,       \* history: the indices that were current in this round
    inVain,      \* history: a draw of this round took one already played
    cameFrom     \* history: the index a manual next has just left

roundVars == <<heard, inVain>>
vars == <<size, current, shuffle, repeatMode, history, playing, roundVars, cameFrom>>

None == -1

Indices == 0 .. size - 1

Members(h) == {h[k] : k \in 1 .. Len(h)}

(* The fields are restored by ensureInit; the queue is empty. *)
Init ==
    /\ size = 0 /\ current = None
    /\ shuffle \in BOOLEAN
    /\ repeatMode \in 0 .. 2
    /\ history = <<>>
    /\ playing = FALSE
    /\ heard = {} /\ inVain = FALSE /\ cameFrom = None

-----------------------------------------------------------------------------
MutantRoundOverEarly == Len(history) + 2 >= size

(* Everything but the current index was played in this round. *)
RoundOver == Len(history) + 1 >= size

(* What the draws look for, when h holds what was played before. *)
Fresh(h) == Indices \ ({current} \cup Members(h))

(* A round goes on, or starts when over, with the index drawn. *)
Heard(over, played) ==
    /\ heard' = IF over THEN {current, current'} ELSE heard \cup {current'}
    /\ inVain' = ((~over /\ inVain) \/ (Fresh(played) # {} /\ current' \notin Fresh(played)))

MutantForgetsCurrent(over) ==
    LET kept == IF over THEN <<>> ELSE history IN
    /\ current' \in Indices
    /\ history' = kept
    /\ Heard(over, kept)

MutantRemembersNext(over) ==
    LET kept == IF over THEN <<>> ELSE history IN
    /\ current' \in Indices
    /\ history' = Append(kept, current')
    /\ Heard(over, kept)

(* The shuffle branch of computeNextIndex; over starts a new round. *)
Shuffled(over) ==
    LET kept == IF over THEN <<>> ELSE history IN
    /\ current' \in Indices
    /\ history' = Append(kept, current)
    /\ Heard(over, kept)

MutantSequential ==
    IF repeatMode = 2 THEN current
    ELSE IF current < size THEN current + 1 ELSE 0

(* The index computeNextIndex returns without shuffle. *)
Sequential ==
    IF repeatMode = 2 THEN current
    ELSE IF current + 1 < size THEN current + 1 ELSE 0

(* computeNextIndex has nothing left to play. *)
EndOfQueue ==
    /\ repeatMode = 0
    /\ IF shuffle THEN RoundOver ELSE current + 1 >= size

GoOn ==
    /\ IF shuffle /\ repeatMode # 2
       THEN Shuffled(RoundOver)
       ELSE /\ current' = Sequential
            /\ heard' = heard \cup {current'}
            /\ UNCHANGED <<history, inVain>>
    /\ playing' = TRUE
    /\ UNCHANGED <<size, shuffle, repeatMode>>

(* A step that empties the history: the round starts again at current. *)
ForgetHistory ==
    /\ history' = <<>>
    /\ heard' = {current} \ {None}
    /\ inVain' = FALSE

(* stop(): nothing plays, and the next round starts with current. *)
StopPlaying ==
    /\ playing' = FALSE
    /\ ForgetHistory
    /\ UNCHANGED <<size, current, shuffle, repeatMode>>

-----------------------------------------------------------------------------
(* next(), by the user or the session *)
NextTrack ==
    /\ size > 0
    /\ GoOn
    /\ cameFrom' = current

(* onComplete, without stopAfterCurrent *)
OnComplete ==
    /\ playing
    /\ IF EndOfQueue THEN StopPlaying ELSE GoOn
    /\ cameFrom' = None

(* The current item starts again, or is loaded again. *)
StayHere ==
    /\ UNCHANGED <<current, history, heard>>

MutantBackInQueue ==
    /\ current' = IF current = 0 THEN size - 1 ELSE current - 1
    /\ UNCHANGED history

(* The index before the current one, from the history when shuffling. *)
Back ==
    IF shuffle
    THEN IF history = <<>>
         THEN UNCHANGED <<current, history>>
         ELSE /\ current' = history[Len(history)]
              /\ history' = SubSeq(history, 1, Len(history) - 1)
    ELSE /\ current' = IF current = 0 THEN size - 1 ELSE current - 1
         /\ UNCHANGED history

(* prev(); late: more than five seconds were played *)
Prev(late) ==
    /\ size > 0
    /\ IF late \/ repeatMode = 2
       THEN StayHere /\ UNCHANGED playing
       ELSE /\ Back
            /\ heard' = heard \cup {current'}
            /\ playing' = TRUE
    /\ cameFrom' = None
    /\ UNCHANGED <<size, shuffle, repeatMode, inVain>>

Stop ==
    /\ StopPlaying
    /\ cameFrom' = None

Play ==
    /\ size > 0
    /\ playing' = TRUE
    /\ UNCHANGED <<size, current, shuffle, repeatMode, history, roundVars, cameFrom>>

(* playList, or prepareList with bindAndPlay, with a queue of its own *)
PlayList(n, i) ==
    /\ size' = n
    /\ current' = i
    /\ history' = <<>>
    /\ playing' = TRUE
    /\ heard' = {i}
    /\ inVain' = FALSE
    /\ cameFrom' = None
    /\ UNCHANGED <<shuffle, repeatMode>>

(* append: the first new item is loaded, the history stays. *)
AppendItems(n) ==
    /\ size + n <= MaxSize
    /\ size' = size + n
    /\ current' = size
    /\ playing' = TRUE
    /\ heard' = heard \cup {size}
    /\ cameFrom' = None
    /\ UNCHANGED <<shuffle, repeatMode, history, inVain>>

(* toggleShuffle, and setShuffle with the other value *)
ToggleShuffle ==
    /\ shuffle' = ~shuffle
    /\ ForgetHistory
    /\ cameFrom' = None
    /\ UNCHANGED <<size, current, repeatMode, playing>>

CycleRepeat ==
    /\ repeatMode' = (repeatMode + 1) % 3
    /\ cameFrom' = None
    /\ UNCHANGED <<size, current, shuffle, history, playing, roundVars>>

User ==
    \/ NextTrack \/ Stop \/ Play \/ ToggleShuffle \/ CycleRepeat
    \/ \E late \in BOOLEAN : Prev(late)
    \/ \E n \in 1 .. MaxSize : AppendItems(n) \/ \E i \in 0 .. n - 1 : PlayList(n, i)

Next == User \/ OnComplete

Spec == Init /\ [][Next]_vars

(* A media that plays comes to its end. *)
FairSpec == Spec /\ WF_vars(OnComplete)

-----------------------------------------------------------------------------
TypeOK ==
    /\ size \in 0 .. MaxSize
    /\ current \in Indices \cup {None}
    /\ shuffle \in BOOLEAN
    /\ repeatMode \in 0 .. 2
    /\ history \in Seq(Indices)
    /\ playing \in BOOLEAN
    /\ heard \subseteq Indices
    /\ inVain \in BOOLEAN
    /\ cameFrom \in Indices \cup {None}

(* shuffleHistory never outgrows the queue, even when the draws run out    *)
(* and it holds an index twice, and without shuffle it is empty: so the    *)
(* test for the end of a round in computeNextIndex is met after at most    *)
(* as many steps as the queue is long.                                     *)
HistoryBounded ==
    /\ Len(history) <= size
    /\ size > 1 => Len(history) < size
    /\ ~shuffle => history = <<>>

(* prev undoes a manual next, whatever the order of playing, also when     *)
(* next has just started a new round or wrapped around the queue.          *)
PrevUndoesNext ==
    [][Prev(FALSE) /\ repeatMode # 2 /\ cameFrom # None => current' = cameFrom]_vars

(* Left alone, with no repeat mode, playback comes to a stop: neither the  *)
(* draws of shuffle nor the wrap-around keep it going for ever.            *)
PlaybackEnds ==
    <>[][OnComplete]_vars /\ <>[](repeatMode = 0) => <>[]~playing

(* Within a round of shuffle whose draws find an index not yet played,     *)
(* nothing is played twice: shuffleHistory has no index twice and never    *)
(* the current one.                                                        *)
NothingTwice ==
    ~inVain =>
        /\ \A j, k \in 1 .. Len(history) : j # k => history[j] # history[k]
        /\ size > 1 => current \notin Members(history)

(* What the comments at lines 149 and 1998 of PlaybackService.ets say, as  *)
(* far as the draws allow: with shuffle, playback that ends by itself ends *)
(* after all of the queue was played, whatever next, prev, append and the  *)
(* modes did before.                                                       *)
StopsAfterAll == ~inVain /\ playing /\ shuffle /\ EndOfQueue => heard = Indices
=============================================================================
