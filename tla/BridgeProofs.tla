---------------------------- MODULE BridgeProofs ----------------------------
(***************************************************************************)
(* Two parts of the bridge that meet in no lock and no variable: the media *)
(* and renderers of the service (NativeObjects) and the playback trace     *)
(* (Diagnostics).                                                          *)
(*                                                                         *)
(* Of the media, that none and no descriptor outlives its owner, that no   *)
(* number is read for a file it no longer is of, and that the discoverer   *)
(* is released without an embrace.  Of the trace, that every message it    *)
(* accepted is written, counted as dropped, or still to be written.        *)
(***************************************************************************)
EXTENDS NativeObjects, Diagnostics, FiniteSetTheorems, TLAPS

-----------------------------------------------------------------------------
(***************************************************************************)
(* Media and renderers                                                     *)
(***************************************************************************)
(* What was made is there, what was not is not. *)
MadeIsKnown ==
    /\ \A h \in 1 .. made : file[h] \in Files
    /\ \A h \in 1 .. made : fd[h] # NoFd => file[h] \in Documents
    /\ \A h \in Medias : h > made => fd[h] = NoFd
    /\ \A p \in Players : p > born => set[p] = 0 /\ input[p] = "none"

(* An input reads something. *)
OpensMedium == \A p \in Players : input[p] # "none" => set[p] # 0

(* The native player has the medium the wrapper keeps. *)
PlayerHasMedium ==
    /\ live = 0 => currentMedia = 0
    /\ live # 0 => set[live] = currentMedia

Holds(l, h) == loads[l].at = "options" /\ loads[l].medium = h

(* No two loads have the same medium, nor one that the player has. *)
LoadsOwn ==
    \A l \in Loads : loads[l].at = "options" =>
        /\ loads[l].medium \notin {0, currentMedia}
        /\ \A k \in Loads \ {l} : ~Holds(k, loads[l].medium)

(* The two halves of NothingLeaks: who has a medium, who a descriptor. *)
MediasAreHeld ==
    \A h \in Medias :
        h \in medias <=> h = currentMedia \/ \E l \in Loads : Holds(l, h)

FdsAreOwned ==
    /\ \A h \in medias : fd[h] # NoFd => descriptors[fd[h]] = file[h]
    /\ \A d \in Fds : descriptors[d] # "closed" => \E h \in medias : fd[h] = d
    /\ \A h, k \in medias : fd[h] = fd[k] => h = k \/ fd[h] = NoFd

MediaInv == MadeIsKnown /\ FdsAreOwned

PlayInv == OpensMedium /\ PlayerHasMedium /\ LoadsOwn /\ MediasAreHeld /\ LiveReadsItsFile

(* The discovery is over when its listeners are detached. *)
StoppedFirst == rdCall = "releasing" => rd = "stopped" /\ rdHandler = "idle"

(* The renderer that is being noted is within the bound. *)
EnteredFits == rdHandler = "entered" => found < MaxItems

DiscoveryInv == StoppedFirst /\ EnteredFits

ObjInv == TypeOK /\ MediaInv /\ PlayInv /\ DiscoveryInv

-----------------------------------------------------------------------------
LEMMA Constants ==
    /\ MaxMedias \in Nat /\ MaxPlayers \in Nat /\ MaxLoads \in Nat /\ MaxItems \in Nat
    /\ NoFd \notin Fds
    /\ \A f \in Files : f \notin {"closed", "none", "opening"}
    /\ Documents \subseteq Files
BY ObjectsAssumption DEF ObjectsAssumption, NoFd, Files

(* MediaRelease of h, or of a handle no longer registered *)
LEMMA ReleaseKeeps ==
    ASSUME TypeOK, MediaInv, NEW h, Release(h)
    PROVE  /\ medias' = medias \ {h}
           /\ UNCHANGED <<made, file, fd>>
           /\ descriptors' \in [Fds -> Documents \cup {"closed"}]
           /\ FdsAreOwned'
<1>1. medias' = medias \ {h} /\ UNCHANGED <<made, file, fd>>
  BY DEF Release
<1>2. CASE h \notin medias
  BY <1>1, <1>2 DEF Release, TypeOK, MediaInv, FdsAreOwned
<1>3. CASE h \in medias
  <2>1. \A d \in Fds : descriptors'[d] = IF d = fd[h] THEN "closed" ELSE descriptors[d]
    BY <1>3 DEF Release, Closed
  <2>2. descriptors' \in [Fds -> Documents \cup {"closed"}]
    BY <1>3 DEF Release, Closed, TypeOK
  <2>3. \A k \in medias : fd[k] \in Fds \cup {NoFd}
    BY Constants DEF TypeOK, Medias
  <2>4. ASSUME NEW k \in medias \ {h}, fd[k] # NoFd
        PROVE  descriptors'[fd[k]] = file[k]
    <3>1. fd[k] # fd[h]
      BY <1>3, <2>4 DEF MediaInv, FdsAreOwned
    <3>2. fd[k] \in Fds
      BY <2>3, <2>4
    <3> QED BY <2>1, <2>4, <3>1, <3>2 DEF MediaInv, FdsAreOwned
  <2>5. ASSUME NEW d \in Fds, descriptors'[d] # "closed"
        PROVE  \E k \in medias \ {h} : fd[k] = d
    <3>1. d # fd[h] /\ descriptors[d] # "closed"
      BY <2>1, <2>5
    <3> QED BY <3>1 DEF MediaInv, FdsAreOwned
  <2>6. \A k, m \in medias' : fd[k] = fd[m] => k = m \/ fd[k] = NoFd
    BY <1>1 DEF MediaInv, FdsAreOwned
  <2>7. FdsAreOwned'
    BY <1>1, <2>4, <2>5, <2>6 DEF FdsAreOwned
  <2> QED BY <1>1, <2>2, <2>7
<1> QED BY <1>2, <1>3, <1>1

(* A medium that is made gets a descriptor nobody has, if it needs one. *)
LEMMA NewMediumKeeps ==
    ASSUME TypeOK, MediaInv, NEW f \in Files, NewMedium(f)
    PROVE  /\ made' = made + 1 /\ made + 1 \in Medias /\ made' \in 0 .. MaxMedias
           /\ medias' = medias \cup {made + 1}
           /\ file' \in [Medias -> Files \cup {"none"}]
           /\ fd' \in [Medias -> Fds \cup {NoFd}]
           /\ descriptors' \in [Fds -> Documents \cup {"closed"}]
           /\ \A h \in 1 .. made : file'[h] = file[h] /\ fd'[h] = fd[h]
           /\ \A h \in 1 .. made' : file'[h] \in Files
           /\ \A h \in 1 .. made' : fd'[h] # NoFd => file'[h] \in Documents
           /\ \A h \in Medias : h > made' => fd'[h] = NoFd
           /\ FdsAreOwned'
<1>1. /\ made \in Nat /\ made' = made + 1 /\ made + 1 \in Medias
      /\ made' \in 0 .. MaxMedias /\ made + 1 \notin medias
      /\ medias' = medias \cup {made + 1}
      /\ \A h \in 1 .. made' : h \in Medias /\ (h = made + 1 \/ h \in 1 .. made)
      /\ \A h \in 1 .. made : h \in Medias /\ h # made + 1
      /\ medias \subseteq 1 .. made
  BY Constants DEF NewMedium, TypeOK, Medias
<1>2. /\ file' \in [Medias -> Files \cup {"none"}]
      /\ \A h \in Medias : file'[h] = IF h = made + 1 THEN f ELSE file[h]
  BY <1>1 DEF NewMedium, TypeOK
<1>3. \A h \in 1 .. made : file'[h] = file[h]
  BY <1>1, <1>2
<1>4. \A h \in 1 .. made' : file'[h] \in Files
  BY <1>1, <1>2 DEF MediaInv, MadeIsKnown
<1>5. \A h \in Medias : h > made' => h # made + 1 /\ h > made
  BY <1>1 DEF Medias
<1>6. made + 1 > made
  BY <1>1
<1>7. CASE ~TakesFd(f)
  <2>1. UNCHANGED <<descriptors, fd>>
    BY <1>7 DEF NewMedium
  <2>2. fd[made + 1] = NoFd
    BY <1>1, <1>6 DEF MediaInv, MadeIsKnown
  <2>3. \A h \in 1 .. made' : fd'[h] # NoFd => file'[h] \in Documents
    BY <1>1, <1>2, <2>1, <2>2 DEF MediaInv, MadeIsKnown
  <2>4. \A h \in Medias : h > made' => fd'[h] = NoFd
    BY <1>5, <2>1 DEF MediaInv, MadeIsKnown
  <2>5. \A h \in medias' : fd'[h] # NoFd => h \in medias /\ file'[h] = file[h]
    BY <1>1, <1>3, <2>1, <2>2
  <2>6. FdsAreOwned'
    BY <1>1, <2>1, <2>2, <2>5 DEF FdsAreOwned, MediaInv
  <2> QED BY <1>1, <1>2, <1>3, <1>4, <2>1, <2>3, <2>4, <2>6 DEF TypeOK
<1>8. CASE TakesFd(f)
  <2>1. PICK d \in Fds : /\ descriptors[d] = "closed"
                         /\ descriptors' = [descriptors EXCEPT ![d] = f]
                         /\ fd' = [fd EXCEPT ![made + 1] = d]
    BY <1>8 DEF NewMedium
  <2>2. f \in Documents /\ d # NoFd /\ f # "closed"
    BY <1>8, Constants DEF TakesFd
  <2>3. /\ descriptors' \in [Fds -> Documents \cup {"closed"}]
        /\ \A e \in Fds : descriptors'[e] = IF e = d THEN f ELSE descriptors[e]
    BY <2>1, <2>2 DEF TypeOK
  <2>4. /\ fd' \in [Medias -> Fds \cup {NoFd}]
        /\ \A h \in Medias : fd'[h] = IF h = made + 1 THEN d ELSE fd[h]
    BY <1>1, <2>1 DEF TypeOK
  <2>5. \A h \in 1 .. made : fd'[h] = fd[h]
    BY <1>1, <2>4
  <2>6. \A h \in 1 .. made' : fd'[h] # NoFd => file'[h] \in Documents
    BY <1>1, <1>2, <2>2, <2>4 DEF MediaInv, MadeIsKnown
  <2>7. \A h \in Medias : h > made' => fd'[h] = NoFd
    BY <1>5, <2>4 DEF MediaInv, MadeIsKnown
  <2>8. \A h \in medias : fd[h] \in Fds \cup {NoFd} /\ file[h] # "closed"
    BY <1>1, Constants DEF TypeOK, MediaInv, MadeIsKnown
  <2>9. \A h \in medias : fd[h] # d
    BY <2>1, <2>2, <2>8 DEF MediaInv, FdsAreOwned
  <2>10. ASSUME NEW h \in medias', fd'[h] # NoFd PROVE descriptors'[fd'[h]] = file'[h]
    <3>1. CASE h = made + 1
      BY <1>1, <1>2, <2>3, <2>4, <3>1
    <3>2. CASE h # made + 1
      <4>1. h \in medias /\ fd'[h] = fd[h] /\ file'[h] = file[h] /\ fd[h] \in Fds
        BY <1>1, <1>3, <2>5, <2>8, <2>10, <3>2
      <4> QED BY <2>3, <2>9, <2>10, <4>1 DEF MediaInv, FdsAreOwned
    <3> QED BY <3>1, <3>2
  <2>11. ASSUME NEW e \in Fds, descriptors'[e] # "closed"
         PROVE  \E h \in medias' : fd'[h] = e
    <3>1. CASE e = d
      BY <1>1, <2>4, <3>1
    <3>2. CASE e # d
      <4>1. PICK h \in medias : fd[h] = e
        BY <2>3, <2>11, <3>2 DEF MediaInv, FdsAreOwned
      <4> QED BY <1>1, <2>5, <4>1
    <3> QED BY <3>1, <3>2
  <2>12. ASSUME NEW h \in medias', NEW k \in medias', fd'[h] = fd'[k]
         PROVE  h = k \/ fd'[h] = NoFd
    <3>1. \A m \in medias : fd'[m] = fd[m]
      BY <1>1, <2>5
    <3>2. fd'[made + 1] = d
      BY <1>1, <2>4
    <3> QED BY <1>1, <2>9, <2>12, <3>1, <3>2 DEF MediaInv, FdsAreOwned
  <2>13. FdsAreOwned'
    BY <2>10, <2>11, <2>12 DEF FdsAreOwned
  <2> QED BY <1>1, <1>2, <1>3, <1>4, <2>3, <2>4, <2>5, <2>6, <2>7, <2>13
<1> QED BY <1>7, <1>8

-----------------------------------------------------------------------------
LEMMA InitObj == Init => ObjInv
<1> SUFFICES ASSUME Init PROVE ObjInv
  OBVIOUS
<1> USE Constants DEF Init, NoLoad
<1>1. TypeOK
  BY DEF TypeOK, Medias, Players, Loads
<1>2. MediaInv
  BY DEF MediaInv, MadeIsKnown, FdsAreOwned
<1>3. PlayInv
  BY DEF PlayInv, OpensMedium, PlayerHasMedium, LoadsOwn, MediasAreHeld, Holds,
         LiveReadsItsFile, Medias
<1>4. DiscoveryInv
  BY DEF DiscoveryInv, StoppedFirst, EnteredFits
<1> QED BY <1>1, <1>2, <1>3, <1>4 DEF ObjInv

(* loadCurrent: a medium that is made is the load's alone. *)
LEMMA StartLoadKeeps ==
    ASSUME ObjInv, NEW l \in Loads, NEW f \in Files, StartLoad(l, f)
    PROVE  ObjInv'
<1>1. TypeOK /\ MediaInv /\ NewMedium(f)
  BY DEF ObjInv, StartLoad
<1>h. PICK h \in Medias : h = made + 1
  BY <1>1, NewMediumKeeps
<1>2. /\ made' = h /\ h \in Medias /\ made' \in 0 .. MaxMedias
      /\ medias' = medias \cup {h}
      /\ file' \in [Medias -> Files \cup {"none"}]
      /\ fd' \in [Medias -> Fds \cup {NoFd}]
      /\ descriptors' \in [Fds -> Documents \cup {"closed"}]
      /\ \A k \in 1 .. made : file'[k] = file[k] /\ fd'[k] = fd[k]
      /\ \A k \in 1 .. made' : file'[k] \in Files
      /\ \A k \in 1 .. made' : fd'[k] # NoFd => file'[k] \in Documents
      /\ \A k \in Medias : k > made' => fd'[k] = NoFd
      /\ FdsAreOwned'
  BY <1>1, <1>h, NewMediumKeeps
<1>3. UNCHANGED <<set, input, rd, rdHandler, rdCall, items, found, selected>>
  BY DEF StartLoad, discoveryVars
<1>4. /\ made \in Nat /\ made <= h /\ h \notin 0 .. made /\ h # 0
      /\ \A k \in 0 .. made : k # h /\ k \in 0 .. h
      /\ \A k \in 1 .. made : k # h /\ k \in 1 .. h
      /\ \A k \in 0 .. made : k # 0 => k \in 1 .. made
  BY <1>1, <1>h DEF TypeOK
<1>5. /\ loads' = [loads EXCEPT ![l] = [at |-> "options", medium |-> h]]
      /\ loads'[l] = [at |-> "options", medium |-> h]
      /\ \A k \in Loads \ {l} : loads'[k] = loads[k]
      /\ loads[l].at = "none"
  BY <1>1, <1>h DEF StartLoad, TypeOK, NoLoad
<1>6. loads' \in [Loads -> [at : {"none", "options", "resume"}, medium : 0 .. made']]
  BY <1>1, <1>2, <1>4, <1>5 DEF TypeOK
<1>7. currentMedia' = currentMedia /\ currentMedia \in 0 .. made
  BY <1>1 DEF StartLoad, EnsureLive, ObjInv, PlayInv, PlayerHasMedium, TypeOK
<1>8. \/ live' = live /\ born' = born /\ casts' = casts
      \/ /\ live = 0 /\ live' = born + 1 /\ born' = born + 1 /\ born + 1 \in Players
         /\ casts' = 0 /\ set[born + 1] = 0 /\ input[born + 1] = "none"
  <2>1. CASE live # 0
    BY <2>1 DEF StartLoad, EnsureLive
  <2>2. CASE live = 0
    <3>1. /\ live' = born + 1 /\ born' = born + 1 /\ born < MaxPlayers /\ casts' = 0
      BY <2>2 DEF StartLoad, EnsureLive
    <3>2. born + 1 \in Players /\ born + 1 > born
      BY <1>1, <3>1, Constants DEF TypeOK, Players
    <3> QED BY <2>2, <3>1, <3>2, <1>1 DEF MediaInv, MadeIsKnown
  <2> QED BY <2>1, <2>2
<1>9. live' \in 0 .. born' /\ born' \in 0 .. MaxPlayers /\ casts' \in 0 .. found'
  BY <1>1, <1>3, <1>8, Constants DEF TypeOK, Players
<1>10. TypeOK'
  <2>1. medias' \subseteq 1 .. made' /\ currentMedia' \in 0 .. made'
    BY <1>1, <1>2, <1>4, <1>7 DEF TypeOK
  <2>2. set' \in [Players -> 0 .. made']
    BY <1>1, <1>2, <1>3, <1>4 DEF TypeOK
  <2> QED BY <1>1, <1>2, <1>3, <1>6, <1>9, <2>1, <2>2 DEF TypeOK
<1>11. MediaInv'
  <2>1. \A p \in Players : p > born' => p > born
    BY <1>1, <1>8 DEF TypeOK, Players
  <2> QED BY <1>1, <1>2, <1>3, <2>1 DEF MediaInv, MadeIsKnown
<1>12. \A k \in Loads : \A m \in Medias : loads[k].at = "options" /\ k # l =>
            loads[k].medium \in 1 .. made
  BY <1>1, <1>4 DEF ObjInv, PlayInv, LoadsOwn, TypeOK
<1>13. \A k \in Loads, m \in 1 .. h :
            Holds(k, m)' <=> (k = l /\ m = h) \/ (k # l /\ Holds(k, m))
  BY <1>5 DEF Holds
<1>14. \A k \in Loads : Holds(k, h)' <=> k = l
  BY <1>2, <1>4, <1>5, <1>12 DEF Holds
<1>15. LoadsOwn'
  <2> SUFFICES ASSUME NEW k \in Loads, loads'[k].at = "options"
               PROVE  /\ loads'[k].medium \notin {0, currentMedia'}
                      /\ \A j \in Loads \ {k} : ~Holds(j, loads[k].medium)'
    BY DEF LoadsOwn
  <2>1. CASE k = l
    BY <2>1, <1>4, <1>5, <1>7, <1>14
  <2>2. CASE k # l
    <3>1. loads'[k] = loads[k] /\ loads[k].medium \in 1 .. made
      BY <2>2, <1>2, <1>5, <1>12
    <3>2. loads[k].medium # h /\ loads[k].medium \notin {0, currentMedia}
      BY <2>2, <3>1, <1>4 DEF ObjInv, PlayInv, LoadsOwn
    <3>3. ASSUME NEW j \in Loads \ {k} PROVE ~Holds(j, loads[k].medium)'
      BY <2>2, <3>1, <3>2, <1>5 DEF ObjInv, PlayInv, LoadsOwn, Holds
    <3> QED BY <3>1, <3>2, <3>3, <1>7
  <2> QED BY <2>1, <2>2
<1>16. MediasAreHeld'
  <2> SUFFICES ASSUME NEW m \in Medias
               PROVE  m \in medias' <=> m = currentMedia' \/ \E k \in Loads : Holds(k, m)'
    BY DEF MediasAreHeld
  <2>1. CASE m = h
    BY <2>1, <1>2, <1>14
  <2>2. CASE m # h
    <3>1. \A k \in Loads : Holds(k, m)' <=> Holds(k, m)
      BY <2>2, <1>5 DEF Holds
    <3> QED BY <2>2, <3>1, <1>2, <1>7 DEF ObjInv, PlayInv, MediasAreHeld
  <2> QED BY <2>1, <2>2
<1>17. OpensMedium' /\ PlayerHasMedium'
  BY <1>3, <1>7, <1>8 DEF ObjInv, PlayInv, OpensMedium, PlayerHasMedium
<1>18. LiveReadsItsFile'
  <2>1. CASE live' = live
    <3> SUFFICES ASSUME live # 0, input[live] \notin {"none", "opening"}
                 PROVE  input[live] = file'[set[live]]
      BY <2>1, <1>3 DEF LiveReadsItsFile
    <3>1. live \in Players /\ set[live] \in 0 .. made
      BY <1>1, Constants DEF TypeOK, Players
    <3>2. set[live] # 0
      BY <3>1 DEF ObjInv, PlayInv, OpensMedium
    <3> QED BY <1>2, <1>4, <3>1, <3>2 DEF ObjInv, PlayInv, LiveReadsItsFile
  <2>2. CASE live' = born + 1 /\ input[born + 1] = "none"
    BY <2>2, <1>3 DEF LiveReadsItsFile
  <2> QED BY <2>1, <2>2, <1>8
<1>19. DiscoveryInv'
  BY <1>3 DEF ObjInv, DiscoveryInv, StoppedFirst, EnteredFits
<1> QED BY <1>10, <1>11, <1>15, <1>16, <1>17, <1>18, <1>19 DEF ObjInv, PlayInv

(* player.setMedia: the load's medium becomes the player's. *)
LEMMA EndOptionsKeeps ==
    ASSUME ObjInv, NEW l \in Loads, EndOptions(l)
    PROVE  ObjInv'
<1>1. TypeOK /\ MediaInv
  BY DEF ObjInv
<1>2. PICK h \in 1 .. made : h = loads[l].medium
  BY <1>1 DEF ObjInv, PlayInv, LoadsOwn, EndOptions, TypeOK
<1>3. /\ UNCHANGED <<live, born, rd, rdHandler, rdCall, items, found, selected, casts>>
      /\ loads[l].at = "options" /\ Holds(l, h)
  BY <1>2 DEF EndOptions, discoveryVars, castVars, Holds
<1>4. /\ h # currentMedia /\ h # 0 /\ h \in Medias /\ h \in medias
      /\ \A k \in Loads \ {l} : ~Holds(k, h)
  <2>1. h \in Medias /\ h # 0
    BY <1>1, <1>2, Constants DEF TypeOK, Medias
  <2> QED BY <1>2, <1>3, <2>1 DEF ObjInv, PlayInv, LoadsOwn, MediasAreHeld
<1>5. DiscoveryInv'
  BY <1>3 DEF ObjInv, DiscoveryInv, StoppedFirst, EnteredFits
<1>6. \A k \in Loads \ {l} : loads'[k] = loads[k]
  BY <1>1 DEF EndOptions, TypeOK
<1>7. loads'[l].at # "options"
  BY <1>1 DEF EndOptions, TypeOK, NoLoad
<1>8. \A k \in Loads, m \in Medias : Holds(k, m)' <=> k # l /\ Holds(k, m)
  BY <1>6, <1>7 DEF Holds
<1>9. CASE live # 0
  <2>1. /\ set' = [set EXCEPT ![live] = h]
        /\ input' = [input EXCEPT ![live] = "none"]
        /\ Release(currentMedia) /\ currentMedia' = h
        /\ loads' = [loads EXCEPT ![l].at = "resume"]
    BY <1>2, <1>9 DEF EndOptions, ReleaseReplaced
  <2>2. /\ medias' = medias \ {currentMedia} /\ UNCHANGED <<made, file, fd>>
        /\ descriptors' \in [Fds -> Documents \cup {"closed"}] /\ FdsAreOwned'
    BY <1>1, <2>1, ReleaseKeeps
  <2>3. /\ live \in Players /\ live \in 1 .. born /\ ~(live > born)
    BY <1>1, <1>9, Constants DEF TypeOK, Players
  <2>4. /\ \A p \in Players : set'[p] = IF p = live THEN h ELSE set[p]
        /\ \A p \in Players : input'[p] = IF p = live THEN "none" ELSE input[p]
        /\ set' \in [Players -> 0 .. made]
        /\ input' \in [Players -> Files \cup {"none", "opening", "closed"}]
    BY <1>1, <1>2, <2>1, <2>3 DEF TypeOK
  <2>5. loads' \in [Loads -> [at : {"none", "options", "resume"}, medium : 0 .. made]]
    BY <1>1, <2>1 DEF TypeOK
  <2>6. TypeOK'
    <3>1. medias' \subseteq 1 .. made' /\ currentMedia' \in 0 .. made'
      BY <1>1, <1>2, <2>1, <2>2 DEF TypeOK
    <3> QED BY <1>1, <1>3, <2>2, <2>4, <2>5, <3>1 DEF TypeOK
  <2>7. MediaInv'
    BY <1>1, <1>3, <2>2, <2>3, <2>4 DEF MediaInv, MadeIsKnown
  <2>8. OpensMedium' /\ PlayerHasMedium' /\ LiveReadsItsFile'
    BY <1>3, <1>4, <1>9, <2>1, <2>3, <2>4
       DEF ObjInv, PlayInv, OpensMedium, PlayerHasMedium, LiveReadsItsFile
  <2>9. LoadsOwn'
    <3> SUFFICES ASSUME NEW k \in Loads, loads'[k].at = "options"
                 PROVE  /\ loads'[k].medium \notin {0, currentMedia'}
                        /\ \A j \in Loads \ {k} : ~Holds(j, loads[k].medium)'
      BY DEF LoadsOwn
    <3>1. k # l /\ loads'[k] = loads[k]
      BY <1>6, <1>7
    <3>2. loads[k].medium # h
      BY <1>4, <3>1 DEF Holds
    <3>3. \A j \in Loads \ {k} : ~Holds(j, loads[k].medium)'
      BY <1>6, <1>7, <3>1 DEF ObjInv, PlayInv, LoadsOwn, Holds
    <3> QED BY <2>1, <3>1, <3>2, <3>3 DEF ObjInv, PlayInv, LoadsOwn
  <2>10. MediasAreHeld'
    <3> SUFFICES ASSUME NEW m \in Medias
                 PROVE  m \in medias' <=> m = currentMedia' \/ \E k \in Loads : Holds(k, m)'
      BY DEF MediasAreHeld
    <3>1. m = currentMedia => \A k \in Loads : ~Holds(k, m)
      BY DEF ObjInv, PlayInv, LoadsOwn, Holds
    <3>2. m \in medias <=> m = currentMedia \/ \E k \in Loads : Holds(k, m)
      BY DEF ObjInv, PlayInv, MediasAreHeld
    <3>3. Holds(l, m) => m = h
      BY <1>2 DEF Holds
    <3> QED BY <1>3, <1>4, <1>8, <2>1, <2>2, <3>1, <3>2, <3>3
  <2> QED BY <1>5, <2>6, <2>7, <2>8, <2>9, <2>10 DEF ObjInv, PlayInv
<1>10. CASE live = 0
  <2>1. /\ UNCHANGED <<set, input, currentMedia>> /\ Release(h)
        /\ loads' = [loads EXCEPT ![l] = NoLoad]
    BY <1>2, <1>10 DEF EndOptions, ReleaseRefused
  <2>2. /\ medias' = medias \ {h} /\ UNCHANGED <<made, file, fd>>
        /\ descriptors' \in [Fds -> Documents \cup {"closed"}] /\ FdsAreOwned'
    BY <1>1, <2>1, ReleaseKeeps
  <2>3. loads' \in [Loads -> [at : {"none", "options", "resume"}, medium : 0 .. made]]
    BY <1>1, <2>1 DEF TypeOK, NoLoad
  <2>4. TypeOK'
    BY <1>1, <1>3, <2>1, <2>2, <2>3 DEF TypeOK
  <2>5. MediaInv'
    BY <1>1, <1>3, <2>1, <2>2 DEF MediaInv, MadeIsKnown
  <2>6. OpensMedium' /\ PlayerHasMedium' /\ LiveReadsItsFile'
    BY <1>3, <2>1, <2>2 DEF ObjInv, PlayInv, OpensMedium, PlayerHasMedium, LiveReadsItsFile
  <2>7. LoadsOwn'
    BY <1>6, <1>7, <2>1 DEF ObjInv, PlayInv, LoadsOwn, Holds
  <2>8. MediasAreHeld'
    <3> SUFFICES ASSUME NEW m \in Medias
                 PROVE  m \in medias' <=> m = currentMedia' \/ \E k \in Loads : Holds(k, m)'
      BY DEF MediasAreHeld
    <3>1. m \in medias <=> m = currentMedia \/ \E k \in Loads : Holds(k, m)
      BY DEF ObjInv, PlayInv, MediasAreHeld
    <3>2. Holds(l, m) => m = h
      BY <1>2 DEF Holds
    <3> QED BY <1>3, <1>4, <1>8, <2>1, <2>2, <3>1, <3>2
  <2> QED BY <1>5, <2>4, <2>5, <2>6, <2>7, <2>8 DEF ObjInv, PlayInv
<1> QED BY <1>9, <1>10

(* player.play *)
LEMMA EndResumeKeeps ==
    ASSUME ObjInv, NEW l \in Loads, EndResume(l)
    PROVE  ObjInv'
<1>1. /\ UNCHANGED <<mediaVars, live, born, currentMedia, set, discoveryVars, castVars>>
      /\ loads[l].at = "resume" /\ loads' = [loads EXCEPT ![l] = NoLoad]
      /\ TypeOK
  BY DEF EndResume, ObjInv
<1>2. /\ loads' \in [Loads -> [at : {"none", "options", "resume"}, medium : 0 .. made]]
      /\ \A k \in Loads \ {l} : loads'[k] = loads[k]
      /\ loads'[l].at # "options"
  BY <1>1 DEF TypeOK, NoLoad
<1>3. \A k \in Loads, m \in Medias : Holds(k, m)' <=> Holds(k, m)
  BY <1>1, <1>2 DEF Holds
<1>4. \/ input' = input
      \/ /\ live # 0 /\ live \in Players /\ set[live] # 0 /\ ~(live > born)
         /\ input' = [input EXCEPT ![live] = "opening"]
  BY <1>1, Constants DEF EndResume, TypeOK, Players
<1>5. /\ input' \in [Players -> Files \cup {"none", "opening", "closed"}]
      /\ \A p \in Players : \/ input'[p] = input[p]
                            \/ input'[p] = "opening" /\ set[p] # 0 /\ ~(p > born)
  BY <1>1, <1>4 DEF TypeOK
<1>6. TypeOK'
  BY <1>1, <1>2, <1>5 DEF TypeOK, mediaVars, discoveryVars, castVars
<1>7. MediaInv'
  BY <1>1, <1>5 DEF ObjInv, MediaInv, MadeIsKnown, FdsAreOwned, mediaVars
<1>8. OpensMedium' /\ PlayerHasMedium' /\ MediasAreHeld'
  BY <1>1, <1>3, <1>5 DEF ObjInv, PlayInv, OpensMedium, PlayerHasMedium, MediasAreHeld,
     mediaVars
<1>9. LiveReadsItsFile'
  BY <1>1, <1>4 DEF ObjInv, PlayInv, LiveReadsItsFile, mediaVars, TypeOK
<1>10. LoadsOwn'
  BY <1>1, <1>2 DEF ObjInv, PlayInv, LoadsOwn, Holds
<1>11. DiscoveryInv'
  BY <1>1 DEF ObjInv, DiscoveryInv, StoppedFirst, EnteredFits, discoveryVars
<1> QED BY <1>6, <1>7, <1>8, <1>9, <1>10, <1>11 DEF ObjInv, PlayInv

(* What the live player's input opens is the medium's file: the medium is  *)
(* registered, so its descriptor is its own.                               *)
LEMMA InputOpensKeeps ==
    ASSUME ObjInv, NEW p \in Players, InputOpens(p)
    PROVE  ObjInv'
<1>1. /\ UNCHANGED <<mediaVars, live, born, currentMedia, loads, set, discoveryVars,
                     castVars>>
      /\ input[p] = "opening" /\ TypeOK
  BY DEF InputOpens, ObjInv
<1>2. PICK h \in Medias : h = set[p] /\ h \in 1 .. made
  BY <1>1, Constants DEF ObjInv, PlayInv, OpensMedium, TypeOK, Medias
<1>3. input' = [input EXCEPT ![p] = IF fd[h] = NoFd THEN file[h] ELSE descriptors[fd[h]]]
  BY <1>2 DEF InputOpens
<1>4. (IF fd[h] = NoFd THEN file[h] ELSE descriptors[fd[h]])
            \in Files \cup {"none", "opening", "closed"}
  BY <1>1, <1>2, Constants DEF TypeOK
<1>5. input' \in [Players -> Files \cup {"none", "opening", "closed"}]
  BY <1>1, <1>3, <1>4 DEF TypeOK
<1>6. TypeOK'
  BY <1>1, <1>5 DEF TypeOK, mediaVars, discoveryVars, castVars
<1>7. \A q \in Players \ {p} : input'[q] = input[q]
  BY <1>1, <1>3 DEF TypeOK
<1>8. MediaInv'
  <2>1. ~(p > born)
    BY <1>1 DEF ObjInv, MediaInv, MadeIsKnown
  <2> QED BY <1>1, <1>7, <2>1 DEF ObjInv, MediaInv, MadeIsKnown, FdsAreOwned, mediaVars
<1>9. OpensMedium' /\ PlayerHasMedium' /\ LoadsOwn' /\ MediasAreHeld'
  BY <1>1, <1>2, <1>7 DEF ObjInv, PlayInv, OpensMedium, PlayerHasMedium, LoadsOwn,
     MediasAreHeld, Holds, mediaVars
<1>10. LiveReadsItsFile'
  <2>1. CASE p = live
    <3>1. h = currentMedia /\ h \in medias /\ live # 0
      BY <1>1, <1>2, <2>1 DEF ObjInv, PlayInv, PlayerHasMedium, MediasAreHeld, TypeOK, Players
    <3>2. fd[h] # NoFd => descriptors[fd[h]] = file[h]
      BY <3>1 DEF ObjInv, MediaInv, FdsAreOwned
    <3>3. input'[p] = file[h]
      BY <1>1, <1>3, <3>2 DEF TypeOK
    <3> QED BY <1>1, <1>2, <2>1, <3>3 DEF LiveReadsItsFile, mediaVars
  <2>2. CASE p # live
    <3>1. live # 0 => live \in Players
      BY <1>1, Constants DEF TypeOK, Players
    <3> QED BY <1>1, <1>7, <2>2, <3>1 DEF ObjInv, PlayInv, LiveReadsItsFile, mediaVars
  <2> QED BY <2>1, <2>2
<1>11. DiscoveryInv'
  BY <1>1 DEF ObjInv, DiscoveryInv, StoppedFirst, EnteredFits, discoveryVars
<1> QED BY <1>6, <1>8, <1>9, <1>10, <1>11 DEF ObjInv, PlayInv

(* The player goes with its medium: stop, and release after the discovery. *)
LEMMA PlayerGoesKeeps ==
    ASSUME ObjInv, Release(currentMedia), currentMedia' = 0, live' = 0, casts' = 0,
           selected' \in 0 .. found, UNCHANGED <<born, loads, set>>,
           \/ input' = input
           \/ input' = [p \in Players |-> IF p = live THEN "none" ELSE input[p]],
           rd' \in {"none", "running", "stopped"}, rdHandler' = rdHandler,
           rdCall' \in {rdCall, "none"}, rdCall' = rdCall => rd' = rd,
           items' \in {items, {}}, found' = found
    PROVE  ObjInv'
<1>1. TypeOK /\ MediaInv
  BY DEF ObjInv
<1>2. /\ medias' = medias \ {currentMedia} /\ UNCHANGED <<made, file, fd>>
      /\ descriptors' \in [Fds -> Documents \cup {"closed"}] /\ FdsAreOwned'
  BY <1>1, ReleaseKeeps
<1>3. /\ input' \in [Players -> Files \cup {"none", "opening", "closed"}]
      /\ \A p \in Players : input'[p] \in {input[p], "none"}
  BY <1>1 DEF TypeOK
<1>4. TypeOK'
  <2>1. live' \in 0 .. born' /\ currentMedia' \in 0 .. made' /\ casts' \in 0 .. found'
    BY <1>1, <1>2 DEF TypeOK
  <2>2. items' \subseteq 1 .. found' /\ rdCall' \in {"none", "starting", "stopping", "releasing"}
    BY <1>1 DEF TypeOK
  <2> QED BY <1>1, <1>2, <1>3, <2>1, <2>2 DEF TypeOK
<1>5. MediaInv'
  BY <1>1, <1>2, <1>3 DEF MediaInv, MadeIsKnown
<1>6. OpensMedium' /\ PlayerHasMedium' /\ LiveReadsItsFile'
  BY <1>3 DEF ObjInv, PlayInv, OpensMedium, PlayerHasMedium, LiveReadsItsFile
<1>7. LoadsOwn'
  BY DEF ObjInv, PlayInv, LoadsOwn, Holds
<1>8. MediasAreHeld'
  <2> SUFFICES ASSUME NEW m \in Medias
               PROVE  m \in medias' <=> m = currentMedia' \/ \E k \in Loads : Holds(k, m)'
    BY DEF MediasAreHeld
  <2>1. m # 0 /\ \A k \in Loads : Holds(k, m)' <=> Holds(k, m)
    BY Constants DEF Holds, Medias
  <2>2. \A k \in Loads : Holds(k, m) => m # currentMedia
    BY DEF ObjInv, PlayInv, LoadsOwn, Holds
  <2>3. m \in medias <=> m = currentMedia \/ \E k \in Loads : Holds(k, m)
    BY DEF ObjInv, PlayInv, MediasAreHeld
  <2> QED BY <1>2, <2>1, <2>2, <2>3
<1>9. DiscoveryInv'
  BY <1>1 DEF ObjInv, DiscoveryInv, StoppedFirst, EnteredFits
<1> QED BY <1>4, <1>5, <1>6, <1>7, <1>8, <1>9 DEF ObjInv, PlayInv

LEMMA TeardownKeeps ==
    ASSUME ObjInv, NEW p \in Players, TeardownEnds(p)
    PROVE  ObjInv'
<1>1. /\ UNCHANGED <<mediaVars, live, born, currentMedia, loads, set, discoveryVars,
                     castVars>>
      /\ p # live /\ input' = [input EXCEPT ![p] = "none"] /\ TypeOK
  BY DEF TeardownEnds, ObjInv
<1>2. /\ input' \in [Players -> Files \cup {"none", "opening", "closed"}]
      /\ \A q \in Players : input'[q] = IF q = p THEN "none" ELSE input[q]
  BY <1>1 DEF TypeOK
<1>3. TypeOK'
  BY <1>1, <1>2 DEF TypeOK, mediaVars, discoveryVars, castVars
<1>4. MediaInv'
  BY <1>1, <1>2 DEF ObjInv, MediaInv, MadeIsKnown, FdsAreOwned, mediaVars
<1>5. OpensMedium' /\ PlayerHasMedium' /\ LoadsOwn' /\ MediasAreHeld'
  BY <1>1, <1>2 DEF ObjInv, PlayInv, OpensMedium, PlayerHasMedium, LoadsOwn,
     MediasAreHeld, Holds, mediaVars
<1>6. LiveReadsItsFile'
  <2>1. live # 0 => live \in Players
    BY <1>1, Constants DEF TypeOK, Players
  <2> QED BY <1>1, <1>2, <2>1 DEF ObjInv, PlayInv, LiveReadsItsFile, mediaVars
<1>7. DiscoveryInv'
  BY <1>1 DEF ObjInv, DiscoveryInv, StoppedFirst, EnteredFits, discoveryVars
<1> QED BY <1>3, <1>4, <1>5, <1>6, <1>7 DEF ObjInv, PlayInv

(* A step of the discovery leaves the media alone. *)
LEMMA DiscoveryKeeps ==
    ASSUME ObjInv, DiscoveryStep,
           rd' \in {"none", "running", "stopped"}, rdHandler' \in {"idle", "entered"},
           rdCall' \in {"none", "starting", "stopping", "releasing"},
           found' \in 0 .. MaxItems, items' \subseteq 1 .. found',
           selected' \in 0 .. found', casts' \in 0 .. found', DiscoveryInv'
    PROVE  ObjInv'
<1> USE DEF DiscoveryStep, mediaVars, playVars
<1>1. TypeOK'
  BY DEF ObjInv, TypeOK
<1>2. MediaInv'
  BY DEF ObjInv, MediaInv, MadeIsKnown, FdsAreOwned
<1>3. PlayInv'
  BY DEF ObjInv, PlayInv, OpensMedium, PlayerHasMedium, LoadsOwn, MediasAreHeld, Holds,
     LiveReadsItsFile
<1> QED BY <1>1, <1>2, <1>3 DEF ObjInv

(* discoverer.stop and the events: the discovery is over when the          *)
(* listeners are detached.                                                 *)
LEMMA DiscoveryStepKeeps ==
    ASSUME ObjInv,
           \/ StartDiscovery \/ StartReturns \/ ItemAdded \/ ItemNoted
           \/ \E i \in Items : SetRenderer(i)
           \/ ClearRenderer \/ StopReturns
           \/ ServiceRelease /\ rd = "running"
    PROVE  ObjInv'
<1>1. TypeOK /\ StoppedFirst /\ EnteredFits
  BY DEF ObjInv, DiscoveryInv
<1>2. DiscoveryStep
  BY DEF StartDiscovery, StartReturns, ItemAdded, ItemNoted, SetRenderer, ClearRenderer,
         StopReturns, ServiceRelease
<1>3. /\ rd' \in {"none", "running", "stopped"} /\ rdHandler' \in {"idle", "entered"}
      /\ rdCall' \in {"none", "starting", "stopping", "releasing"}
      /\ DiscoveryInv'
  BY <1>1 DEF TypeOK, DiscoveryInv, StoppedFirst, EnteredFits, StartDiscovery,
     StartReturns, ItemAdded, ItemNoted, SetRenderer, ClearRenderer, StopReturns, ServiceRelease, FirstCall, JsIdle,
     discoveryVars
<1>4. /\ found' \in 0 .. MaxItems /\ items' \subseteq 1 .. found'
      /\ selected' \in 0 .. found' /\ casts' \in 0 .. found'
  <2>1. CASE ItemNoted
    <3>1. PICK n \in 0 .. MaxItems : n = found
      BY <1>1 DEF TypeOK
    <3>2. found' = n + 1 /\ items' = items \cup {n + 1} /\ UNCHANGED castVars
      BY <2>1, <3>1 DEF ItemNoted
    <3>3. n < MaxItems
      BY <1>1, <2>1, <3>1 DEF ItemNoted, EnteredFits
    <3>4. n + 1 \in 0 .. MaxItems /\ n + 1 \in 1 .. n + 1 /\ \A i \in 0 .. n : i \in 0 .. n + 1
      BY <3>1, <3>3, Constants
    <3>5. items' \subseteq 1 .. found'
      BY <1>1, <3>1, <3>2, <3>4 DEF TypeOK
    <3> QED BY <1>1, <3>1, <3>2, <3>4, <3>5 DEF TypeOK, castVars
  <2>2. CASE \E i \in Items : SetRenderer(i)
    BY <1>1, <2>2 DEF TypeOK, SetRenderer, discoveryVars
  <2>3. CASE ClearRenderer
    BY <1>1, <2>3 DEF TypeOK, ClearRenderer, discoveryVars
  <2>4. CASE StartDiscovery \/ StartReturns \/ ItemAdded \/ StopReturns
    BY <1>1, <2>4 DEF TypeOK, StartDiscovery, StartReturns, ItemAdded, StopReturns, castVars
  <2>5. CASE ServiceRelease /\ rd = "running"
    BY <1>1, <2>5 DEF TypeOK, ServiceRelease, castVars
  <2> QED BY <2>1, <2>2, <2>3, <2>4, <2>5
<1> QED BY <1>2, <1>3, <1>4, DiscoveryKeeps

LEMMA ObjStep == ObjInv /\ [Next]_vars => ObjInv'
<1> SUFFICES ASSUME ObjInv, [Next]_vars PROVE ObjInv'
  OBVIOUS
<1>1. ASSUME NEW l \in Loads, NEW f \in Files, StartLoad(l, f) PROVE ObjInv'
  BY <1>1, StartLoadKeeps
<1>2. ASSUME NEW l \in Loads, EndOptions(l) PROVE ObjInv'
  BY <1>2, EndOptionsKeeps
<1>3. ASSUME NEW l \in Loads, EndResume(l) PROVE ObjInv'
  BY <1>3, EndResumeKeeps
<1>4. ASSUME NEW p \in Players, InputOpens(p) PROVE ObjInv'
  BY <1>4, InputOpensKeeps
<1>5. ASSUME NEW p \in Players, TeardownEnds(p) PROVE ObjInv'
  BY <1>5, TeardownKeeps
<1>6. TypeOK
  BY DEF ObjInv
<1>7. CASE Stop
  BY <1>6, <1>7, PlayerGoesKeeps DEF Stop, TypeOK, discoveryVars
<1>8. CASE ReleaseReturns
  <2>1. 0 \in 0 .. found
    BY <1>6 DEF TypeOK
  <2> QED BY <1>8, <2>1, PlayerGoesKeeps DEF ReleaseReturns, ReleasePlayer
<1>9. CASE ServiceRelease /\ ~(rd = "running")
  <2>1. 0 \in 0 .. found
    BY <1>6 DEF TypeOK
  <2> QED BY <1>6, <1>9, <2>1, PlayerGoesKeeps DEF ServiceRelease, ReleasePlayer,
            discoveryVars, TypeOK
<1>10. CASE \/ StartDiscovery \/ StartReturns \/ ItemAdded \/ ItemNoted
            \/ \E i \in Items : SetRenderer(i)
            \/ ClearRenderer \/ StopReturns
            \/ ServiceRelease /\ rd = "running"
  BY <1>10, DiscoveryStepKeeps
<1>11. CASE UNCHANGED vars
  <2> USE <1>11 DEF vars, mediaVars, playVars, discoveryVars, castVars
  <2>1. TypeOK' /\ DiscoveryInv'
    BY DEF ObjInv, TypeOK, DiscoveryInv, StoppedFirst, EnteredFits
  <2>2. MediaInv'
    BY DEF ObjInv, MediaInv, MadeIsKnown, FdsAreOwned
  <2>3. PlayInv'
    BY DEF ObjInv, PlayInv, OpensMedium, PlayerHasMedium, LoadsOwn, MediasAreHeld, Holds,
       LiveReadsItsFile
  <2> QED BY <2>1, <2>2, <2>3 DEF ObjInv
<1> QED BY <1>1, <1>2, <1>3, <1>4, <1>5, <1>7, <1>8, <1>9, <1>10, <1>11 DEF Next

LEMMA ObjAlways == Spec => []ObjInv
BY InitObj, ObjStep, PTL DEF Spec

(* The media, descriptors, inputs and renderers have their types.          *)
THEOREM ObjectsTypeCorrect == Spec => []TypeOK
<1>1. ObjInv => TypeOK
  BY DEF ObjInv
<1> QED BY <1>1, ObjAlways, PTL

(* However loads, stops and the opening of an input interleave, the player *)
(* of the session reads the file of its medium (loadCurrent,               *)
(* MediaPlayer.setMedia, MediaRelease).                                    *)
THEOREM ReadsItsFile == Spec => []LiveReadsItsFile
<1>1. ObjInv => LiveReadsItsFile
  BY DEF ObjInv, PlayInv
<1> QED BY <1>1, ObjAlways, PTL

(* Every registered medium is the player's or a load's, and every open     *)
(* descriptor is of one registered medium (MediaCreateFd, MediaRelease).   *)
THEOREM LeaksNothing == Spec => []NothingLeaks
<1>1. ASSUME ObjInv PROVE NothingLeaks
  <2>1. \A l \in Loads, h \in Medias :
            Holds(l, h) <=> loads[l] = [at |-> "options", medium |-> h]
    BY <1>1 DEF ObjInv, TypeOK, Holds
  <2>2. medias \subseteq Medias
    BY <1>1, Constants DEF ObjInv, TypeOK, Medias
  <2>3. medias = {h \in Medias :
            \/ h = currentMedia
            \/ \E l \in Loads : loads[l] = [at |-> "options", medium |-> h]}
    BY <1>1, <2>1, <2>2 DEF ObjInv, PlayInv, MediasAreHeld
  <2> QED BY <1>1, <2>3 DEF ObjInv, MediaInv, FdsAreOwned, NothingLeaks
<1> QED BY <1>1, ObjAlways, PTL

(* When the JS thread holds g_mtx to detach the listeners of the           *)
(* discoverer, no event of it is under way (RendererDiscovererStop before  *)
(* RendererDiscovererRelease).                                             *)
THEOREM DiscoveryEndsFirst == Spec => []DiscoveryNeverEmbraces
<1>1. ObjInv => DiscoveryNeverEmbraces
  BY DEF ObjInv, DiscoveryInv, StoppedFirst, DiscoveryNeverEmbraces, MutexFree
<1> QED BY <1>1, ObjAlways, PTL

-----------------------------------------------------------------------------
(***************************************************************************)
(* The trace                                                               *)
(***************************************************************************)
LEMMA InitTrace == TraceInit => TraceTypeOK
<1> SUFFICES ASSUME TraceInit PROVE TraceTypeOK
  OBVIOUS
<1>1. 0 \in 0 .. QueueMax /\ 0 \in 0 .. Budget
  BY DiagnosticsAssumption
<1>2. enabled \in BOOLEAN /\ reportDue \in BOOLEAN /\ switch \in BOOLEAN
  BY DEF TraceInit
<1>3. /\ dropped \in Nat /\ held \in {0, 1} /\ balance \in Int
      /\ queue \in 0 .. QueueMax /\ budget \in 0 .. Budget
  BY <1>1 DEF TraceInit
<1> QED BY <1>2, <1>3 DEF TraceInit, TraceTypeOK

LEMMA TypeTrace == TraceTypeOK /\ [TraceNext]_traceVars => TraceTypeOK'
<1> SUFFICES ASSUME TraceTypeOK, [TraceNext]_traceVars PROVE TraceTypeOK'
  OBVIOUS
<1> USE DiagnosticsAssumption DEF TraceTypeOK, DiagnosticsAssumption
<1>1. ASSUME NEW p \in Producers, SeesEnabled(p) PROVE TraceTypeOK'
  BY <1>1 DEF SeesEnabled, Moves
<1>2. ASSUME NEW p \in Producers, TryLockFails(p) PROVE TraceTypeOK'
  BY <1>2 DEF TryLockFails, Moves
<1>3. ASSUME NEW p \in Producers, CountsDrop(p) PROVE TraceTypeOK'
  BY <1>3 DEF CountsDrop, Moves, CountContended
<1>4. ASSUME NEW p \in Producers, TryLockSucceeds(p) PROVE TraceTypeOK'
  BY <1>4 DEF TryLockSucceeds, Moves
<1>5. ASSUME NEW p \in Producers, Submits(p) PROVE TraceTypeOK'
  BY <1>5 DEF Submits, Moves, StillEnabled, Full
<1>6. CASE (\E on \in BOOLEAN : LocksSwitch(on)) \/ SetEnabled
  <2>1. Cardinality(Contended) \in Int
    BY FS_Subset, FS_CardinalityType DEF Contended
  <2> QED BY <1>6, <2>1 DEF LocksSwitch, SetEnabled
<1>7. CASE WorkerLocks \/ SecondPasses
  BY <1>7 DEF WorkerLocks, SecondPasses
<1>9. CASE Pops \/ Writes
  BY <1>9 DEF Pops, Writes
<1>10. CASE Reports
  <2>1. dropped' \in Nat /\ balance' \in Int
    BY <1>10 DEF Reports
  <2>2. reportDue' \in BOOLEAN
    BY <1>10 DEF Reports
  <2> QED BY <1>10, <2>1, <2>2 DEF Reports
<1>8. CASE UNCHANGED traceVars
  BY <1>8 DEF traceVars
<1> QED BY <1>1, <1>2, <1>3, <1>4, <1>5, <1>6, <1>7, <1>8, <1>9, <1>10 DEF TraceNext, Submit, Run

(* The worker has an entry in its hand only between popping and writing it. *)
HandIsEmpty == worker # "writing" => held = 0

TraceInv == TraceTypeOK /\ HandIsEmpty /\ NothingLost

LEMMA ContendedFinite == IsFiniteSet(Contended) /\ Cardinality(Contended) \in Nat
<1>1. IsFiniteSet(Contended)
  BY DiagnosticsAssumption, FS_Subset DEF DiagnosticsAssumption, Contended
<1> QED BY <1>1, FS_CardinalityType

(* A thread that fails to get the lock joins the contended ones; it leaves *)
(* them when it has counted its message.                                   *)
LEMMA ContendedChanges ==
    ASSUME NEW p \in Producers, TraceTypeOK, NEW place, Moves(p, place)
    PROVE  /\ producer[p] # "contended" /\ place # "contended" =>
                 Contended' = Contended
           /\ producer[p] # "contended" /\ place = "contended" =>
                 Cardinality(Contended') = Cardinality(Contended) + 1
           /\ producer[p] = "contended" /\ place # "contended" =>
                 Cardinality(Contended') = Cardinality(Contended) - 1
<1>1. producer' = [producer EXCEPT ![p] = place] /\ DOMAIN producer = Producers
  BY DEF Moves, TraceTypeOK
<1>2. \A r \in Producers : producer'[r] = IF r = p THEN place ELSE producer[r]
  BY <1>1
<1>3. ASSUME producer[p] # "contended", place # "contended"
      PROVE  Contended' = Contended
  BY <1>2, <1>3 DEF Contended
<1>4. ASSUME producer[p] # "contended", place = "contended"
      PROVE  Cardinality(Contended') = Cardinality(Contended) + 1
  <2>1. Contended' = Contended \cup {p} /\ p \notin Contended
    BY <1>2, <1>4 DEF Contended
  <2> QED BY <2>1, ContendedFinite, FS_AddElement
<1>5. ASSUME producer[p] = "contended", place # "contended"
      PROVE  Cardinality(Contended') = Cardinality(Contended) - 1
  <2>1. Contended' = Contended \ {p} /\ p \in Contended
    BY <1>2, <1>5 DEF Contended
  <2> QED BY <2>1, ContendedFinite, FS_RemoveElement
<1> QED BY <1>3, <1>4, <1>5

LEMMA LostNext == TraceInv /\ [TraceNext]_traceVars => NothingLost' /\ HandIsEmpty'
<1> SUFFICES ASSUME TraceInv, [TraceNext]_traceVars PROVE NothingLost' /\ HandIsEmpty'
  OBVIOUS
<1> DEFINE c == Cardinality(Contended)
<1>0. /\ c \in Nat /\ queue \in Nat /\ held \in {0, 1} /\ dropped \in Nat
      /\ balance = queue + held + dropped + c
      /\ worker # "writing" => held = 0
  BY ContendedFinite, DiagnosticsAssumption DEF TraceInv, TraceTypeOK, NothingLost, HandIsEmpty
<1>u. producer' = producer => c' = c
  BY DEF Contended
<1> HIDE DEF c
<1>1. ASSUME NEW p \in Producers, SeesEnabled(p) \/ TryLockSucceeds(p)
      PROVE  NothingLost' /\ HandIsEmpty'
  <2>1. c' = c
    BY <1>1, ContendedChanges DEF SeesEnabled, TryLockSucceeds, TraceInv, c
  <2> QED BY <1>0, <1>1, <2>1 DEF SeesEnabled, TryLockSucceeds, NothingLost, HandIsEmpty, c
<1>2. ASSUME NEW p \in Producers, TryLockFails(p) PROVE NothingLost' /\ HandIsEmpty'
  <2>1. c' = c + 1
    BY <1>2, ContendedChanges DEF TryLockFails, TraceInv, c
  <2> QED BY <1>0, <1>2, <2>1 DEF TryLockFails, NothingLost, HandIsEmpty, c
<1>3. ASSUME NEW p \in Producers, CountsDrop(p) PROVE NothingLost' /\ HandIsEmpty'
  <2>1. c' = c - 1
    BY <1>3, ContendedChanges DEF CountsDrop, TraceInv, c
  <2> QED BY <1>0, <1>3, <2>1 DEF CountsDrop, CountContended, NothingLost, HandIsEmpty, c
<1>4. ASSUME NEW p \in Producers, Submits(p) PROVE NothingLost' /\ HandIsEmpty'
  <2>1. c' = c
    BY <1>4, ContendedChanges DEF Submits, TraceInv, c
  <2>2. /\ UNCHANGED <<held, worker>>
        /\ \/ balance' = balance + 1 /\ dropped' = dropped + 1 /\ queue' = queue
           \/ balance' = balance + 1 /\ dropped' = dropped /\ queue' = queue + 1
           \/ UNCHANGED <<balance, dropped, queue>>
    BY <1>4 DEF Submits
  <2> QED BY <1>0, <2>1, <2>2 DEF NothingLost, HandIsEmpty, c
<1>5. ASSUME NEW on \in BOOLEAN, LocksSwitch(on) PROVE NothingLost' /\ HandIsEmpty'
  BY <1>0, <1>u, <1>5 DEF LocksSwitch, NothingLost, HandIsEmpty, c
<1>6. CASE SetEnabled
  BY <1>0, <1>u, <1>6 DEF SetEnabled, NothingLost, HandIsEmpty, c
<1>7. CASE WorkerLocks \/ SecondPasses \/ UNCHANGED traceVars
  BY <1>0, <1>u, <1>7 DEF WorkerLocks, SecondPasses, traceVars, NothingLost, HandIsEmpty, c
<1>8. CASE Pops
  BY <1>0, <1>u, <1>8 DEF Pops, NothingLost, HandIsEmpty, c
<1>9. CASE Writes
  BY <1>0, <1>u, <1>9 DEF Writes, NothingLost, HandIsEmpty, c
<1>10. CASE Reports
  BY <1>0, <1>u, <1>10 DEF Reports, NothingLost, HandIsEmpty, c
<1> QED BY <1>1, <1>2, <1>3, <1>4, <1>5, <1>6, <1>7, <1>8, <1>9, <1>10
       DEF TraceNext, Submit, Run

(* The queue and the budget of a second stay within their limits, whatever *)
(* these are and however many threads log (Submit, Run, SetEnabled).       *)
THEOREM TraceTypeCorrect == TraceSpec => []TraceTypeOK
BY InitTrace, TypeTrace, PTL DEF TraceSpec

(* No message vanishes, for any number of threads and any limits: it is    *)
(* written, waits, or is counted among the omissions, also the one that    *)
(* found the lock taken (Submit, CountContended, Run).                     *)
THEOREM TraceLosesNothing == TraceSpec => []NothingLost
<1>1. TraceInit => TraceInv
  <2> SUFFICES ASSUME TraceInit PROVE HandIsEmpty /\ NothingLost
    BY InitTrace DEF TraceInv
  <2>1. Contended = {}
    BY DEF TraceInit, Contended
  <2>2. Cardinality(Contended) = 0
    BY <2>1, FS_EmptySet
  <2> QED BY <2>2 DEF TraceInit, HandIsEmpty, NothingLost
<1>2. TraceInv /\ [TraceNext]_traceVars => TraceInv'
  BY TypeTrace, LostNext DEF TraceInv
<1>3. TraceInv => NothingLost
  BY DEF TraceInv
<1> QED BY <1>1, <1>2, <1>3, PTL DEF TraceSpec

(* A trace that is off keeps nothing for the next one: a message that saw  *)
(* it on looks again under the lock (Submit, SetEnabled).                  *)
THEOREM TraceOffIsEmpty == TraceSpec => []OffIsEmpty
<1>1. TraceInit => OffIsEmpty
  BY DEF TraceInit, OffIsEmpty
<1>2. OffIsEmpty /\ [TraceNext]_traceVars => OffIsEmpty'
  <2> SUFFICES ASSUME OffIsEmpty, [TraceNext]_traceVars PROVE OffIsEmpty'
    OBVIOUS
  <2>1. ASSUME NEW p \in Producers, Submits(p) PROVE OffIsEmpty'
    BY <2>1 DEF Submits, StillEnabled, OffIsEmpty
  <2>2. ASSUME NEW p \in Producers,
               SeesEnabled(p) \/ TryLockFails(p) \/ CountsDrop(p) \/ TryLockSucceeds(p)
        PROVE  OffIsEmpty'
    BY <2>2 DEF SeesEnabled, TryLockFails, CountsDrop, TryLockSucceeds, OffIsEmpty
  <2>3. CASE (\E on \in BOOLEAN : LocksSwitch(on)) \/ SetEnabled
    BY <2>3 DEF LocksSwitch, SetEnabled, OffIsEmpty
  <2>4. CASE Run \/ SecondPasses \/ UNCHANGED traceVars
    BY <2>4 DEF Run, WorkerLocks, Pops, Writes, Reports, SecondPasses, traceVars, OffIsEmpty
  <2> QED BY <2>1, <2>2, <2>3, <2>4 DEF TraceNext, Submit
<1> QED BY <1>1, <1>2, PTL DEF TraceSpec
=============================================================================
