--------------------------- MODULE WorkerHostProofs ---------------------------
(***************************************************************************)
(* The host: container sweeps, staging trees and exit codes, for every     *)
(* number of processes, containers and scans and every set of faults.      *)
(***************************************************************************)
EXTENDS WorkerHost, TLAPS

USE HostAssumption

-------------------------------------------------------------------------------
(***************************************************************************)
(* The inductive invariant.                                                *)
(***************************************************************************)
\* Whoever is past the clone's start has the scan's directory to itself.
TreesHeld ==
  \A p \in Procs :
    /\ run[p].pc = "fetch" => dir[run[p].scan] = [by |-> p, state |-> "partial"]
    /\ run[p].pc \in {"acquire", "scan", "clean"} =>
         dir[run[p].scan] = [by |-> p, state |-> "full"]

\* A tree has the run that made it, or is one of the strays.
TreesKnown ==
  \A s \in Scans : dir[s] # Empty =>
    \/ s \in stray
    \/ /\ dir[s].by \in Procs
       /\ run[dir[s].by].pc \in {"fetch", "acquire", "scan", "clean"}
       /\ run[dir[s].by].scan = s

\* The exit code that each phase knows of.
Codes ==
  \A p \in Procs :
    /\ phase[p] \in Boots \cup {"up", "drain"} => code[p] = NoCode
    /\ phase[p] \in {"join", "pools"} => code[p] \in {0, 2}
    /\ phase[p] = "exited" => code[p] \in {0, 1, 2}

\* Before its worker is up, and when it never came up, a process has no run,
\* no container and no tree.
Blank(p) ==
  /\ run[p] = Idle
  /\ \A c \in Containers : box[c].owner # p
  /\ \A s \in Scans : dir[s].by # p

Blanks ==
  \A p \in Procs :
    phase[p] \in Boots \/ (phase[p] = "exited" /\ code[p] = 1) => Blank(p)

\* A container at work is that of its owner's run, or its owner ended without
\* having finished its jobs.
AtWork ==
  \A c \in Containers : box[c].state = "busy" =>
    LET p == box[c].owner IN
      \/ Alive(p) /\ run[p].pc = "scan" /\ run[p].box = c
      \/ phase[p] = "killed"
      \/ phase[p] = "exited" /\ code[p] = 2

\* On its way to code 0 a process has no run.
Drained ==
  \A p \in Procs : phase[p] \in {"join", "pools"} /\ code[p] = 0 => run[p] = Idle

\* What a sweep owes: the containers of processes that are gone, none of
\* which it spares; during the removals they are still on its list.
Owes ==
  \A p \in Procs :
    /\ phase[p] \in {"off", "load", "wire", "scan"} => owed[p] = {}
    /\ \A q \in owed[p] : phase[q] \in Ends
    /\ phase[p] \in {"list", "reap"} => owed[p] \cap live[p] = {}
    /\ phase[p] = "reap" => \A c \in Containers : box[c].owner \in owed[p] => c \in todo[p]
    /\ phase[p] = "register" => \A c \in Containers : box[c].owner \notin owed[p]

\* The peers whose keys lasted are in the live set of the sweep.
PeersListed ==
  \A p \in Procs :
    /\ phase[p] = "scan" => peers[p] \subseteq key
    /\ phase[p] \in {"list", "reap"} => peers[p] \subseteq live[p]

HostInv ==
  /\ TypeOK
  /\ TreesHeld
  /\ TreesKnown
  /\ Codes
  /\ Blanks
  /\ AtWork
  /\ Drained
  /\ Owes
  /\ PeersListed

-------------------------------------------------------------------------------
\* The shapes of a run and of a tree.
LEMMA RunShape ==
  ASSUME TypeOK, NEW p \in Procs
  PROVE  /\ run[p].pc \in {"none", "clone", "fetch", "acquire", "scan", "clean"}
         /\ run[p].pc = "none" <=> run[p] = Idle
         /\ run[p].pc \in {"clone", "fetch", "acquire", "scan", "clean"} => run[p].scan \in Scans
         /\ run[p].pc \in {"clone", "fetch", "acquire", "clean"} =>
              \A pc \in {"clone", "fetch", "acquire", "clean"} :
                [run[p] EXCEPT !.pc = pc] = [pc |-> pc, scan |-> run[p].scan]
         /\ run[p].pc = "scan" => run[p].box \in Containers
<1>1. run[p] \in RunsOf
  BY DEF TypeOK, StagingTypeOK
<1>2. CASE run[p] = Idle
  BY <1>2 DEF Idle
<1>3. CASE run[p] \in [pc : {"clone", "fetch", "acquire", "clean"}, scan : Scans]
  <2>1. run[p].pc \in {"clone", "fetch", "acquire", "clean"} /\ run[p].scan \in Scans
    BY <1>3
  <2>2. \A pc \in {"clone", "fetch", "acquire", "clean"} :
          [run[p] EXCEPT !.pc = pc] = [pc |-> pc, scan |-> run[p].scan]
    BY <1>3
  <2> QED BY <2>1, <2>2 DEF Idle
<1>4. CASE run[p] \in [pc : {"scan"}, scan : Scans, box : Containers]
  BY <1>4 DEF Idle
<1> QED BY <1>1, <1>2, <1>3, <1>4 DEF RunsOf

LEMMA BoxShape ==
  ASSUME TypeOK, NEW c \in Containers
  PROVE  /\ box[c] = NoBox \/ box[c] \in [owner : Procs, state : {"idle", "busy", "stopped"}]
         /\ box[c].owner \in Procs \cup {"none"}
         /\ box[c].owner = "none" <=> box[c] = NoBox
         /\ box[c].state = "none" <=> box[c] = NoBox
<1>1. box[c] \in Boxes
  BY DEF TypeOK, HostTypeOK
<1> QED BY <1>1 DEF Boxes, NoBox

\* One run moves on.
LEMMA RunMoves ==
  ASSUME TypeOK, NEW p \in Procs, NEW r \in RunsOf, Becomes(p, r)
  PROVE  run' \in [Procs -> RunsOf] /\ \A q \in Procs : run'[q] = IF q = p THEN r ELSE run[q]
BY DEF TypeOK, StagingTypeOK, Becomes

\* The records the steps make.
LEMMA Made ==
  /\ Idle \in RunsOf /\ Idle.pc = "none"
  /\ \A pc \in {"clone", "fetch", "acquire", "clean"}, s \in Scans :
       /\ [pc |-> pc, scan |-> s] \in RunsOf
       /\ [pc |-> pc, scan |-> s].pc = pc /\ [pc |-> pc, scan |-> s].scan = s
  /\ \A s \in Scans, c \in Containers :
       /\ [pc |-> "scan", scan |-> s, box |-> c] \in RunsOf
       /\ [pc |-> "scan", scan |-> s, box |-> c].pc = "scan"
       /\ [pc |-> "scan", scan |-> s, box |-> c].scan = s
       /\ [pc |-> "scan", scan |-> s, box |-> c].box = c
  /\ Empty \in Dirs /\ NoBox \in Boxes
  /\ \A p \in Procs : /\ [by |-> p, state |-> "partial"] \in Dirs
                      /\ [by |-> p, state |-> "full"] \in Dirs
                      /\ \A st \in {"idle", "busy", "stopped"} : [owner |-> p, state |-> st] \in Boxes
BY DEF RunsOf, Idle, Dirs, Empty, Boxes, NoBox

-------------------------------------------------------------------------------
(***************************************************************************)
(* What the source runs do.                                                *)
(***************************************************************************)
\* The run r that follows in p, and what d becomes of its scan's directory.
RunStep(p, s, r, d) ==
  \/ run[p].pc = "clone" /\ r = Idle /\ d = dir[s]
  \/ /\ run[p].pc = "clone" /\ dir[s] = Empty
     /\ r = [pc |-> "fetch", scan |-> s]
     /\ d = [by |-> p, state |-> "partial"]
  \/ /\ run[p].pc = "fetch"
     /\ r = [pc |-> "acquire", scan |-> s]
     /\ d = [by |-> p, state |-> "full"]
  \/ run[p].pc = "fetch" /\ r = Idle /\ (d = Empty \/ (d = dir[s] /\ s \in stray'))
  \/ /\ run[p].pc = "acquire"
     /\ \E c \in Containers : r = [pc |-> "scan", scan |-> s, box |-> c]
     /\ d = dir[s]
  \/ run[p].pc \in {"acquire", "scan"} /\ r = [pc |-> "clean", scan |-> s] /\ d = dir[s]
  \/ /\ run[p].pc = "clean" /\ r = Idle
     /\ \/ d = Empty
        \/ s \in stray' /\ \E left \in {"partial", "full"} : d = [by |-> p, state |-> left]

LEMMA SourceMoves ==
  ASSUME TypeOK, TreesHeld, NEW p \in Procs, SourceStep(p)
  PROVE  /\ run[p].pc # "none" /\ run[p].scan \in Scans /\ Alive(p)
         /\ stray \subseteq stray' /\ stray' \subseteq Scans
         /\ \E r \in RunsOf, d \in Dirs :
              /\ run' = [run EXCEPT ![p] = r]
              /\ dir' = [dir EXCEPT ![run[p].scan] = d]
              /\ RunStep(p, run[p].scan, r, d)
<1> DEFINE s == run[p].scan
<1>1. /\ run[p].pc # "none" /\ Alive(p)
  BY DEF SourceStep, CloneRefused, CloneStarts, Cloned, CloneFails, Acquire, ScanEnds, CleanUp,
     RunAt
<1>2. s \in Scans
  BY <1>1, RunShape
<1>3. dir[s] \in Dirs /\ dir = [dir EXCEPT ![s] = dir[s]] /\ stray \subseteq Scans
  BY <1>2 DEF TypeOK, StagingTypeOK
<1> SUFFICES /\ stray \subseteq stray' /\ stray' \subseteq Scans
             /\ \E r \in RunsOf, d \in Dirs :
                  /\ run' = [run EXCEPT ![p] = r]
                  /\ dir' = [dir EXCEPT ![s] = d]
                  /\ RunStep(p, s, r, d)
  BY <1>1, <1>2
<1> HIDE DEF s
<1>4. CASE CloneRefused(p)
  <2>1. run' = [run EXCEPT ![p] = Idle] /\ dir' = [dir EXCEPT ![s] = dir[s]] /\ stray' = stray
    BY <1>3, <1>4 DEF CloneRefused, Becomes
  <2>2. RunStep(p, s, Idle, dir[s])
    BY <1>4 DEF CloneRefused, RunAt, RunStep
  <2> QED BY <1>3, <2>1, <2>2, Made
<1>5. CASE CloneStarts(p)
  <2> DEFINE r == [pc |-> "fetch", scan |-> s]
             d == [by |-> p, state |-> "partial"]
  <2>1. r \in RunsOf /\ d \in Dirs
    BY <1>2, Made
  <2>2. [run[p] EXCEPT !.pc = "fetch"] = r
    BY <1>5, RunShape DEF CloneStarts, RunAt, s
  <2>3. run' = [run EXCEPT ![p] = r] /\ dir' = [dir EXCEPT ![s] = d] /\ stray' = stray
    BY <1>5, <2>2 DEF CloneStarts, Becomes, s
  <2>4. RunStep(p, s, r, d)
    BY <1>5 DEF CloneStarts, RunAt, RunStep, s
  <2> QED BY <1>3, <2>1, <2>3, <2>4
<1>6. CASE Cloned(p)
  <2> DEFINE r == [pc |-> "acquire", scan |-> s]
             d == [by |-> p, state |-> "full"]
  <2>1. r \in RunsOf /\ d \in Dirs
    BY <1>2, Made
  <2>2. [run[p] EXCEPT !.pc = "acquire"] = r
    BY <1>6, RunShape DEF Cloned, RunAt, s
  <2>3. dir[s] = [by |-> p, state |-> "partial"]
    BY <1>6 DEF Cloned, RunAt, TreesHeld, s
  <2>4. [dir[s] EXCEPT !.state = "full"] = d
    BY <2>3
  <2>5. dir' = [dir EXCEPT ![s] = d]
    BY <1>6, <2>4 DEF Cloned, s
  <2>6. run' = [run EXCEPT ![p] = r] /\ stray' = stray
    BY <1>6, <2>2 DEF Cloned, Becomes
  <2>7. RunStep(p, s, r, d)
    BY <1>6 DEF Cloned, RunAt, RunStep
  <2> QED BY <1>3, <2>1, <2>5, <2>6, <2>7
<1>7. CASE CloneFails(p)
  <2>1. run' = [run EXCEPT ![p] = Idle] /\ run[p].pc = "fetch"
    BY <1>7 DEF CloneFails, Becomes, RunAt
  <2>2. CASE dir' = [dir EXCEPT ![s] = Empty] /\ stray' = stray
    <3>1. RunStep(p, s, Idle, Empty)
      BY <2>1 DEF RunStep
    <3> QED BY <1>3, <2>1, <2>2, <3>1, Made
  <2>3. CASE dir' = dir /\ stray' = stray \cup {s}
    <3>1. RunStep(p, s, Idle, dir[s])
      BY <2>1, <2>3 DEF RunStep
    <3> QED BY <1>2, <1>3, <2>1, <2>3, <3>1, Made
  <2> QED BY <1>7, <2>2, <2>3 DEF CloneFails, s
<1>8. CASE Acquire(p)
  <2>1. run[p].pc = "acquire" /\ stray' = stray /\ dir' = [dir EXCEPT ![s] = dir[s]]
    BY <1>3, <1>8 DEF Acquire, RunAt
  <2>2. ASSUME NEW c \in Containers, Becomes(p, [pc |-> "scan", scan |-> s, box |-> c])
        PROVE  \E r \in RunsOf : run' = [run EXCEPT ![p] = r] /\ RunStep(p, s, r, dir[s])
    <3> DEFINE r == [pc |-> "scan", scan |-> s, box |-> c]
    <3>1. r \in RunsOf
      BY <1>2, Made
    <3>2. RunStep(p, s, r, dir[s])
      BY <2>1 DEF RunStep
    <3> QED BY <2>2, <3>1, <3>2 DEF Becomes
  <2>3. ASSUME Becomes(p, [run[p] EXCEPT !.pc = "clean"])
        PROVE  \E r \in RunsOf : run' = [run EXCEPT ![p] = r] /\ RunStep(p, s, r, dir[s])
    <3> DEFINE r == [pc |-> "clean", scan |-> s]
    <3>1. r \in RunsOf
      BY <1>2, Made
    <3>2. [run[p] EXCEPT !.pc = "clean"] = r
      BY <2>1, RunShape DEF s
    <3>3. RunStep(p, s, r, dir[s])
      BY <2>1 DEF RunStep
    <3> QED BY <2>3, <3>1, <3>2, <3>3 DEF Becomes
  <2>4. \E r \in RunsOf : run' = [run EXCEPT ![p] = r] /\ RunStep(p, s, r, dir[s])
    BY <1>8, <2>2, <2>3 DEF Acquire, s
  <2> QED BY <1>3, <2>1, <2>4
<1>9. CASE ScanEnds(p)
  <2> DEFINE r == [pc |-> "clean", scan |-> s]
  <2>1. r \in RunsOf
    BY <1>2, Made
  <2>2. run' = [run EXCEPT ![p] = r] /\ dir' = [dir EXCEPT ![s] = dir[s]] /\ stray' = stray
    BY <1>3, <1>9 DEF ScanEnds, Becomes, s
  <2>3. RunStep(p, s, r, dir[s])
    BY <1>9 DEF ScanEnds, RunAt, RunStep
  <2> QED BY <1>3, <2>1, <2>2, <2>3
<1>10. CASE CleanUp(p)
  <2>1. run' = [run EXCEPT ![p] = Idle] /\ run[p].pc = "clean"
    BY <1>10 DEF CleanUp, Becomes, RunAt
  <2>2. CASE dir' = [dir EXCEPT ![s] = Empty] /\ stray' = stray
    <3>1. RunStep(p, s, Idle, Empty)
      BY <2>1 DEF RunStep
    <3> QED BY <1>3, <2>1, <2>2, <3>1, Made
  <2>3. ASSUME NEW left \in {"partial", "full"},
               dir' = [dir EXCEPT ![s].state = left], stray' = stray \cup {s}
        PROVE  /\ stray \subseteq stray' /\ stray' \subseteq Scans
               /\ \E r \in RunsOf, d \in Dirs :
                    /\ run' = [run EXCEPT ![p] = r]
                    /\ dir' = [dir EXCEPT ![s] = d]
                    /\ RunStep(p, s, r, d)
    <3> DEFINE d == [by |-> p, state |-> left]
    <3>1. dir[s] = [by |-> p, state |-> "full"]
      BY <2>1 DEF TreesHeld, s
    <3>2. [dir[s] EXCEPT !.state = left] = d
      BY <3>1
    <3>3. dir' = [dir EXCEPT ![s] = d]
      BY <2>3, <3>2
    <3>4. RunStep(p, s, Idle, d)
      BY <2>1, <2>3 DEF RunStep
    <3>5. Idle \in RunsOf /\ d \in Dirs
      BY <2>3, Made
    <3> QED BY <1>2, <1>3, <2>1, <2>3, <3>3, <3>4, <3>5
  <2> QED BY <1>10, <2>2, <2>3 DEF CleanUp, s
<1> QED BY <1>4, <1>5, <1>6, <1>7, <1>8, <1>9, <1>10 DEF SourceStep

\* A container that a run takes or gives back.
BoxStep(p, c, b) ==
  \/ /\ run[p].pc = "acquire" /\ run'[p].pc = "scan" /\ run'[p].box = c
     /\ box[c].owner \in {p, "none"}
     /\ b = [owner |-> p, state |-> "busy"]
  \/ /\ run[p].pc = "scan" /\ run[p].box = c
     /\ box[c].owner = p
     /\ b \in {NoBox, [owner |-> p, state |-> "idle"], [owner |-> p, state |-> "stopped"]}

LEMMA SourceBoxes ==
  ASSUME TypeOK, NEW p \in Procs, SourceStep(p)
  PROVE  /\ UNCHANGED <<phase, signal, key, live, todo, owed, peers>>
         /\ \/ box' = box /\ (run[p].pc = "scan" => box[run[p].box].owner # p)
            \/ \E c \in Containers, b \in Boxes :
                 box' = [box EXCEPT ![c] = b] /\ BoxStep(p, c, b)
<1>1. UNCHANGED <<phase, signal, key, live, todo, owed, peers>>
  BY DEF SourceStep, CloneRefused, CloneStarts, Cloned, CloneFails, Acquire, ScanEnds, CleanUp,
         hostVars, sweepVars
<1>2. CASE CloneRefused(p) \/ CloneStarts(p) \/ Cloned(p) \/ CloneFails(p) \/ CleanUp(p)
  BY <1>1, <1>2 DEF CloneRefused, CloneStarts, Cloned, CloneFails, CleanUp, hostVars, RunAt
<1>3. CASE Acquire(p)
  <2>1. run[p].pc = "acquire"
    BY <1>3 DEF Acquire, RunAt
  <2>2. ASSUME NEW c \in Containers,
               box[c] = [owner |-> p, state |-> "idle"] \/ box[c] = NoBox,
               box' = [box EXCEPT ![c] = [owner |-> p, state |-> "busy"]],
               Becomes(p, [pc |-> "scan", scan |-> run[p].scan, box |-> c])
        PROVE  \E b \in Boxes : box' = [box EXCEPT ![c] = b] /\ BoxStep(p, c, b)
    <3>1. run[p].scan \in Scans
      BY <2>1, RunShape
    <3>2. run'[p] = [pc |-> "scan", scan |-> run[p].scan, box |-> c]
      BY <2>2, <3>1, Made, RunMoves
    <3>3. run'[p].pc = "scan" /\ run'[p].box = c
      BY <3>2
    <3>4. box[c].owner \in {p, "none"}
      BY <2>2 DEF NoBox
    <3>5. BoxStep(p, c, [owner |-> p, state |-> "busy"])
      BY <2>1, <3>3, <3>4 DEF BoxStep
    <3> QED BY <2>2, <3>5, Made
  <2> QED BY <1>1, <1>3, <2>1, <2>2 DEF Acquire
<1>4. CASE ScanEnds(p)
  <2> DEFINE c == run[p].box
  <2>1. run[p].pc = "scan" /\ c \in Containers
    BY <1>4, RunShape DEF ScanEnds, RunAt
  <2> HIDE DEF c
  <2>2. CASE box[c].owner = p
    <3>1. ASSUME NEW st \in {"idle", "stopped"}
          PROVE  [box EXCEPT ![c].state = st] = [box EXCEPT ![c] = [owner |-> p, state |-> st]]
      <4>1. box[c] \in [owner : Procs, state : {"idle", "busy", "stopped"}]
        BY <2>1, <2>2, BoxShape DEF NoBox
      <4>2. [box[c] EXCEPT !.state = st] = [owner |-> p, state |-> st]
        BY <2>2, <4>1
      <4> QED BY <4>2
    <3>2. \E b \in {NoBox, [owner |-> p, state |-> "idle"], [owner |-> p, state |-> "stopped"]} :
            box' = [box EXCEPT ![c] = b]
      BY <1>4, <2>2, <3>1 DEF ScanEnds, c
    <3>3. PICK b \in {NoBox, [owner |-> p, state |-> "idle"], [owner |-> p, state |-> "stopped"]} :
            box' = [box EXCEPT ![c] = b]
      BY <3>2
    <3>4. b \in Boxes
      BY <3>3 DEF Boxes
    <3>5. BoxStep(p, c, b)
      BY <2>1, <2>2 DEF BoxStep, c
    <3> QED BY <1>1, <2>1, <3>3, <3>4, <3>5
  <2>3. CASE box[c].owner # p
    BY <1>1, <1>4, <2>3 DEF ScanEnds, c
  <2> QED BY <2>2, <2>3
<1> QED BY <1>2, <1>3, <1>4 DEF SourceStep

-------------------------------------------------------------------------------
(***************************************************************************)
(* The staging trees.                                                      *)
(***************************************************************************)
LEMMA SourceTrees ==
  ASSUME TypeOK, TreesHeld, TreesKnown, NEW p \in Procs, SourceStep(p)
  PROVE  StagingTypeOK' /\ TreesHeld' /\ TreesKnown'
<1> DEFINE s == run[p].scan
<1>1. /\ run[p].pc # "none" /\ s \in Scans
      /\ stray \subseteq stray' /\ stray' \subseteq Scans
  BY SourceMoves
<1>2. PICK r \in RunsOf, d \in Dirs :
        /\ run' = [run EXCEPT ![p] = r]
        /\ dir' = [dir EXCEPT ![s] = d]
        /\ RunStep(p, s, r, d)
  BY SourceMoves
<1> HIDE DEF s
<1>3. run \in [Procs -> RunsOf] /\ dir \in [Scans -> Dirs]
  BY DEF TypeOK, StagingTypeOK
<1>4. StagingTypeOK'
  BY <1>1, <1>2, <1>3 DEF StagingTypeOK
<1>5. /\ run'[p] = r /\ \A q \in Procs : q # p => run'[q] = run[q]
      /\ dir'[s] = d /\ \A x \in Scans : x # s => dir'[x] = dir[x]
  BY <1>1, <1>2, <1>3
<1>6. /\ run[p].pc = "fetch" => dir[s] = [by |-> p, state |-> "partial"]
      /\ run[p].pc \in {"acquire", "scan", "clean"} => dir[s] = [by |-> p, state |-> "full"]
  BY DEF TreesHeld, s
<1>7. \A q \in Procs : run[q].pc \in {"fetch", "acquire", "scan", "clean"} =>
        run[q].scan \in Scans /\ dir[run[q].scan].by = q
  <2> SUFFICES ASSUME NEW q \in Procs, run[q].pc \in {"fetch", "acquire", "scan", "clean"}
               PROVE  run[q].scan \in Scans /\ dir[run[q].scan].by = q
    OBVIOUS
  <2>1. run[q].scan \in Scans
    BY RunShape
  <2>2. \E st \in {"partial", "full"} : dir[run[q].scan] = [by |-> q, state |-> st]
    BY DEF TreesHeld
  <2> QED BY <2>1, <2>2
\* A directory that another run holds is left alone.
<1>8. ASSUME NEW q \in Procs, q # p, run[q].pc \in {"fetch", "acquire", "scan", "clean"}
      PROVE  dir'[run[q].scan] = dir[run[q].scan]
  <2>1. CASE run[q].scan = s
    <3>1. dir[s].by = q
      BY <1>7, <1>8, <2>1
    <3>2. run[p].pc \in {"none", "clone", "fetch", "acquire", "scan", "clean"}
      BY RunShape
    <3>3. run[p].pc = "clone"
      BY <1>1, <1>6, <1>8, <3>1, <3>2
    <3>4. dir[s] # Empty
      BY <3>1 DEF Empty
    <3>5. d = dir[s]
      BY <1>2, <3>3, <3>4 DEF RunStep
    <3> QED BY <1>5, <2>1, <3>5
  <2>2. CASE run[q].scan # s
    BY <1>5, <1>7, <1>8, <2>2
  <2> QED BY <2>1, <2>2
<1>9. /\ r.pc = "fetch" => r.scan = s /\ d = [by |-> p, state |-> "partial"]
      /\ r.pc \in {"acquire", "scan", "clean"} => r.scan = s /\ d = [by |-> p, state |-> "full"]
  BY <1>2, <1>6 DEF RunStep, Idle
<1>10. TreesHeld'
  <2> SUFFICES ASSUME NEW q \in Procs
               PROVE  /\ run'[q].pc = "fetch" => dir'[run'[q].scan] = [by |-> q, state |-> "partial"]
                      /\ run'[q].pc \in {"acquire", "scan", "clean"} =>
                           dir'[run'[q].scan] = [by |-> q, state |-> "full"]
    BY DEF TreesHeld
  <2>1. CASE q = p
    BY <1>5, <1>9, <2>1
  <2>2. CASE q # p
    BY <1>5, <1>8, <2>2 DEF TreesHeld
  <2> QED BY <2>1, <2>2
<1>11. TreesKnown'
  <2> SUFFICES ASSUME NEW x \in Scans, dir'[x] # Empty, x \notin stray'
               PROVE  /\ dir'[x].by \in Procs
                      /\ run'[dir'[x].by].pc \in {"fetch", "acquire", "scan", "clean"}
                      /\ run'[dir'[x].by].scan = x
    BY DEF TreesKnown
  <2>1. CASE x = s /\ d # dir[s]
    <3>1. d.by = p /\ r.pc \in {"fetch", "acquire", "scan", "clean"} /\ r.scan = s
      BY <1>2, <1>5, <1>6, <2>1 DEF RunStep
    <3> QED BY <1>5, <2>1, <3>1
  <2>2. CASE x # s \/ d = dir[s]
    <3>1. dir'[x] = dir[x] /\ x \notin stray
      BY <1>1, <1>5, <2>2
    <3> DEFINE q == dir[x].by
    <3>2. q \in Procs /\ run[q].pc \in {"fetch", "acquire", "scan", "clean"} /\ run[q].scan = x
      BY <3>1 DEF TreesKnown
    <3> HIDE DEF q
    <3>3. CASE q # p
      BY <1>5, <3>1, <3>2, <3>3 DEF q
    <3>4. CASE q = p
      <4>1. x = s /\ d = dir[s]
        BY <2>2, <3>2, <3>4 DEF s
      <4>2. d # Empty
        BY <3>1, <4>1
      <4>3. r.pc \in {"acquire", "scan", "clean"} /\ r.scan = s
        BY <1>2, <1>6, <3>1, <3>2, <3>4, <4>1, <4>2 DEF RunStep
      <4> QED BY <1>5, <3>1, <3>4, <4>1, <4>3 DEF q
    <3> QED BY <3>3, <3>4
  <2> QED BY <2>1, <2>2
<1> QED BY <1>4, <1>10, <1>11

\* A new run has no tree yet, and a process that is gone leaves strays.
LEMMA OtherTrees ==
  ASSUME TypeOK, TreesHeld, TreesKnown, NEW p \in Procs,
         (\E s \in Scans : Begin(p, s)) \/ Gone(p)
  PROVE  StagingTypeOK' /\ TreesHeld' /\ TreesKnown'
<1>0. run \in [Procs -> RunsOf] /\ dir \in [Scans -> Dirs] /\ stray \subseteq Scans
  BY DEF TypeOK, StagingTypeOK
<1>1. ASSUME NEW s \in Scans, Begin(p, s)
      PROVE  StagingTypeOK' /\ TreesHeld' /\ TreesKnown'
  <2>1. Becomes(p, [pc |-> "clone", scan |-> s]) /\ UNCHANGED <<dir, stray>> /\ run[p] = Idle
    BY <1>1 DEF Begin, Busy
  <2>2. /\ run' \in [Procs -> RunsOf] /\ run'[p] = [pc |-> "clone", scan |-> s]
        /\ \A q \in Procs : q # p => run'[q] = run[q]
    BY <2>1, Made, RunMoves
  <2>3. run'[p].pc = "clone" /\ run[p].pc = "none"
    BY <2>1, <2>2 DEF Idle
  <2>4. TreesHeld'
    BY <2>1, <2>2, <2>3 DEF TreesHeld
  <2>5. TreesKnown'
    BY <2>1, <2>2, <2>3 DEF TreesKnown
  <2> QED BY <1>0, <2>1, <2>2, <2>4, <2>5 DEF StagingTypeOK
<1>2. ASSUME Gone(p)
      PROVE  StagingTypeOK' /\ TreesHeld' /\ TreesKnown'
  <2>1. /\ run' \in [Procs -> RunsOf] /\ run'[p] = Idle
        /\ \A q \in Procs : q # p => run'[q] = run[q]
    BY <1>2, Made, RunMoves DEF Gone
  <2>2. run'[p].pc = "none"
    BY <2>1 DEF Idle
  <2>3. dir' = dir /\ stray' = stray \cup {s \in Scans : dir[s].by = p}
    BY <1>2 DEF Gone
  <2>4. TreesHeld'
    BY <2>1, <2>2, <2>3 DEF TreesHeld
  <2>5. TreesKnown'
    <3> SUFFICES ASSUME NEW x \in Scans, dir[x] # Empty, x \notin stray, dir[x].by # p
                 PROVE  /\ dir[x].by \in Procs
                        /\ run'[dir[x].by].pc \in {"fetch", "acquire", "scan", "clean"}
                        /\ run'[dir[x].by].scan = x
      BY <2>3 DEF TreesKnown
    <3> QED BY <2>1 DEF TreesKnown
  <2> QED BY <1>0, <2>1, <2>3, <2>4, <2>5 DEF StagingTypeOK
<1> QED BY <1>1, <1>2

-------------------------------------------------------------------------------
(***************************************************************************)
(* Steps of the main goroutine and of the keys.                            *)
(***************************************************************************)
\* The steps that touch no run and no tree.
HostStep(p) ==
  \/ Start(p) \/ Load(p) \/ Wire(p)
  \/ SweepStep(p) /\ UNCHANGED <<stagingVars, code>>
  \/ Register(p) \/ DrainBegins(p) \/ DrainEnds(p) \/ GraceEnds(p)
  \/ Join(p) \/ PoolStop(p) \/ PoolRemove(p) \/ Signal(p)
  \/ Expire(p) /\ UNCHANGED <<stagingVars, code>>
  \/ Refresh(p) /\ UNCHANGED <<stagingVars, code>>

LEMMA NextCases ==
  ASSUME Next
  PROVE  \E p \in Procs :
           \/ HostStep(p)
           \/ Exit(p)
           \/ Kill(p)
           \/ \E s \in Scans : Begin(p, s) /\ UNCHANGED code
           \/ SourceStep(p) /\ UNCHANGED code
BY DEF Next, MainStep, HostStep

LEMMA HostStepFrame ==
  ASSUME NEW p \in Procs, HostStep(p)
  PROVE  UNCHANGED stagingVars
BY DEF HostStep, Start, Load, Wire, Register, DrainBegins, DrainEnds, GraceEnds, Join, PoolStop,
       PoolRemove, Signal

\* How a container changes in a step of the host.
LEMMA HostBoxes ==
  ASSUME TypeOK, NEW p \in Procs, HostStep(p)
  PROVE  \/ box' = box
         \/ \E c \in Containers : box' = [box EXCEPT ![c] = NoBox]
         \/ \E c \in Containers :
              /\ box[c] = [owner |-> p, state |-> "idle"]
              /\ box' = [box EXCEPT ![c] = [owner |-> p, state |-> "stopped"]]
<1>0. box \in [Containers -> Boxes] /\ todo \in [Procs -> SUBSET Containers]
  BY DEF TypeOK, HostTypeOK
<1>1. CASE Reap(p)
  BY <1>0, <1>1 DEF Reap
<1>2. CASE PoolStop(p)
  <2>1. PICK c \in todo[p] : /\ box[c] = [owner |-> p, state |-> "idle"]
                             /\ box' = [box EXCEPT ![c].state = "stopped"]
    BY <1>2 DEF PoolStop
  <2>2. c \in Containers
    BY <1>0, <2>1
  <2>3. [box[c] EXCEPT !.state = "stopped"] = [owner |-> p, state |-> "stopped"]
    BY <2>1
  <2> QED BY <2>1, <2>2, <2>3
<1>3. CASE PoolRemove(p)
  <2>1. PICK c \in todo[p] : \/ box' = [box EXCEPT ![c] = IF @.owner = p THEN NoBox ELSE @]
                             \/ UNCHANGED box
    BY <1>3 DEF PoolRemove
  <2>2. c \in Containers
    BY <1>0, <2>1
  <2>3. box = [box EXCEPT ![c] = box[c]]
    BY <1>0, <2>2
  <2> QED BY <2>1, <2>2, <2>3
<1> QED BY <1>1, <1>2, <1>3
        DEF HostStep, Start, Load, Wire, SweepStep, ReadLive, ListContainers, SweepDone, Register,
            DrainBegins, DrainEnds, GraceEnds, Join, Signal, Expire, Refresh

\* A step of the host keeps the types.
LEMMA HostStepType ==
  ASSUME TypeOK, NEW p \in Procs, HostStep(p)
  PROVE  TypeOK'
<1> USE DEF HostTypeOK, Enter, Exits, Phases, Boots, Stops, Ends
<1>0. HostTypeOK /\ StagingTypeOK /\ code \in [Procs -> {0, 1, 2, NoCode}]
  BY DEF TypeOK
<1>1. StagingTypeOK'
  BY <1>0, HostStepFrame DEF StagingTypeOK, stagingVars
<1>2. box' \in [Containers -> Boxes]
  <2>1. NoBox \in Boxes /\ [owner |-> p, state |-> "stopped"] \in Boxes
    BY DEF Boxes
  <2>2. box \in [Containers -> Boxes]
    BY <1>0
  <2> QED BY <2>1, <2>2, HostBoxes
<1> SUFFICES /\ phase' \in [Procs -> Phases] /\ signal' \in [Procs -> BOOLEAN] /\ key' \subseteq Procs
             /\ live' \in [Procs -> SUBSET Procs] /\ todo' \in [Procs -> SUBSET Containers]
             /\ owed' \in [Procs -> SUBSET Procs] /\ peers' \in [Procs -> SUBSET Procs]
             /\ code' \in [Procs -> {0, 1, 2, NoCode}]
  BY <1>1, <1>2 DEF TypeOK
<1>3. CASE Start(p) \/ DrainBegins(p) \/ DrainEnds(p) \/ GraceEnds(p) \/ Signal(p)
  BY <1>0, <1>3 DEF Start, DrainBegins, DrainEnds, GraceEnds, Signal, sweepVars
<1>4. CASE Load(p)
  BY <1>0, <1>4 DEF Load, sweepVars
<1>5. CASE Wire(p)
  BY <1>0, <1>5 DEF Wire
<1>6. CASE ReadLive(p) /\ UNCHANGED code
  BY <1>0, <1>6 DEF ReadLive, SweepOver
<1>7. CASE ListContainers(p) /\ UNCHANGED code
  BY <1>0, <1>7 DEF ListContainers, SweepOver, Managed
<1>8. CASE Reap(p) /\ UNCHANGED code
  BY <1>0, <1>8 DEF Reap
<1>9. CASE SweepDone(p) /\ UNCHANGED code
  BY <1>0, <1>9 DEF SweepDone, SweepOver
<1>10. CASE Register(p)
  BY <1>0, <1>10 DEF Register
<1>11. CASE Join(p)
  BY <1>0, <1>11 DEF Join, BoxesOf
<1>12. CASE PoolStop(p) \/ PoolRemove(p)
  BY <1>0, <1>12 DEF PoolStop, PoolRemove, sweepVars
<1>13. CASE (Expire(p) \/ Refresh(p)) /\ UNCHANGED code
  BY <1>0, <1>13 DEF Expire, Refresh, sweepVars
<1> QED BY <1>3, <1>4, <1>5, <1>6, <1>7, <1>8, <1>9, <1>10, <1>11, <1>12, <1>13
        DEF HostStep, SweepStep

\* So do the others.
LEMMA NextType ==
  ASSUME TypeOK, TreesHeld, TreesKnown, Next
  PROVE  TypeOK' /\ TreesHeld' /\ TreesKnown'
<1>0. HostTypeOK /\ StagingTypeOK /\ code \in [Procs -> {0, 1, 2, NoCode}]
  BY DEF TypeOK
<1>1. PICK p \in Procs :
        \/ HostStep(p)
        \/ Exit(p)
        \/ Kill(p)
        \/ \E s \in Scans : Begin(p, s) /\ UNCHANGED code
        \/ SourceStep(p) /\ UNCHANGED code
  BY NextCases
<1>2. CASE HostStep(p)
  <2>1. TreesHeld' /\ TreesKnown'
    BY <1>2, HostStepFrame DEF TreesHeld, TreesKnown, stagingVars
  <2> QED BY <1>2, <2>1, HostStepType
<1>3. CASE Exit(p) \/ Kill(p)
  <2>1. StagingTypeOK' /\ TreesHeld' /\ TreesKnown'
    BY <1>3, OtherTrees DEF Exit, Kill
  <2>2. HostTypeOK' /\ code' = code
    BY <1>0, <1>3 DEF Exit, Kill, Gone, HostTypeOK, Enter, Phases, Ends
  <2> QED BY <1>0, <2>1, <2>2 DEF TypeOK
<1>4. CASE \E s \in Scans : Begin(p, s) /\ UNCHANGED code
  <2>1. StagingTypeOK' /\ TreesHeld' /\ TreesKnown'
    BY <1>4, OtherTrees
  <2>2. HostTypeOK' /\ code' = code
    BY <1>0, <1>4 DEF Begin, HostTypeOK, hostVars, sweepVars
  <2> QED BY <1>0, <2>1, <2>2 DEF TypeOK
<1>5. CASE SourceStep(p) /\ UNCHANGED code
  <2>1. StagingTypeOK' /\ TreesHeld' /\ TreesKnown'
    BY <1>5, SourceTrees
  <2>2. UNCHANGED <<phase, signal, key, live, todo, owed, peers>>
    BY <1>5, SourceBoxes
  <2>3. box' \in [Containers -> Boxes]
    BY <1>0, <1>5, SourceBoxes DEF HostTypeOK
  <2>4. HostTypeOK'
    BY <1>0, <2>2, <2>3 DEF HostTypeOK
  <2> QED BY <1>0, <1>5, <2>1, <2>4 DEF TypeOK
<1> QED BY <1>1, <1>2, <1>3, <1>4, <1>5

-------------------------------------------------------------------------------
(***************************************************************************)
(* Exit codes.                                                             *)
(***************************************************************************)
ExitInv == Codes /\ Blanks /\ AtWork /\ Drained

\* One process moves on from phase[p] to ph, its exit code being n then.
Moves(p, ph, n) ==
  /\ phase' = [phase EXCEPT ![p] = ph]
  /\ code' = [code EXCEPT ![p] = n]
  /\ UNCHANGED <<box, run, dir>>
  /\ \/ phase[p] \in Boots /\ ph \in Boots \cup {"up"} /\ n = code[p]
     \/ phase[p] \in Boots /\ ph = "exited" /\ n = 1
     \/ phase[p] = "up" /\ ph = "drain" /\ n = code[p]
     \/ phase[p] = "drain" /\ ph = "join" /\ (n = 2 \/ (n = 0 /\ run[p] = Idle))
     \/ phase[p] = "join" /\ ph = "pools" /\ n = code[p]

LEMMA MovesExit ==
  ASSUME TypeOK, ExitInv, NEW p \in Procs, NEW ph \in Phases, NEW n \in {0, 1, 2, NoCode},
         Moves(p, ph, n)
  PROVE  ExitInv'
<1>0. /\ phase \in [Procs -> Phases] /\ code \in [Procs -> {0, 1, 2, NoCode}]
  BY DEF TypeOK, HostTypeOK
<1>1. /\ phase'[p] = ph /\ code'[p] = n
      /\ \A q \in Procs : q # p => phase'[q] = phase[q] /\ code'[q] = code[q]
      /\ box' = box /\ run' = run /\ dir' = dir
  BY <1>0 DEF Moves
<1>2. Codes'
  BY <1>1 DEF Codes, Moves, ExitInv, Boots, NoCode
<1>3. Blanks'
  <2> SUFFICES ASSUME NEW q \in Procs, phase'[q] \in Boots \/ (phase'[q] = "exited" /\ code'[q] = 1)
               PROVE  Blank(q)
    BY <1>1 DEF Blanks, Blank
  <2>1. phase[q] \in Boots \/ (phase[q] = "exited" /\ code[q] = 1)
    BY <1>1 DEF Moves, Boots
  <2> QED BY <2>1 DEF ExitInv, Blanks
<1>4. AtWork'
  <2> SUFFICES ASSUME NEW c \in Containers, box[c].state = "busy"
               PROVE  LET q == box[c].owner IN
                        \/ Alive(q)' /\ run[q].pc = "scan" /\ run[q].box = c
                        \/ phase'[q] = "killed"
                        \/ phase'[q] = "exited" /\ code'[q] = 2
    BY <1>1 DEF AtWork
  <2> DEFINE q == box[c].owner
  <2>1. q \in Procs
    BY BoxShape DEF NoBox
  <2>2. \/ Alive(q) /\ run[q].pc = "scan" /\ run[q].box = c
        \/ phase[q] = "killed"
        \/ phase[q] = "exited" /\ code[q] = 2
    BY DEF ExitInv, AtWork
  <2> HIDE DEF q
  <2>3. CASE q # p
    BY <1>1, <2>1, <2>2, <2>3 DEF Alive, q
  <2>4. CASE q = p
    <3>1. phase[p] \notin Boots
      BY <2>4 DEF ExitInv, Blanks, Blank, q
    <3> QED BY <1>1, <2>2, <2>4, <3>1 DEF Alive, Moves, Stops, q
  <2> QED BY <2>3, <2>4
<1>5. Drained'
  BY <1>1 DEF Drained, ExitInv, Moves, Boots, Codes, NoCode
<1> QED BY <1>2, <1>3, <1>4, <1>5 DEF ExitInv

\* A step that only removes a container, or stops one that is idle.
LEMMA BoxesExit ==
  ASSUME TypeOK, ExitInv, UNCHANGED <<phase, code, run, dir>>,
         NEW p \in Procs, NEW c \in Containers,
         \/ box' = [box EXCEPT ![c] = NoBox]
         \/ /\ box[c] = [owner |-> p, state |-> "idle"]
            /\ box' = [box EXCEPT ![c] = [owner |-> p, state |-> "stopped"]]
  PROVE  ExitInv'
<1>0. box \in [Containers -> Boxes]
  BY DEF TypeOK, HostTypeOK
<1>1. /\ \A x \in Containers : x # c => box'[x] = box[x]
      /\ box'[c].owner \in {"none", box[c].owner} /\ box'[c].state # "busy"
  BY <1>0 DEF NoBox
<1>2. Codes' /\ Drained'
  BY DEF ExitInv, Codes, Drained
<1>3. Blanks'
  <2> SUFFICES ASSUME NEW q \in Procs, phase[q] \in Boots \/ (phase[q] = "exited" /\ code[q] = 1),
                      NEW x \in Containers
               PROVE  box'[x].owner # q
    BY DEF ExitInv, Blanks, Blank
  <2>1. box[x].owner # q
    BY DEF ExitInv, Blanks, Blank
  <2> QED BY <1>1, <2>1
<1>4. AtWork'
  BY <1>1 DEF ExitInv, AtWork, Alive
<1> QED BY <1>2, <1>3, <1>4 DEF ExitInv

LEMMA HostStepExit ==
  ASSUME TypeOK, ExitInv, NEW p \in Procs, HostStep(p)
  PROVE  ExitInv'
<1>0. /\ phase \in [Procs -> Phases] /\ code \in [Procs -> {0, 1, 2, NoCode}]
      /\ phase = [phase EXCEPT ![p] = phase[p]] /\ code = [code EXCEPT ![p] = code[p]]
      /\ phase[p] \in Phases /\ code[p] \in {0, 1, 2, NoCode}
  BY DEF TypeOK, HostTypeOK
<1>1. run' = run /\ dir' = dir
  BY HostStepFrame DEF stagingVars
<1> USE DEF Enter, Exits
<1>2. CASE Reap(p) /\ UNCHANGED code
  <2>1. phase' = phase /\ code' = code
    BY <1>2 DEF Reap
  <2>2. CASE box' = box
    BY <1>1, <2>1, <2>2 DEF ExitInv, Codes, Blanks, Blank, AtWork, Drained, Alive
  <2> QED BY <1>1, <2>1, <2>2, HostBoxes, BoxesExit
<1>3. CASE PoolStop(p) \/ PoolRemove(p)
  <2>1. phase' = phase /\ code' = code
    BY <1>3 DEF PoolStop, PoolRemove
  <2>2. CASE box' = box
    BY <1>1, <2>1, <2>2 DEF ExitInv, Codes, Blanks, Blank, AtWork, Drained, Alive
  <2> QED BY <1>1, <2>1, <2>2, HostBoxes, BoxesExit
<1>4. CASE UNCHANGED <<phase, code, box>>
  BY <1>1, <1>4 DEF ExitInv, Codes, Blanks, Blank, AtWork, Drained, Alive
<1>5. CASE \E ph \in Phases, n \in {0, 1, 2, NoCode} : Moves(p, ph, n)
  BY <1>5, MovesExit
<1>6. CASE Start(p)
  <2>1. Moves(p, "load", code[p])
    BY <1>0, <1>1, <1>6 DEF Start, Moves, Boots
  <2> QED BY <1>0, <1>5, <2>1 DEF Phases, Boots
<1>7. CASE Load(p)
  <2>1. Moves(p, "wire", code[p]) \/ Moves(p, "exited", 1)
    BY <1>0, <1>1, <1>7 DEF Load, Moves, Boots
  <2> QED BY <1>0, <1>5, <2>1 DEF Phases, Boots, Ends
<1>8. CASE Wire(p)
  <2>1. Moves(p, "scan", code[p]) \/ Moves(p, "exited", 1)
    BY <1>0, <1>1, <1>8 DEF Wire, Moves, Boots
  <2> QED BY <1>0, <1>5, <2>1 DEF Phases, Boots, Ends
<1>9. CASE ReadLive(p) /\ UNCHANGED code
  <2>1. Moves(p, "list", code[p]) \/ Moves(p, "register", code[p])
    BY <1>0, <1>1, <1>9 DEF ReadLive, SweepOver, Moves, Boots
  <2> QED BY <1>0, <1>5, <2>1 DEF Phases, Boots
<1>10. CASE ListContainers(p) /\ UNCHANGED code
  <2>1. Moves(p, "reap", code[p]) \/ Moves(p, "register", code[p])
    BY <1>0, <1>1, <1>10 DEF ListContainers, SweepOver, Moves, Boots
  <2> QED BY <1>0, <1>5, <2>1 DEF Phases, Boots
<1>11. CASE SweepDone(p) /\ UNCHANGED code
  <2>1. Moves(p, "register", code[p])
    BY <1>0, <1>1, <1>11 DEF SweepDone, SweepOver, Moves, Boots
  <2> QED BY <1>0, <1>5, <2>1 DEF Phases, Boots
<1>12. CASE Register(p)
  <2>1. Moves(p, "up", code[p]) \/ Moves(p, "exited", 1)
    BY <1>0, <1>1, <1>12 DEF Register, Moves, Boots
  <2> QED BY <1>0, <1>5, <2>1 DEF Phases, Boots, Ends
<1>13. CASE DrainBegins(p)
  <2>1. Moves(p, "drain", code[p])
    BY <1>0, <1>1, <1>13 DEF DrainBegins, Moves
  <2> QED BY <1>0, <1>5, <2>1 DEF Phases, Stops
<1>14. CASE DrainEnds(p) \/ GraceEnds(p)
  <2>1. Moves(p, "join", 0) \/ Moves(p, "join", 2)
    BY <1>0, <1>1, <1>14 DEF DrainEnds, GraceEnds, Moves, Busy
  <2> QED BY <1>0, <1>5, <2>1 DEF Phases, Stops
<1>15. CASE Join(p)
  <2>1. Moves(p, "pools", code[p])
    BY <1>0, <1>1, <1>15 DEF Join, Moves
  <2> QED BY <1>0, <1>5, <2>1 DEF Phases, Stops
<1>16. CASE Signal(p) \/ ((Expire(p) \/ Refresh(p)) /\ UNCHANGED code)
  BY <1>4, <1>16 DEF Signal, Expire, Refresh
<1> QED BY <1>2, <1>3, <1>6, <1>7, <1>8, <1>9, <1>10, <1>11, <1>12, <1>13, <1>14, <1>15, <1>16
        DEF HostStep, SweepStep

\* A process that ends, in either way, takes its run with it.
LEMMA GoneExit ==
  ASSUME TypeOK, ExitInv, NEW p \in Procs, Exit(p) \/ Kill(p)
  PROVE  ExitInv'
<1>0. /\ phase \in [Procs -> Phases]
  BY DEF TypeOK, HostTypeOK
<1>1. /\ \A q \in Procs : q # p => phase'[q] = phase[q] /\ run'[q] = run[q]
      /\ run'[p] = Idle /\ UNCHANGED <<code, box, dir>>
      /\ \/ phase'[p] = "exited" /\ phase[p] = "pools"
         \/ phase'[p] = "killed"
  <2>1. run'[p] = Idle /\ \A q \in Procs : q # p => run'[q] = run[q]
    BY Made, RunMoves DEF Exit, Kill, Gone
  <2> QED BY <1>0, <2>1 DEF Exit, Kill, Gone, Enter
<1>2. Codes'
  BY <1>1 DEF ExitInv, Codes, Boots
<1>3. Blanks'
  <2> SUFFICES ASSUME NEW q \in Procs, phase'[q] \in Boots \/ (phase'[q] = "exited" /\ code[q] = 1)
               PROVE  Blank(q)'
    BY <1>1 DEF Blanks
  <2>1. q # p
    BY <1>1 DEF ExitInv, Codes, Boots
  <2>2. Blank(q)
    BY <1>1, <2>1 DEF ExitInv, Blanks
  <2> QED BY <1>1, <2>1, <2>2 DEF Blank
<1>4. AtWork'
  <2> SUFFICES ASSUME NEW c \in Containers, box[c].state = "busy"
               PROVE  LET q == box[c].owner IN
                        \/ Alive(q)' /\ run'[q].pc = "scan" /\ run'[q].box = c
                        \/ phase'[q] = "killed"
                        \/ phase'[q] = "exited" /\ code[q] = 2
    BY <1>1 DEF AtWork
  <2> DEFINE q == box[c].owner
  <2>1. q \in Procs
    BY BoxShape DEF NoBox
  <2>2. \/ Alive(q) /\ run[q].pc = "scan" /\ run[q].box = c
        \/ phase[q] = "killed"
        \/ phase[q] = "exited" /\ code[q] = 2
    BY DEF ExitInv, AtWork
  <2> HIDE DEF q
  <2>3. CASE q # p
    BY <1>1, <2>1, <2>2, <2>3 DEF Alive, q
  <2>4. CASE q = p /\ phase'[p] # "killed"
    <3>1. run[p].pc = "scan" /\ phase[p] = "pools"
      BY <1>1, <2>2, <2>4
    <3>2. code[p] = 2
      BY <3>1 DEF ExitInv, Codes, Drained, Idle
    <3> QED BY <1>1, <2>4, <3>2 DEF q
  <2> QED BY <2>3, <2>4 DEF q
<1>5. Drained'
  BY <1>1 DEF ExitInv, Drained
<1> QED BY <1>2, <1>3, <1>4, <1>5 DEF ExitInv

LEMMA RunExit ==
  ASSUME TypeOK, TreesHeld, ExitInv, UNCHANGED code, NEW p \in Procs,
         (\E s \in Scans : Begin(p, s)) \/ SourceStep(p)
  PROVE  ExitInv'
<1>1. CASE \E s \in Scans : Begin(p, s)
  <2>1. phase[p] = "up" /\ run[p] = Idle /\ UNCHANGED <<phase, box, dir>>
    BY <1>1 DEF Begin, hostVars, Busy
  <2>2. \A q \in Procs : q # p => run'[q] = run[q]
    <3>1. PICK s \in Scans : Becomes(p, [pc |-> "clone", scan |-> s])
      BY <1>1 DEF Begin
    <3> QED BY <3>1, Made, RunMoves
  <2>3. Codes' /\ Blanks' /\ Drained'
    BY <2>1, <2>2 DEF ExitInv, Codes, Blanks, Blank, Drained, Boots
  <2>4. AtWork'
    BY <2>1, <2>2, BoxShape DEF ExitInv, AtWork, Alive, Idle, NoBox
  <2> QED BY <2>3, <2>4 DEF ExitInv
<1>2. CASE SourceStep(p)
  <2>1. /\ phase' = phase /\ Alive(p) /\ run[p].pc # "none"
        /\ run[p].scan \in Scans
    BY <1>2, SourceMoves, SourceBoxes
  <2>2. PICK r \in RunsOf, d \in Dirs :
          /\ run' = [run EXCEPT ![p] = r]
          /\ dir' = [dir EXCEPT ![run[p].scan] = d]
          /\ RunStep(p, run[p].scan, r, d)
    BY <1>2, SourceMoves
  <2>3. /\ run'[p] = r /\ \A q \in Procs : q # p => run'[q] = run[q]
        /\ \A x \in Scans : dir'[x].by \in {dir[x].by, "none", p}
    <3>1. run \in [Procs -> RunsOf] /\ dir \in [Scans -> Dirs]
      BY DEF TypeOK, StagingTypeOK
    <3>2. d.by \in {dir[run[p].scan].by, "none", p}
      BY <2>2 DEF RunStep, Empty
    <3> QED BY <2>1, <2>2, <3>1, <3>2
  <2>4. run[p] # Idle /\ phase[p] \notin Boots \cup Ends
    BY <2>1 DEF Idle, Alive, Boots, Ends, Stops
  <2>5. Codes'
    BY <2>1 DEF ExitInv, Codes
  <2>6. Drained'
    BY <2>1, <2>3, <2>4 DEF ExitInv, Drained
  <2>7. \A c \in Containers : box'[c].owner \in {box[c].owner, "none", p}
    <3>1. box \in [Containers -> Boxes]
      BY DEF TypeOK, HostTypeOK
    <3>2. CASE box' = box
      BY <3>2
    <3>3. ASSUME NEW c \in Containers, NEW b \in Boxes, box' = [box EXCEPT ![c] = b], BoxStep(p, c, b)
          PROVE  \A x \in Containers : box'[x].owner \in {box[x].owner, "none", p}
      <4>1. b.owner \in {"none", p}
        BY <3>3 DEF BoxStep, NoBox
      <4> QED BY <3>1, <3>3, <4>1
    <3> QED BY <1>2, <3>2, <3>3, SourceBoxes
  <2>8. Blanks'
    <3> SUFFICES ASSUME NEW q \in Procs, phase[q] \in Boots \/ (phase[q] = "exited" /\ code[q] = 1)
                 PROVE  Blank(q)'
      BY <2>1 DEF Blanks
    <3>1. q # p
      BY <2>4 DEF Ends
    <3>2. Blank(q)
      BY DEF ExitInv, Blanks
    <3> QED BY <2>3, <2>7, <3>1, <3>2 DEF Blank
  <2>9. AtWork'
    <3> SUFFICES ASSUME NEW x \in Containers, box'[x].state = "busy"
                 PROVE  LET q == box'[x].owner IN
                          \/ Alive(q) /\ run'[q].pc = "scan" /\ run'[q].box = x
                          \/ phase[q] = "killed"
                          \/ phase[q] = "exited" /\ code[q] = 2
      BY <2>1 DEF AtWork, Alive
    <3>0. box \in [Containers -> Boxes]
      BY DEF TypeOK, HostTypeOK
    \* A container that this step leaves alone.
    <3>1. ASSUME box'[x] = box[x],
                 run[p].pc = "scan" /\ run[p].box = x => box[x].owner # p
          PROVE  LET q == box'[x].owner IN
                   \/ Alive(q) /\ run'[q].pc = "scan" /\ run'[q].box = x
                   \/ phase[q] = "killed"
                   \/ phase[q] = "exited" /\ code[q] = 2
      <4> DEFINE q == box[x].owner
      <4>1. q \in Procs
        BY <3>1, BoxShape DEF NoBox
      <4>2. \/ Alive(q) /\ run[q].pc = "scan" /\ run[q].box = x
            \/ phase[q] = "killed"
            \/ phase[q] = "exited" /\ code[q] = 2
        BY <3>1 DEF ExitInv, AtWork
      <4> HIDE DEF q
      <4>3. q = p => ~(run[q].pc = "scan" /\ run[q].box = x)
        BY <3>1 DEF q
      <4> QED BY <2>3, <3>1, <4>1, <4>2, <4>3 DEF q
    <3>2. CASE box' = box /\ (run[p].pc = "scan" => box[run[p].box].owner # p)
      BY <3>1, <3>2
    <3>3. ASSUME NEW c \in Containers, NEW b \in Boxes, box' = [box EXCEPT ![c] = b], BoxStep(p, c, b)
          PROVE  LET q == box'[x].owner IN
                   \/ Alive(q) /\ run'[q].pc = "scan" /\ run'[q].box = x
                   \/ phase[q] = "killed"
                   \/ phase[q] = "exited" /\ code[q] = 2
      <4>1. CASE x # c
        <5>1. box'[x] = box[x]
          BY <3>0, <3>3, <4>1
        <5>2. ~(run[p].pc = "scan" /\ run[p].box = x)
          BY <3>3, <4>1 DEF BoxStep
        <5> QED BY <3>1, <5>1, <5>2
      <4>2. CASE x = c
        <5>1. box'[x] = b
          BY <3>0, <3>3, <4>2
        <5>2. b.owner = p /\ run'[p].pc = "scan" /\ run'[p].box = c
          BY <3>3, <5>1 DEF BoxStep, NoBox
        <5> QED BY <2>1, <4>2, <5>1, <5>2
      <4> QED BY <4>1, <4>2
    <3> QED BY <1>2, <3>2, <3>3, SourceBoxes
  <2> QED BY <2>5, <2>6, <2>8, <2>9 DEF ExitInv
<1> QED BY <1>1, <1>2

-------------------------------------------------------------------------------
(***************************************************************************)
(* The sweep.                                                              *)
(***************************************************************************)
SweepInv == Owes /\ PeersListed

\* A step of p outside its sweep: it may create containers of its own, and
\* takes them away, but no process that is gone gets one.
LEMMA ElsewhereSweep ==
  ASSUME TypeOK, SweepInv, NEW p \in Procs, NEW ph \in Phases,
         phase' = [phase EXCEPT ![p] = ph],
         phase[p] \notin Ends,
         ph \notin {"scan", "list", "reap", "register"} \/ ph = phase[p],
         ph \in {"off", "load", "wire"} => phase[p] \in {"off", "load", "wire"},
         UNCHANGED <<live, owed, peers, key>>,
         \A q \in Procs : q # p \/ ph \in {"list", "reap"} => todo'[q] = todo[q],
         \A c \in Containers : box'[c].owner \in {box[c].owner, "none", p}
  PROVE  SweepInv'
<1>0. /\ phase \in [Procs -> Phases] /\ owed \in [Procs -> SUBSET Procs]
  BY DEF TypeOK, HostTypeOK
<1>1. phase'[p] = ph /\ \A q \in Procs : q # p => phase'[q] = phase[q]
  BY <1>0
<1>2. \A q \in Procs : p \notin owed[q] /\ "none" \notin owed[q]
  BY <1>0 DEF SweepInv, Owes
<1>3. Owes'
  <2> SUFFICES ASSUME NEW q \in Procs
               PROVE  /\ phase'[q] \in {"off", "load", "wire", "scan"} => owed[q] = {}
                      /\ \A x \in owed[q] : phase'[x] \in Ends
                      /\ phase'[q] \in {"list", "reap"} => owed[q] \cap live[q] = {}
                      /\ phase'[q] = "reap" =>
                           \A c \in Containers : box'[c].owner \in owed[q] => c \in todo'[q]
                      /\ phase'[q] = "register" => \A c \in Containers : box'[c].owner \notin owed[q]
    BY DEF Owes
  <2>1. /\ phase'[q] \in {"off", "load", "wire", "scan"} => owed[q] = {}
        /\ phase'[q] \in {"list", "reap"} => owed[q] \cap live[q] = {}
    BY <1>1 DEF SweepInv, Owes
  <2>2. \A x \in owed[q] : phase'[x] \in Ends
    BY <1>0, <1>1, <1>2 DEF SweepInv, Owes
  <2>3. \A c \in Containers : box'[c].owner \in owed[q] => box[c].owner \in owed[q]
    BY <1>2
  <2>4. phase'[q] \in {"reap", "register"} => phase[q] = phase'[q]
    BY <1>1
  <2>5. phase'[q] = "reap" => todo'[q] = todo[q]
    BY <1>1
  <2> QED BY <2>1, <2>2, <2>3, <2>4, <2>5 DEF SweepInv, Owes
<1>4. PeersListed'
  BY <1>1 DEF SweepInv, PeersListed
<1> QED BY <1>3, <1>4 DEF SweepInv

\* The sweep itself: what it reads, what it lists and what it removes.
LEMMA SweepStepSweep ==
  ASSUME TypeOK, SweepInv, NEW p \in Procs, SweepStep(p)
  PROVE  SweepInv'
<1>0. /\ phase \in [Procs -> Phases] /\ key \subseteq Procs
      /\ live \in [Procs -> SUBSET Procs] /\ todo \in [Procs -> SUBSET Containers]
      /\ owed \in [Procs -> SUBSET Procs] /\ peers \in [Procs -> SUBSET Procs]
      /\ box \in [Containers -> Boxes]
  BY DEF TypeOK, HostTypeOK
<1> USE DEF Enter, SweepOver
<1>1. CASE ReadLive(p)
  <2>0. phase[p] = "scan" /\ owed[p] = {} /\ peers[p] \subseteq key
    BY <1>1 DEF ReadLive, SweepInv, Owes, PeersListed
  <2>1. CASE /\ phase' = [phase EXCEPT ![p] = "list"]
             /\ live' = [live EXCEPT ![p] = key \cup {p}]
             /\ owed' = [owed EXCEPT ![p] = {q \in Procs \ key : phase[q] \in Ends}]
             /\ UNCHANGED <<todo, peers, box, key>>
    <3>1. /\ phase'[p] = "list" /\ live'[p] = key \cup {p}
          /\ owed'[p] = {q \in Procs \ key : phase[q] \in Ends}
          /\ \A q \in Procs : q # p =>
               phase'[q] = phase[q] /\ live'[q] = live[q] /\ owed'[q] = owed[q]
      BY <1>0, <2>1
    <3>2. p \notin owed'[p] /\ \A q \in Procs : p \notin owed[q]
      BY <1>0, <2>0, <3>1 DEF SweepInv, Owes, Ends
    <3>3. owed'[p] \cap live'[p] = {}
      BY <3>1, <3>2
    <3>4. Owes'
      BY <1>0, <2>1, <3>1, <3>2, <3>3 DEF SweepInv, Owes
    <3>5. PeersListed'
      BY <2>0, <2>1, <3>1 DEF SweepInv, PeersListed
    <3> QED BY <3>4, <3>5 DEF SweepInv
  <2>2. CASE SweepOver(p) /\ UNCHANGED <<owed, box, key>>
    <3>1. /\ phase'[p] = "register"
          /\ \A q \in Procs : q # p =>
               /\ phase'[q] = phase[q] /\ live'[q] = live[q]
               /\ todo'[q] = todo[q] /\ peers'[q] = peers[q]
      BY <1>0, <2>2
    <3>2. Owes'
      BY <1>0, <2>0, <2>2, <3>1 DEF SweepInv, Owes, Ends
    <3>3. PeersListed'
      BY <2>2, <3>1 DEF SweepInv, PeersListed
    <3> QED BY <3>2, <3>3 DEF SweepInv
  <2> QED BY <1>1, <2>1, <2>2 DEF ReadLive
<1>2. CASE ListContainers(p)
  <2>0. phase[p] = "list" /\ UNCHANGED <<box, key>>
    BY <1>2 DEF ListContainers
  <2>1. CASE /\ phase' = [phase EXCEPT ![p] = "reap"]
             /\ todo' = [todo EXCEPT ![p] = Managed]
             /\ UNCHANGED <<live, owed, peers>>
    <3>1. /\ phase'[p] = "reap" /\ todo'[p] = Managed
          /\ \A q \in Procs : q # p => phase'[q] = phase[q] /\ todo'[q] = todo[q]
      BY <1>0, <2>1
    <3>2. \A c \in Containers : box[c].owner \in owed[p] => c \in Managed
      BY <1>0, BoxShape DEF Managed, NoBox
    <3>3. Owes'
      BY <1>0, <2>0, <2>1, <3>1, <3>2 DEF SweepInv, Owes, Ends
    <3>4. PeersListed'
      BY <2>0, <2>1, <3>1 DEF SweepInv, PeersListed
    <3> QED BY <3>3, <3>4 DEF SweepInv
  <2>2. CASE SweepOver(p) /\ owed' = [owed EXCEPT ![p] = {}]
    <3>1. /\ phase'[p] = "register" /\ owed'[p] = {}
          /\ \A q \in Procs : q # p =>
               /\ phase'[q] = phase[q] /\ live'[q] = live[q] /\ owed'[q] = owed[q]
               /\ todo'[q] = todo[q] /\ peers'[q] = peers[q]
      BY <1>0, <2>2
    <3>2. Owes'
      BY <1>0, <2>0, <2>2, <3>1 DEF SweepInv, Owes, Ends
    <3>3. PeersListed'
      BY <2>0, <2>2, <3>1 DEF SweepInv, PeersListed
    <3> QED BY <3>2, <3>3 DEF SweepInv
  <2> QED BY <1>2, <2>1, <2>2 DEF ListContainers
<1>3. CASE Reap(p)
  <2>0. phase[p] = "reap" /\ UNCHANGED <<phase, key, live, peers>>
    BY <1>3 DEF Reap
  <2>1. PICK c \in todo[p] :
          /\ todo' = [todo EXCEPT ![p] = @ \ {c}]
          /\ \/ /\ box[c] = NoBox \/ Spares(p, box[c].owner)
                /\ UNCHANGED <<box, owed>>
             \/ /\ box' = [box EXCEPT ![c] = NoBox]
                /\ UNCHANGED owed
             \/ /\ owed' = [owed EXCEPT ![p] = @ \ {box[c].owner}]
                /\ UNCHANGED box
    BY <1>3 DEF Reap
  <2>2. c \in Containers
    BY <1>0, <2>1
  <2>3. /\ todo'[p] = todo[p] \ {c} /\ \A q \in Procs : q # p => todo'[q] = todo[q]
        /\ \A q \in Procs : owed'[q] \subseteq owed[q] /\ (q # p => owed'[q] = owed[q])
        /\ \A x \in Containers : box'[x].owner \in {box[x].owner, "none"}
    <3>1. NoBox.owner = "none"
      BY DEF NoBox
    <3> QED BY <1>0, <2>1, <2>2, <3>1
  <2>4. box'[c].owner \notin owed'[p]
    <3>1. CASE box[c] = NoBox /\ UNCHANGED <<box, owed>>
      BY <1>0, <3>1 DEF NoBox
    <3>2. CASE Spares(p, box[c].owner) /\ UNCHANGED <<box, owed>>
      BY <2>0, <3>2 DEF SweepInv, Owes, Spares
    <3>3. CASE box' = [box EXCEPT ![c] = NoBox] /\ UNCHANGED owed
      BY <1>0, <2>2, <3>3 DEF NoBox
    <3>4. CASE owed' = [owed EXCEPT ![p] = @ \ {box[c].owner}] /\ UNCHANGED box
      BY <1>0, <3>4
    <3> QED BY <2>1, <3>1, <3>2, <3>3, <3>4
  <2>5. \A q \in Procs, x \in Containers : box'[x].owner \in owed'[q] => box[x].owner \in owed[q]
    BY <1>0, <2>3
  <2>6. Owes'
    <3> SUFFICES ASSUME NEW q \in Procs
                 PROVE  /\ phase[q] \in {"off", "load", "wire", "scan"} => owed'[q] = {}
                        /\ \A x \in owed'[q] : phase[x] \in Ends
                        /\ phase[q] \in {"list", "reap"} => owed'[q] \cap live[q] = {}
                        /\ phase[q] = "reap" =>
                             \A x \in Containers : box'[x].owner \in owed'[q] => x \in todo'[q]
                        /\ phase[q] = "register" => \A x \in Containers : box'[x].owner \notin owed'[q]
      BY <2>0 DEF Owes
    <3>1. /\ phase[q] \in {"off", "load", "wire", "scan"} => owed'[q] = {}
          /\ \A x \in owed'[q] : phase[x] \in Ends
          /\ phase[q] \in {"list", "reap"} => owed'[q] \cap live[q] = {}
      BY <2>3 DEF SweepInv, Owes
    <3>2. phase[q] = "reap" =>
            \A x \in Containers : box'[x].owner \in owed'[q] => x \in todo'[q]
      BY <2>3, <2>4, <2>5 DEF SweepInv, Owes
    <3>3. phase[q] = "register" => \A x \in Containers : box'[x].owner \notin owed'[q]
      BY <2>5 DEF SweepInv, Owes
    <3> QED BY <3>1, <3>2, <3>3
  <2>7. PeersListed'
    BY <2>0 DEF SweepInv, PeersListed
  <2> QED BY <2>6, <2>7 DEF SweepInv
<1>4. CASE SweepDone(p)
  <2>0. phase[p] = "reap" /\ todo[p] = {} /\ UNCHANGED <<key, box, owed>>
    BY <1>4 DEF SweepDone
  <2>1. /\ phase'[p] = "register"
        /\ \A q \in Procs : q # p =>
             /\ phase'[q] = phase[q] /\ live'[q] = live[q]
             /\ todo'[q] = todo[q] /\ peers'[q] = peers[q]
    BY <1>0, <1>4 DEF SweepDone
  <2>2. \A c \in Containers : box[c].owner \notin owed[p]
    BY <2>0 DEF SweepInv, Owes
  <2>3. Owes'
    BY <1>0, <2>0, <2>1, <2>2 DEF SweepInv, Owes, Ends
  <2>4. PeersListed'
    BY <2>0, <2>1 DEF SweepInv, PeersListed
  <2> QED BY <2>3, <2>4 DEF SweepInv
<1> QED BY <1>1, <1>2, <1>3, <1>4 DEF SweepStep

\* The end of a process, its registration and the keys.
LEMMA KeysSweep ==
  ASSUME TypeOK, SweepInv, NEW p \in Procs,
         Register(p) \/ Expire(p) \/ Refresh(p) \/ Exit(p) \/ Kill(p)
  PROVE  SweepInv'
<1>0. /\ phase \in [Procs -> Phases] /\ key \subseteq Procs
      /\ live \in [Procs -> SUBSET Procs] /\ todo \in [Procs -> SUBSET Containers]
      /\ owed \in [Procs -> SUBSET Procs] /\ peers \in [Procs -> SUBSET Procs]
  BY DEF TypeOK, HostTypeOK
<1> USE DEF Enter
<1>1. CASE Register(p)
  <2>1. /\ phase[p] = "register" /\ UNCHANGED <<box, live, todo, peers>>
        /\ key \subseteq key' /\ phase'[p] \in {"up", "exited"} /\ owed'[p] = {}
        /\ \A q \in Procs : q # p => phase'[q] = phase[q] /\ owed'[q] = owed[q]
    BY <1>0, <1>1 DEF Register, Exits
  <2>2. Owes'
    BY <1>0, <2>1 DEF SweepInv, Owes, Ends
  <2>3. PeersListed'
    BY <2>1 DEF SweepInv, PeersListed
  <2> QED BY <2>2, <2>3 DEF SweepInv
<1>2. CASE Expire(p)
  <2>1. /\ key' = key \ {p} /\ UNCHANGED <<phase, box, live, todo, owed>>
        /\ \A q \in Procs : peers'[q] = IF phase[q] = "scan" THEN peers[q] \ {p} ELSE peers[q]
    BY <1>0, <1>2 DEF Expire
  <2>2. Owes'
    BY <2>1 DEF SweepInv, Owes
  <2>3. PeersListed'
    BY <2>1 DEF SweepInv, PeersListed
  <2> QED BY <2>2, <2>3 DEF SweepInv
<1>3. CASE Refresh(p)
  <2>1. key' = key \cup {p} /\ UNCHANGED <<phase, box, live, todo, owed, peers>>
    BY <1>3 DEF Refresh, sweepVars
  <2> QED BY <2>1 DEF SweepInv, Owes, PeersListed
<1>4. CASE Exit(p) \/ Kill(p)
  <2>1. /\ UNCHANGED <<key, box>> /\ phase'[p] \in Ends /\ owed'[p] = {}
        /\ \A q \in Procs : q # p =>
             /\ phase'[q] = phase[q] /\ live'[q] = live[q] /\ owed'[q] = owed[q]
             /\ todo'[q] = todo[q] /\ peers'[q] = peers[q]
    BY <1>0, <1>4 DEF Exit, Kill, Gone, Ends
  <2>2. Owes'
    BY <1>0, <2>1 DEF SweepInv, Owes, Ends
  <2>3. PeersListed'
    BY <2>1 DEF SweepInv, PeersListed, Ends
  <2> QED BY <2>2, <2>3 DEF SweepInv
<1> QED BY <1>1, <1>2, <1>3, <1>4

LEMMA NextSweep ==
  ASSUME TypeOK, TreesHeld, SweepInv, Next
  PROVE  SweepInv'
<1>0. phase \in [Procs -> Phases] /\ todo \in [Procs -> SUBSET Containers]
  BY DEF TypeOK, HostTypeOK
<1>1. PICK p \in Procs :
        \/ HostStep(p)
        \/ Exit(p)
        \/ Kill(p)
        \/ \E s \in Scans : Begin(p, s) /\ UNCHANGED code
        \/ SourceStep(p) /\ UNCHANGED code
  BY NextCases
<1>2. phase[p] \in Phases /\ phase = [phase EXCEPT ![p] = phase[p]]
  BY <1>0
<1> USE DEF Enter, Exits, sweepVars
<1>3. CASE Start(p)
  <2>1. /\ phase[p] = "off" /\ phase' = [phase EXCEPT ![p] = "load"] /\ "load" \in Phases
        /\ UNCHANGED <<live, owed, peers, key, todo, box>>
    BY <1>3 DEF Start, Phases, Boots
  <2> QED BY <2>1, ElsewhereSweep DEF Ends
<1>4. CASE Load(p)
  <2>1. /\ phase[p] = "load" /\ \E ph \in {"wire", "exited"} : phase' = [phase EXCEPT ![p] = ph]
        /\ UNCHANGED <<live, owed, peers, key, todo, box>>
    BY <1>4 DEF Load
  <2>2. PICK ph \in {"wire", "exited"} : phase' = [phase EXCEPT ![p] = ph]
    BY <2>1
  <2>3. ph \in Phases
    BY <2>2 DEF Phases, Boots, Ends
  <2> QED BY <2>1, <2>2, <2>3, ElsewhereSweep DEF Ends
<1>5. CASE Wire(p)
  <2>0. phase[p] = "wire" /\ UNCHANGED <<live, owed, key, todo, box>>
    BY <1>5 DEF Wire
  <2>1. CASE /\ phase' = [phase EXCEPT ![p] = "scan"]
             /\ peers' = [peers EXCEPT ![p] = {q \in key : phase[q] = "up"}]
    <3>0. peers \in [Procs -> SUBSET Procs] /\ owed \in [Procs -> SUBSET Procs]
      BY DEF TypeOK, HostTypeOK
    <3>1. /\ phase'[p] = "scan" /\ peers'[p] \subseteq key
          /\ \A q \in Procs : q # p => phase'[q] = phase[q] /\ peers'[q] = peers[q]
      BY <1>0, <2>1, <3>0
    <3>2. Owes'
      BY <2>0, <3>0, <3>1 DEF SweepInv, Owes, Ends
    <3>3. PeersListed'
      BY <2>0, <3>1 DEF SweepInv, PeersListed
    <3> QED BY <3>2, <3>3 DEF SweepInv
  <2>2. CASE phase' = [phase EXCEPT ![p] = "exited"] /\ UNCHANGED peers
    <3>1. "exited" \in Phases
      BY DEF Phases, Ends
    <3> QED BY <2>0, <2>2, <3>1, ElsewhereSweep DEF Ends
  <2> QED BY <1>5, <2>1, <2>2 DEF Wire
<1>6. CASE SweepStep(p)
  BY <1>6, SweepStepSweep
<1>7. CASE Register(p) \/ Expire(p) \/ Refresh(p) \/ Exit(p) \/ Kill(p)
  BY <1>7, KeysSweep
<1>8. CASE DrainBegins(p) \/ DrainEnds(p) \/ GraceEnds(p)
  <2>1. /\ phase[p] \in {"up", "drain"} /\ \E ph \in {"drain", "join"} : phase' = [phase EXCEPT ![p] = ph]
        /\ UNCHANGED <<live, owed, peers, key, todo, box>>
    BY <1>8 DEF DrainBegins, DrainEnds, GraceEnds
  <2>2. PICK ph \in {"drain", "join"} : phase' = [phase EXCEPT ![p] = ph]
    BY <2>1
  <2>3. ph \in Phases
    BY <2>2 DEF Phases, Stops
  <2> QED BY <2>1, <2>2, <2>3, ElsewhereSweep DEF Ends
<1>9. CASE Join(p)
  <2>1. /\ phase[p] = "join" /\ phase' = [phase EXCEPT ![p] = "pools"] /\ "pools" \in Phases
        /\ UNCHANGED <<live, owed, peers, key, box>>
        /\ \A q \in Procs : q # p => todo'[q] = todo[q]
    BY <1>0, <1>9 DEF Join, Phases, Stops
  <2> QED BY <2>1, ElsewhereSweep DEF Ends
<1>10. CASE PoolStop(p) \/ PoolRemove(p)
  <2>1. /\ phase[p] = "pools" /\ phase' = [phase EXCEPT ![p] = "pools"] /\ "pools" \in Phases
        /\ UNCHANGED <<live, owed, peers, key>>
        /\ \A q \in Procs : q # p => todo'[q] = todo[q]
    BY <1>0, <1>2, <1>10 DEF PoolStop, PoolRemove, Phases, Stops
  <2>2. \A c \in Containers : box'[c].owner \in {box[c].owner, "none", p}
    <3>1. box \in [Containers -> Boxes]
      BY DEF TypeOK, HostTypeOK
    <3>2. HostStep(p)
      BY <1>10 DEF HostStep
    <3>3. NoBox.owner = "none"
      BY DEF NoBox
    <3>4. CASE box' = box
      BY <3>4
    <3>5. ASSUME NEW c \in Containers, box' = [box EXCEPT ![c] = NoBox]
          PROVE  \A x \in Containers : box'[x].owner \in {box[x].owner, "none", p}
      BY <3>1, <3>3, <3>5
    <3>6. ASSUME NEW c \in Containers, box' = [box EXCEPT ![c] = [owner |-> p, state |-> "stopped"]]
          PROVE  \A x \in Containers : box'[x].owner \in {box[x].owner, "none", p}
      BY <3>1, <3>6
    <3> QED BY <3>2, <3>4, <3>5, <3>6, HostBoxes
  <2> QED BY <2>1, <2>2, ElsewhereSweep DEF Ends
<1>11. CASE Signal(p)
  <2>1. /\ phase[p] \notin Ends /\ phase' = [phase EXCEPT ![p] = phase[p]]
        /\ UNCHANGED <<live, owed, peers, key, todo, box>>
    BY <1>2, <1>11 DEF Signal
  <2> QED BY <1>2, <2>1, ElsewhereSweep
<1>12. CASE \E s \in Scans : Begin(p, s)
  <2>1. /\ phase[p] = "up" /\ phase' = [phase EXCEPT ![p] = phase[p]]
        /\ UNCHANGED <<live, owed, peers, key, todo, box>>
    BY <1>2, <1>12 DEF Begin, hostVars
  <2> QED BY <1>2, <2>1, ElsewhereSweep DEF Ends
<1>13. CASE SourceStep(p)
  <2>1. /\ Alive(p) /\ phase' = [phase EXCEPT ![p] = phase[p]]
        /\ UNCHANGED <<live, owed, peers, key, todo>>
    BY <1>2, <1>13, SourceMoves, SourceBoxes
  <2>2. \A c \in Containers : box'[c].owner \in {box[c].owner, "none", p}
    <3>1. box \in [Containers -> Boxes]
      BY DEF TypeOK, HostTypeOK
    <3>2. ASSUME NEW c \in Containers, NEW b \in Boxes, box' = [box EXCEPT ![c] = b], BoxStep(p, c, b)
          PROVE  \A x \in Containers : box'[x].owner \in {box[x].owner, "none", p}
      <4>1. b.owner \in {"none", p}
        BY <3>2 DEF BoxStep, NoBox
      <4> QED BY <3>1, <3>2, <4>1
    <3> QED BY <1>13, <3>2, SourceBoxes
  <2> QED BY <1>2, <2>1, <2>2, ElsewhereSweep DEF Alive, Ends, Stops
<1> QED BY <1>1, <1>3, <1>4, <1>5, <1>6, <1>7, <1>8, <1>9, <1>10, <1>11, <1>12, <1>13 DEF HostStep

-------------------------------------------------------------------------------
(***************************************************************************)
(* The theorems.                                                           *)
(***************************************************************************)
LEMMA InitHolds ==
  ASSUME Init
  PROVE  HostInv
<1>1. /\ \A p \in Procs : /\ phase[p] = "off" /\ run[p] = Idle /\ code[p] = NoCode
                          /\ owed[p] = {} /\ peers[p] = {}
      /\ \A c \in Containers : box[c] = NoBox
      /\ \A s \in Scans : dir[s] = Empty
  BY DEF Init, HostInit, StagingInit
<1>2. TypeOK
  BY Made DEF Init, HostInit, StagingInit, TypeOK, HostTypeOK, StagingTypeOK, Phases, Boots
<1>3. TreesHeld /\ TreesKnown
  BY <1>1 DEF TreesHeld, TreesKnown, Idle
<1>4. Codes /\ Blanks /\ Drained
  BY <1>1 DEF Codes, Blanks, Blank, Drained, Boots, NoBox, Empty
<1>5. AtWork
  BY <1>1 DEF AtWork, NoBox
<1>6. Owes /\ PeersListed
  BY <1>1 DEF Owes, PeersListed
<1> QED BY <1>2, <1>3, <1>4, <1>5, <1>6 DEF HostInv

LEMMA NextHolds ==
  ASSUME HostInv, [Next]_vars
  PROVE  HostInv'
<1>1. TypeOK /\ TreesHeld /\ TreesKnown /\ ExitInv /\ SweepInv
  BY DEF HostInv, ExitInv, SweepInv
<1>2. CASE Next
  <2>1. TypeOK' /\ TreesHeld' /\ TreesKnown'
    BY <1>1, <1>2, NextType
  <2>2. ExitInv'
    BY <1>1, <1>2, NextCases, HostStepExit, GoneExit, RunExit
  <2>3. SweepInv'
    BY <1>1, <1>2, NextSweep
  <2> QED BY <2>1, <2>2, <2>3 DEF HostInv, ExitInv, SweepInv
<1>3. CASE UNCHANGED vars
  BY <1>3 DEF vars, HostInv, TypeOK, HostTypeOK, StagingTypeOK, TreesHeld, TreesKnown, Codes,
              Blanks, Blank, AtWork, Alive, Drained, Owes, PeersListed
<1> QED BY <1>2, <1>3

\* The inductive invariant holds throughout.
THEOREM HostCorrect == Spec => []HostInv
<1>1. Init => HostInv
  BY InitHolds
<1>2. HostInv /\ [Next]_vars => HostInv'
  BY NextHolds
<1> QED BY <1>1, <1>2, PTL DEF Spec

\* A scan reads the whole tree of its own clone, whatever the other processes
\* of the host do: Prepare and Cleanup of FsSourceRunner.Run never disturb
\* another run of the same scan id.
THEOREM OwnTree == Spec => []SeesOwnTree
<1>1. HostInv => SeesOwnTree
  BY DEF HostInv, TreesHeld, SeesOwnTree
<1> QED BY <1>1, HostCorrect, PTL

\* Every return path of Run after the clone removes the tree: one that is on
\* the disk belongs to a run, or was left by a killed clone or process.
THEOREM TreesRemembered == Spec => []NoTreeForgotten
<1>1. HostInv => NoTreeForgotten
  <2> SUFFICES ASSUME HostInv, NEW s \in Scans, dir[s] # Empty, s \notin stray
               PROVE  \E p \in Procs : Busy(p) /\ run[p].scan = s /\ dir[s].by = p
    BY DEF NoTreeForgotten
  <2>1. /\ dir[s].by \in Procs /\ run[dir[s].by].scan = s
        /\ run[dir[s].by].pc \in {"fetch", "acquire", "scan", "clean"}
    BY DEF HostInv, TreesKnown
  <2>2. Busy(dir[s].by)
    BY <2>1 DEF Busy, Idle
  <2> QED BY <2>1, <2>2
<1> QED BY <1>1, HostCorrect, PTL

\* What the exit codes of main promise: 0 that no container is at work, 1
\* that the process left nothing, and every exit has a code.
THEOREM ExitCodesHonest == Spec => []ExitHonest
<1>1. HostInv => ExitHonest
  <2> SUFFICES ASSUME HostInv, NEW p \in Procs, phase[p] = "exited"
               PROVE  /\ code[p] = 0 => \A c \in BoxesOf(p) : box[c].state # "busy"
                      /\ code[p] = 1 => BoxesOf(p) = {} /\ \A s \in Scans : dir[s].by # p
                      /\ code[p] # NoCode
    BY DEF ExitHonest
  <2>1. code[p] # NoCode
    BY DEF HostInv, Codes, NoCode
  <2>2. code[p] = 1 => BoxesOf(p) = {} /\ \A s \in Scans : dir[s].by # p
    BY DEF HostInv, Blanks, Blank, BoxesOf
  <2>3. code[p] = 0 => \A c \in BoxesOf(p) : box[c].state # "busy"
    BY DEF HostInv, AtWork, Alive, Stops, BoxesOf
  <2> QED BY <2>1, <2>2, <2>3
<1> QED BY <1>1, HostCorrect, PTL

\* A startup sweep that met no error (ReapOrphans) left no container of a
\* process that was dead and without a heartbeat key when it read the keys.
THEOREM SweepsThorough == Spec => []SweepThorough
<1>1. HostInv => SweepThorough
  BY DEF HostInv, Owes, SweepThorough
<1> QED BY <1>1, HostCorrect, PTL

\* A step that takes a container of a worker that is up is a step of a sweep
\* that did not find that worker's key.
LEMMA VanishCause ==
  ASSUME HostInv, Next, NEW c \in Containers, NEW q \in Procs, Vanishes(c, q)
  PROVE  \E p \in Procs : phase[p] = "reap" /\ q \notin peers[p]
<1>0. /\ TypeOK /\ TreesHeld /\ box \in [Containers -> Boxes] /\ todo \in [Procs -> SUBSET Containers]
      /\ run \in [Procs -> RunsOf]
  BY DEF HostInv, TypeOK, HostTypeOK, StagingTypeOK
<1>1. phase[q] = "up" /\ box[c].owner = q /\ box'[c].owner # q /\ run'[q] = run[q]
  BY DEF Vanishes
<1>2. PICK p \in Procs :
        \/ HostStep(p)
        \/ Exit(p)
        \/ Kill(p)
        \/ \E s \in Scans : Begin(p, s) /\ UNCHANGED code
        \/ SourceStep(p) /\ UNCHANGED code
  BY NextCases
<1>3. CASE Reap(p)
  <2>1. phase[p] = "reap"
    BY <1>3 DEF Reap
  <2>2. q \notin live[p]
    BY <1>0, <1>1, <1>3 DEF Reap, Spares
  <2>3. peers[p] \subseteq live[p]
    BY <2>1 DEF HostInv, PeersListed
  <2> QED BY <2>1, <2>2, <2>3
<1>4. CASE PoolStop(p) \/ PoolRemove(p)
  <2>1. phase[p] = "pools" /\ p # q
    BY <1>1, <1>4 DEF PoolStop, PoolRemove
  <2>2. box'[c] = box[c]
    <3>1. CASE PoolStop(p)
      <4>1. PICK x \in todo[p] : /\ box[x] = [owner |-> p, state |-> "idle"]
                                 /\ box' = [box EXCEPT ![x].state = "stopped"]
        BY <3>1 DEF PoolStop
      <4>2. x # c
        BY <1>1, <2>1, <4>1
      <4> QED BY <1>0, <4>1, <4>2
    <3>2. CASE PoolRemove(p)
      BY <1>0, <1>1, <2>1, <3>2 DEF PoolRemove
    <3> QED BY <1>4, <3>1, <3>2
  <2> QED BY <1>1, <2>2
<1>5. CASE SourceStep(p)
  <2>1. PICK x \in Containers, b \in Boxes : box' = [box EXCEPT ![x] = b] /\ BoxStep(p, x, b)
    BY <1>0, <1>1, <1>5, SourceBoxes
  <2>2. x = c /\ box'[c] = b
    BY <1>0, <1>1, <2>1
  <2>3. p = q /\ run[p].pc = "scan"
    BY <1>1, <2>1, <2>2 DEF BoxStep
  <2>4. PICK r \in RunsOf, d \in Dirs :
          run' = [run EXCEPT ![p] = r] /\ RunStep(p, run[p].scan, r, d)
    BY <1>0, <1>5, SourceMoves
  <2>5. run'[p].pc = "clean"
    BY <1>0, <2>3, <2>4 DEF RunStep
  <2> QED BY <1>1, <2>3, <2>5
<1> QED BY <1>1, <1>2, <1>3, <1>4, <1>5
        DEF HostStep, Start, Load, Wire, SweepStep, ReadLive, ListContainers, SweepDone, Register,
            DrainBegins, DrainEnds, GraceEnds, Join, Signal, Expire, Refresh, Exit, Kill, Gone,
            Begin, hostVars

\* A worker that was up when a peer's startup sweep began, and whose key did
\* not lapse before the sweep read the keys, keeps its containers, however
\* its key fares later.
THEOREM PeersKept == Spec => PeersSafe
<1>1. HostInv /\ [Next]_vars =>
        [\A c \in Containers, q \in Procs :
           Vanishes(c, q) => \E p \in Procs : phase[p] = "reap" /\ q \notin peers[p]]_vars
  BY VanishCause
<1> QED BY <1>1, HostCorrect, PTL DEF Spec, PeersSafe

===============================================================================
