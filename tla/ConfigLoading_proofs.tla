------------------------- MODULE ConfigLoading_proofs -------------------------
(***************************************************************************)
(* Proofs about ConfigLoading: the files of the configuration that can be  *)
(* parsed are merged, and no others, whatever merging does.                *)
(***************************************************************************)
EXTENDS ConfigLoading, SequenceTheorems, TLAPS

Entries == ModuleFiles \cup Subdirectories

Iterators == [dir : Directories, rest : SUBSET Entries]

\* A location is only visited while the modules are loaded, and the directories
\* being read are those of the locations and below.
LoadingType ==
  /\ state \in {"main", "modules", "exited", "loaded", "aborted"}
  /\ visited \in 0 .. Len(Locations)
  /\ open \in Seq(Iterators)
  /\ loaded \in Seq({loaded[i] : i \in DOMAIN loaded})
  /\ state # "modules" => open = <<>>
  /\ state \in {"loaded", "aborted"} => visited = Len(Locations)

\* An iterator over directory d has entry e before it.
ToRead(d, e) == \E i \in DOMAIN open : open[i].dir = d /\ e \in open[i].rest

\* A file is done with.
Handled(file) ==
  content[file] = Bad \/ \E i \in DOMAIN loaded : loaded[i].file = file

\* The directories read so far, dirs, are those of the locations visited, and each
\* of their entries is done with, or a directory read so far, or still to come.
Covers(dirs) ==
  /\ \A i \in 1 .. visited : Locations[i] \in dirs
  /\ \A d \in dirs : \A e \in EntriesOf[d] :
       \/ ToRead(d, e)
       \/ e \in Subdirectories \cap dirs
       \/ e \in ModuleFiles /\ Handled(e)

LoadingInv == LoadingType /\ \E dirs \in SUBSET Directories : Covers(dirs)

-----------------------------------------------------------------------------
(* The stack of iterators                                                  *)

\* Every iterator of the stack is one over a directory.
LEMMA Innermosts ==
  ASSUME LoadingType
  PROVE  /\ open \in Seq(Iterators)
         /\ Len(open) \in Nat
         /\ DOMAIN open = 1 .. Len(open)
         /\ \A i \in 1 .. Len(open) : open[i] \in Iterators
         /\ open # <<>> => Len(open) > 0 /\ Innermost \in Iterators
<1>1. open \in Seq(Iterators)
  BY DEF LoadingType
<1>2. Len(open) \in Nat /\ DOMAIN open = 1 .. Len(open)
  BY <1>1
<1>3. \A i \in 1 .. Len(open) : open[i] \in Iterators
  BY <1>1, ElementOfSeq
<1>4. open # <<>> => Len(open) > 0
  BY <1>1, EmptySeq
<1> QED
  BY <1>1, <1>2, <1>3, <1>4 DEF Innermost

\* Passing an entry takes it from the innermost iterator and leaves the rest.
LEMMA PassedFacts ==
  ASSUME LoadingType, open # <<>>, NEW entry
  PROVE  /\ Passed(entry) \in Seq(Iterators)
         /\ Len(Passed(entry)) = Len(open)
         /\ \A i \in 1 .. Len(open) :
              /\ Passed(entry)[i].dir = open[i].dir
              /\ open[i].rest \subseteq Passed(entry)[i].rest \cup {entry}
              /\ Passed(entry)[i].rest \subseteq open[i].rest
<1> DEFINE passed == [Innermost EXCEPT !.rest = @ \ {entry}]
<1>1. /\ passed \in Iterators
      /\ passed.dir = Innermost.dir
      /\ Innermost.rest \subseteq passed.rest \cup {entry}
      /\ passed.rest \subseteq Innermost.rest
  BY Innermosts DEF Iterators
<1>2. Passed(entry) = [open EXCEPT ![Len(open)] = passed]
  BY DEF Passed, Innermost
<1>3. Len(open) \in 1 .. Len(open)
  BY Innermosts
<1>4. /\ Passed(entry) \in Seq(Iterators)
      /\ Len(Passed(entry)) = Len(open)
      /\ \A i \in 1 .. Len(open) :
           Passed(entry)[i] = IF i = Len(open) THEN passed ELSE open[i]
  BY <1>1, <1>2, <1>3, Innermosts, ExceptSeq
<1> QED
  BY <1>1, <1>4 DEF Innermost

\* When an iteration ends the iterators around it are as they were.
LEMMA ReturnedFacts ==
  ASSUME LoadingType, open # <<>>
  PROVE  /\ Returned \in Seq(Iterators)
         /\ Len(Returned) = Len(open) - 1
         /\ \A i \in 1 .. Len(open) - 1 : Returned[i] = open[i]
BY Innermosts, SubSeqProperties DEF Returned

\* A new iterator leaves those around it alone.
LEMMA EnteredFacts ==
  ASSUME NEW stack \in Seq(Iterators), NEW dir \in Directories
  PROVE  LET it == [dir |-> dir, rest |-> EntriesOf[dir]]
             new == Append(stack, it)
         IN  /\ new \in Seq(Iterators)
             /\ Len(new) = Len(stack) + 1
             /\ \A i \in 1 .. Len(stack) : new[i] = stack[i]
             /\ new[Len(stack) + 1] = it
<1>1. [dir |-> dir, rest |-> EntriesOf[dir]] \in Iterators
  BY FilesAssumption DEF Iterators, Entries
<1> QED
  BY <1>1, AppendProperties

\* A file that is merged is added to those before.
LEMMA LoadedFacts ==
  ASSUME LoadingType, NEW x, loaded' = Append(loaded, x)
  PROVE  /\ loaded' \in Seq({loaded'[i] : i \in DOMAIN loaded'})
         /\ DOMAIN loaded \subseteq DOMAIN loaded'
         /\ \A i \in DOMAIN loaded : loaded'[i] = loaded[i]
         /\ \E i \in DOMAIN loaded' : loaded'[i] = x
         /\ \A i \in DOMAIN loaded' : i \in DOMAIN loaded \/ loaded'[i] = x
<1> DEFINE S == {loaded[i] : i \in DOMAIN loaded} \cup {x}
<1>1. loaded \in Seq(S)
  BY DEF LoadingType
<1>2. /\ loaded' \in Seq(S)
      /\ Len(loaded') = Len(loaded) + 1
      /\ \A i \in 1 .. Len(loaded) : loaded'[i] = loaded[i]
      /\ loaded'[Len(loaded) + 1] = x
  BY <1>1, AppendProperties
<1>3. /\ DOMAIN loaded' = 1 .. Len(loaded') /\ DOMAIN loaded = 1 .. Len(loaded)
      /\ Len(loaded) \in Nat
  BY <1>1, <1>2
<1>4. loaded' \in Seq({loaded'[i] : i \in DOMAIN loaded'})
  BY <1>2, SeqOfRange DEF Range
<1> QED
  BY <1>2, <1>3, <1>4

\* Without an iterator nothing is to be read.
LEMMA NothingToRead == open = <<>> => \A d, e : ~ToRead(d, e)
<1>1. DOMAIN <<>> = {}
  OBVIOUS
<1> QED
  BY <1>1 DEF ToRead

-----------------------------------------------------------------------------
(* The steps                                                               *)

\* At first no directory was read.
LEMMA LoadingInit == Init => LoadingInv
<1> SUFFICES ASSUME Init PROVE LoadingInv
  OBVIOUS
<1>1. LoadingType
  <2>1. Len(Locations) \in Nat
    BY FilesAssumption
  <2> QED
    BY <2>1, EmptySeq DEF Init, LoadingType
<1>2. Covers({})
  BY DEF Init, Covers
<1> QED
  BY <1>1, <1>2 DEF LoadingInv

\* A step that reads nothing and passes no entry changes nothing here.
LEMMA SameCovers ==
  ASSUME NEW dirs, Covers(dirs), UNCHANGED <<content, visited, open, loaded>>
  PROVE  Covers(dirs)'
BY DEF Covers, ToRead, Handled

\* The main file is not one of those that Covers is about.
LEMMA CoversMain == LoadingInv /\ LoadMain => LoadingInv'
<1> SUFFICES ASSUME LoadingInv, LoadMain PROVE LoadingInv'
  OBVIOUS
<1>1. LoadingType /\ open = <<>>
  BY DEF LoadingInv, LoadingType, LoadMain
<1>2. PICK dirs \in SUBSET Directories : Covers(dirs)
  BY DEF LoadingInv
<1>3. LoadingType'
  BY <1>1, LoadedFacts DEF LoadMain, LoadingType
<1>4. \A file : Handled(file) => Handled(file)'
  BY <1>1, LoadedFacts DEF LoadMain, Handled
<1>5. Covers(dirs)'
  BY <1>2, <1>4 DEF LoadMain, Covers, ToRead
<1> QED
  BY <1>3, <1>5 DEF LoadingInv

\* The next location is read from now on.
LEMMA CoversVisit == LoadingInv /\ VisitLocation => LoadingInv'
<1> SUFFICES ASSUME LoadingInv, VisitLocation PROVE LoadingInv'
  OBVIOUS
<1>0. LoadingType /\ open = <<>> /\ visited \in Nat /\ Len(Locations) \in Nat
  BY FilesAssumption DEF LoadingInv, LoadingType, VisitLocation
<1>1. PICK dirs \in SUBSET Directories : Covers(dirs)
  BY DEF LoadingInv
<1> PICK dir : dir = Locations[visited + 1]
  OBVIOUS
<1>2. dir \in Directories /\ visited + 1 \in 1 .. Len(Locations)
  BY <1>0, FilesAssumption, ElementOfSeq DEF VisitLocation
<1>3. /\ open' = <<[dir |-> dir, rest |-> EntriesOf[dir]]>>
      /\ visited' = visited + 1
      /\ UNCHANGED <<state, content, loaded>>
  BY DEF VisitLocation
<1>4. /\ open' \in Seq(Iterators) /\ DOMAIN open' = {1}
      /\ open'[1] = [dir |-> dir, rest |-> EntriesOf[dir]]
  <2>1. open' = Append(open, [dir |-> dir, rest |-> EntriesOf[dir]])
    BY <1>0, <1>3
  <2>2. Len(open) = 0
    BY <1>0
  <2>3. open' \in Seq(Iterators) /\ Len(open') = Len(open) + 1
    <3>1. open \in Seq(Iterators)
      BY <1>0 DEF LoadingType
    <3> QED
      BY <1>2, <2>1, <3>1, EnteredFacts
  <2> QED
    BY <1>3, <2>2, <2>3
<1>5. LoadingType'
  BY <1>0, <1>2, <1>3, <1>4 DEF LoadingType, VisitLocation
<1>6. \A e \in EntriesOf[dir] : ToRead(dir, e)'
  BY <1>4 DEF ToRead
<1>7. \A d, e : ~ToRead(d, e)
  BY <1>0, NothingToRead
<1>8. \A e : Handled(e) => Handled(e)'
  BY <1>3 DEF Handled
<1>9. Covers(dirs \cup {dir})'
  <2>1. \A i \in 1 .. visited' : Locations[i] \in dirs \cup {dir}
    BY <1>0, <1>1, <1>3 DEF Covers
  <2> QED
    BY <1>1, <1>6, <1>7, <1>8, <2>1 DEF Covers
<1> QED
  BY <1>2, <1>5, <1>9 DEF LoadingInv

\* A file is passed when it was merged, or cannot be parsed.
LEMMA CoversFile ==
  ASSUME NEW file \in ModuleFiles
  PROVE  LoadingInv /\ (LoadModule(file) \/ SkipModule(file)) => LoadingInv'
<1> SUFFICES ASSUME LoadingInv, LoadModule(file) \/ SkipModule(file) PROVE LoadingInv'
  OBVIOUS
<1>0. /\ LoadingType /\ open # <<>>
      /\ open' = Passed(file)
      /\ UNCHANGED <<state, content, visited>>
  BY DEF LoadingInv, LoadModule, SkipModule
<1>1. PICK dirs \in SUBSET Directories : Covers(dirs)
  BY DEF LoadingInv
<1>2. /\ loaded' \in Seq({loaded'[i] : i \in DOMAIN loaded'})
      /\ Handled(file)'
      /\ \A e : Handled(e) => Handled(e)'
  <2>1. CASE LoadModule(file)
    <3>1. PICK x : loaded' = Append(loaded, x) /\ x.file = file
      BY <2>1 DEF LoadModule
    <3>2. /\ loaded' \in Seq({loaded'[i] : i \in DOMAIN loaded'})
          /\ DOMAIN loaded \subseteq DOMAIN loaded'
          /\ \A i \in DOMAIN loaded : loaded'[i] = loaded[i]
          /\ \E i \in DOMAIN loaded' : loaded'[i] = x
      BY <1>0, <3>1, LoadedFacts
    <3> QED
      BY <1>0, <3>1, <3>2 DEF Handled
  <2>2. CASE SkipModule(file)
    BY <2>2, <1>0 DEF SkipModule, Handled, LoadingType
  <2> QED
    BY <2>1, <2>2
<1>3. /\ open' \in Seq(Iterators) /\ Len(open') = Len(open)
      /\ \A i \in 1 .. Len(open) :
           open'[i].dir = open[i].dir /\ open[i].rest \subseteq open'[i].rest \cup {file}
  BY <1>0, PassedFacts
<1>4. LoadingType'
  BY <1>0, <1>2, <1>3 DEF LoadingType
<1>5. ASSUME NEW d, NEW e, ToRead(d, e), e # file PROVE ToRead(d, e)'
  BY <1>0, <1>3, <1>5, Innermosts DEF ToRead
<1>6. Covers(dirs)'
  BY <1>0, <1>1, <1>2, <1>5 DEF Covers
<1> QED
  BY <1>4, <1>6 DEF LoadingInv

\* A subdirectory is passed when it is being read.
LEMMA CoversEnter ==
  ASSUME NEW dir \in Subdirectories
  PROVE  LoadingInv /\ EnterDirectory(dir) => LoadingInv'
<1> SUFFICES ASSUME LoadingInv, EnterDirectory(dir) PROVE LoadingInv'
  OBVIOUS
<1>0. /\ LoadingType /\ open # <<>> /\ dir \in Directories
      /\ open' = Append(Passed(dir), [dir |-> dir, rest |-> EntriesOf[dir]])
      /\ UNCHANGED <<state, content, visited, loaded>>
  BY DEF LoadingInv, EnterDirectory, Directories
<1>1. PICK dirs \in SUBSET Directories : Covers(dirs)
  BY DEF LoadingInv
<1>3. /\ Passed(dir) \in Seq(Iterators) /\ Len(Passed(dir)) = Len(open)
      /\ \A i \in 1 .. Len(open) :
           /\ Passed(dir)[i].dir = open[i].dir
           /\ open[i].rest \subseteq Passed(dir)[i].rest \cup {dir}
  BY <1>0, PassedFacts
<1>4. /\ open' \in Seq(Iterators) /\ Len(open') = Len(open) + 1
      /\ \A i \in 1 .. Len(open) : open'[i] = Passed(dir)[i]
      /\ open'[Len(open) + 1] = [dir |-> dir, rest |-> EntriesOf[dir]]
  BY <1>0, <1>3, EnteredFacts
<1>5. Len(open) \in Nat /\ DOMAIN open = 1 .. Len(open) /\ DOMAIN open' = 1 .. Len(open) + 1
  BY <1>0, <1>4, Innermosts
<1>6. LoadingType'
  BY <1>0, <1>4, <1>5 DEF LoadingType
<1>7. ASSUME NEW d, NEW e, ToRead(d, e), e # dir PROVE ToRead(d, e)'
  BY <1>3, <1>4, <1>5, <1>7 DEF ToRead
<1>8. \A e \in EntriesOf[dir] : ToRead(dir, e)'
  BY <1>4, <1>5 DEF ToRead
<1>9. \A e : Handled(e) => Handled(e)'
  BY <1>0 DEF Handled
<1>10. Covers(dirs \cup {dir})'
  BY <1>0, <1>1, <1>7, <1>8, <1>9 DEF Covers
<1> QED
  BY <1>0, <1>6, <1>10 DEF LoadingInv

\* A directory is left when nothing of it is to be read.
LEMMA CoversLeave == LoadingInv /\ LeaveDirectory => LoadingInv'
<1> SUFFICES ASSUME LoadingInv, LeaveDirectory PROVE LoadingInv'
  OBVIOUS
<1>0. /\ LoadingType /\ open # <<>> /\ Innermost.rest = {}
      /\ open' = Returned
      /\ UNCHANGED <<state, content, visited, loaded>>
  BY DEF LoadingInv, LeaveDirectory
<1>1. PICK dirs \in SUBSET Directories : Covers(dirs)
  BY DEF LoadingInv
<1>2. /\ open' \in Seq(Iterators) /\ Len(open') = Len(open) - 1
      /\ \A i \in 1 .. Len(open) - 1 : open'[i] = open[i]
  BY <1>0, ReturnedFacts
<1>3. /\ Len(open) \in Nat \ {0} /\ DOMAIN open = 1 .. Len(open)
      /\ DOMAIN open' = 1 .. Len(open) - 1
  BY <1>0, <1>2, Innermosts
<1>4. LoadingType'
  BY <1>0, <1>2 DEF LoadingType
<1>5. ASSUME NEW d, NEW e, ToRead(d, e) PROVE ToRead(d, e)'
  <2>1. PICK i \in DOMAIN open : open[i].dir = d /\ e \in open[i].rest
    BY <1>5 DEF ToRead
  <2>2. i # Len(open)
    BY <1>0, <2>1 DEF Innermost
  <2> QED
    BY <1>2, <1>3, <2>1, <2>2 DEF ToRead
<1>6. Covers(dirs)'
  BY <1>0, <1>1, <1>5 DEF Covers, Handled
<1> QED
  BY <1>4, <1>6 DEF LoadingInv

\* Every step keeps the invariant.
LEMMA LoadingStep == LoadingInv /\ [Next]_vars => LoadingInv'
<1> SUFFICES ASSUME LoadingInv, [Next]_vars PROVE LoadingInv'
  OBVIOUS
<1>1. CASE WriteConfig
  BY <1>1, SameCovers DEF WriteConfig, LoadingInv, LoadingType
<1>2. CASE Over \/ UNCHANGED vars
  BY <1>2, SameCovers DEF Over, vars, LoadingInv, LoadingType
<1> QED
  BY <1>1, <1>2, CoversMain, CoversVisit, CoversFile, CoversEnter, CoversLeave DEF Next

\* When the configuration is loaded no iterator is left and every location was
\* visited, so the directories read are closed and contain those that the modules
\* path leads to: each of their files was merged or cannot be parsed, whatever is
\* merged and however.
THEOREM EveryFileLoaded == Spec => []AllLoaded
<1>1. LoadingInv => AllLoaded
  <2> SUFFICES ASSUME LoadingInv, state \in {"loaded", "aborted"},
                      NEW d \in Reached, NEW file \in EntriesOf[d] \cap ModuleFiles,
                      content[file] # Bad
               PROVE  \E i \in DOMAIN loaded : loaded[i].file = file
    BY DEF AllLoaded
  <2>1. PICK dirs \in SUBSET Directories : Covers(dirs)
    BY DEF LoadingInv
  <2>2. open = <<>> /\ visited = Len(Locations) /\ DOMAIN Locations = 1 .. Len(Locations)
    BY FilesAssumption DEF LoadingInv, LoadingType
  <2>3. \A x \in dirs : \A e \in EntriesOf[x] :
          \/ e \in Subdirectories \cap dirs
          \/ e \in ModuleFiles /\ Handled(e)
    BY <2>1, <2>2, NothingToRead DEF Covers
  <2>4. Closed(dirs)
    BY <2>1, <2>2, <2>3, FilesAssumption DEF Closed, Covers
  <2>5. d \in dirs
    BY <2>4 DEF Reached
  <2>6. Handled(file)
    BY <2>3, <2>5, FilesAssumption
  <2> QED
    BY <2>6 DEF Handled
<1> QED
  BY <1>1, LoadingInit, LoadingStep, PTL DEF Spec

-----------------------------------------------------------------------------
(* Nothing else is merged                                                  *)

\* An iterator is over a directory that the modules path leads to.
Reads(it) == it.dir \in Reached /\ it.rest \subseteq EntriesOf[it.dir]

ReadsReached == \A i \in DOMAIN open : Reads(open[i])

\* What was merged is the main file or a file in a directory that the modules path
\* leads to, with what is in that file.
Belongs(x) ==
  /\ x.tree = content[x.file] /\ x.tree # Bad
  /\ \/ x.file = MainFile
     \/ \E d \in Reached : x.file \in EntriesOf[d] \cap ModuleFiles

OnlyReached == \A i \in DOMAIN loaded : Belongs(loaded[i])

\* The modules path leads to its locations and to what is below them.
LEMMA ReachedClosed == Closed(Reached)
<1>1. \A i \in DOMAIN Locations : Locations[i] \in Directories
  BY DEF Directories
<1>2. \A d \in Reached : EntriesOf[d] \cap Subdirectories \subseteq Directories
  BY DEF Directories
<1> QED
  BY <1>1, <1>2 DEF Reached, Closed

\* The main file has no directory.
LEMMA BelongsMain ==
  ASSUME LoadingInv, ReadsReached, OnlyReached, LoadMain
  PROVE  ReadsReached' /\ OnlyReached'
<1>0. content' = content
  BY DEF LoadMain
<1>1. ReadsReached'
  BY DEF ReadsReached, Reads, LoadMain
<1>2. CASE UNCHANGED loaded
  BY <1>0, <1>1, <1>2 DEF OnlyReached, Belongs
<1>3. CASE loaded' # loaded
  <2>1. PICK x : /\ x = [file |-> MainFile, at |-> <<>>, tree |-> content[MainFile]]
                 /\ loaded' = Append(loaded, x)
    BY <1>3 DEF LoadMain
  <2>2. Belongs(x)'
    BY <1>0, <1>3, <2>1 DEF LoadMain, Belongs
  <2>3. /\ \A i \in DOMAIN loaded : loaded'[i] = loaded[i]
        /\ \A i \in DOMAIN loaded' : i \in DOMAIN loaded \/ loaded'[i] = x
    BY <2>1, LoadedFacts DEF LoadingInv
  <2> QED
    BY <1>0, <1>1, <2>2, <2>3 DEF OnlyReached, Belongs
<1> QED
  BY <1>1, <1>2, <1>3

\* A location is one of the directories that the modules path leads to.
LEMMA BelongsVisit ==
  ASSUME LoadingInv, ReadsReached, OnlyReached, VisitLocation
  PROVE  ReadsReached' /\ OnlyReached'
<1> PICK dir : dir = Locations[visited + 1]
  OBVIOUS
<1>1. visited + 1 \in DOMAIN Locations
  BY FilesAssumption DEF LoadingInv, LoadingType, VisitLocation
<1>2. dir \in Reached
  BY <1>1, ReachedClosed DEF Closed
<1>3. open' = <<[dir |-> dir, rest |-> EntriesOf[dir]]>> /\ UNCHANGED <<content, loaded>>
  BY DEF VisitLocation
<1>4. DOMAIN open' = {1} /\ open'[1] = [dir |-> dir, rest |-> EntriesOf[dir]]
  BY <1>3
<1> QED
  BY <1>2, <1>3, <1>4 DEF ReadsReached, Reads, OnlyReached, Belongs

\* A file is in the directory that is being read.
LEMMA BelongsFile ==
  ASSUME LoadingInv, ReadsReached, OnlyReached, NEW file \in ModuleFiles,
         LoadModule(file) \/ SkipModule(file)
  PROVE  ReadsReached' /\ OnlyReached'
<1>0. /\ LoadingType /\ open # <<>> /\ file \in Innermost.rest
      /\ open' = Passed(file) /\ content' = content
  BY DEF LoadingInv, LoadModule, SkipModule
<1>1. Len(open) \in DOMAIN open /\ Innermost = open[Len(open)]
  BY <1>0, Innermosts DEF Innermost
<1>2. Innermost.dir \in Reached /\ file \in EntriesOf[Innermost.dir]
  BY <1>0, <1>1 DEF ReadsReached, Reads
<1>3. ReadsReached'
  <2>1. DOMAIN open' = DOMAIN open
    BY <1>0, PassedFacts, Innermosts
  <2> QED
    BY <1>0, <2>1, PassedFacts, Innermosts DEF ReadsReached, Reads
<1>4. CASE SkipModule(file)
  BY <1>3, <1>4 DEF SkipModule, OnlyReached, Belongs
<1>5. CASE LoadModule(file)
  <2>1. PICK x : /\ x.file = file /\ x.tree = content[file]
                 /\ loaded' = Append(loaded, x)
    BY <1>5 DEF LoadModule
  <2>2. Belongs(x)'
    BY <1>0, <1>2, <1>5, <2>1 DEF LoadModule, Belongs
  <2>3. OnlyReached'
    BY <1>0, <2>1, <2>2, LoadedFacts DEF OnlyReached, Belongs
  <2> QED
    BY <1>3, <2>3
<1> QED
  BY <1>0, <1>4, <1>5 DEF LoadModule, SkipModule

\* A subdirectory is below the directory that is being read.
LEMMA BelongsEnter ==
  ASSUME LoadingInv, ReadsReached, OnlyReached, NEW dir \in Subdirectories,
         EnterDirectory(dir)
  PROVE  ReadsReached' /\ OnlyReached'
<1>0. /\ LoadingType /\ open # <<>> /\ dir \in Innermost.rest /\ dir \in Directories
      /\ open' = Append(Passed(dir), [dir |-> dir, rest |-> EntriesOf[dir]])
      /\ UNCHANGED <<content, loaded>>
  BY DEF LoadingInv, EnterDirectory, Directories
<1>1. Len(open) \in DOMAIN open /\ Innermost = open[Len(open)]
  BY <1>0, Innermosts DEF Innermost
<1>2. dir \in Reached
  <2>1. Innermost.dir \in Reached /\ dir \in EntriesOf[Innermost.dir]
    BY <1>0, <1>1 DEF ReadsReached, Reads
  <2> QED
    BY <2>1, ReachedClosed DEF Closed
<1>3. /\ Passed(dir) \in Seq(Iterators) /\ Len(Passed(dir)) = Len(open)
      /\ \A i \in 1 .. Len(open) :
           /\ Passed(dir)[i].dir = open[i].dir
           /\ Passed(dir)[i].rest \subseteq open[i].rest
  BY <1>0, PassedFacts
<1>4. /\ open' \in Seq(Iterators) /\ Len(open') = Len(open) + 1
      /\ \A i \in 1 .. Len(open) : open'[i] = Passed(dir)[i]
      /\ open'[Len(open) + 1] = [dir |-> dir, rest |-> EntriesOf[dir]]
  BY <1>0, <1>3, EnteredFacts
<1>5. Len(open) \in Nat /\ DOMAIN open = 1 .. Len(open) /\ DOMAIN open' = 1 .. Len(open) + 1
  BY <1>0, <1>4, Innermosts
<1>6. ReadsReached'
  <2> SUFFICES ASSUME NEW i \in DOMAIN open' PROVE Reads(open'[i])
    BY DEF ReadsReached, Reads
  <2>1. CASE i \in 1 .. Len(open)
    BY <1>3, <1>4, <1>5, <2>1 DEF ReadsReached, Reads
  <2>2. CASE i = Len(open) + 1
    BY <1>2, <1>4, <2>2 DEF Reads
  <2> QED
    BY <1>5, <2>1, <2>2
<1> QED
  BY <1>0, <1>6 DEF OnlyReached, Belongs

\* Only files of the modules path are merged, each with what is in it: with
\* EveryFileLoaded, the files that are merged are exactly the main file and those
\* at or below a location that can be parsed.
THEOREM NothingElseLoaded == Spec => []OnlyReached
<1>1. Init => ReadsReached /\ OnlyReached
  <2>1. DOMAIN <<>> = {}
    OBVIOUS
  <2> QED
    BY <2>1 DEF Init, ReadsReached, OnlyReached
<1>2. ASSUME LoadingInv, ReadsReached, OnlyReached, [Next]_vars
      PROVE  ReadsReached' /\ OnlyReached'
  <2>1. CASE LeaveDirectory
    <3>1. LoadingType /\ open # <<>> /\ open' = Returned /\ UNCHANGED <<content, loaded>>
      BY <1>2, <2>1 DEF LoadingInv, LeaveDirectory
    <3>2. DOMAIN open' = 1 .. Len(open) - 1 /\ DOMAIN open = 1 .. Len(open)
          /\ Len(open) \in Nat
      BY <3>1, ReturnedFacts, Innermosts
    <3> QED
      BY <1>2, <3>1, <3>2, ReturnedFacts DEF ReadsReached, Reads, OnlyReached, Belongs
  <2>2. CASE WriteConfig \/ Over \/ UNCHANGED vars
    BY <1>2, <2>2 DEF WriteConfig, Over, vars, ReadsReached, Reads, OnlyReached, Belongs
  <2> QED
    BY <1>2, <2>1, <2>2, BelongsMain, BelongsVisit, BelongsFile, BelongsEnter DEF Next
<1> QED
  BY <1>1, <1>2, LoadingInit, LoadingStep, PTL DEF Spec

=============================================================================
