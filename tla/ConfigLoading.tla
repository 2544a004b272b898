---------------------------- MODULE ConfigLoading ----------------------------
(***************************************************************************)
(* In which order the configuration of the server is read                  *)
(* (server/loadConfig.cpp): the main file, then the files of every         *)
(* location of modules, in the order in which the file system lists them,  *)
(* subdirectories included.  What happens to a configuration when a file   *)
(* is merged into it is a parameter, which ConfigMerge defines.            *)
(***************************************************************************)
EXTENDS Naturals, Sequences

CONSTANTS
  MainFile, ModuleFiles,  \* the files
  Locations,              \* sequence of directories: the modules path
  Subdirectories,         \* the directories below them
  EntriesOf,              \* directory -> the files and directories in it
  Contents,               \* what a file may contain
  Bad,                    \* or that it cannot be read or parsed
  NoConfig,               \* the configuration before any file was read
  WithFile(_, _, _),      \* configuration, contents and directory of a file
  WithModule(_, _, _),    \* configuration, path and tree of a module
  ModuleKey(_, _),        \* the path for a file in a sequence of directories
  Writable(_)             \* whether a configuration can be written to the log

Directories == {Locations[i] : i \in DOMAIN Locations} \cup Subdirectories

ASSUME FilesAssumption ==
  /\ Locations \in Seq(Directories)
  /\ EntriesOf \in [Directories -> SUBSET (ModuleFiles \cup Subdirectories)]
  /\ ModuleFiles \cap Subdirectories = {}

VARIABLES
  state,    \* of loadConfig
  content,  \* file -> what is in it
  config,   \* the configuration so far
  visited,  \* number of locations visited
  open,     \* the directories being read, the innermost last
  loaded    \* history: the files merged so far, what was in each and its path

vars == <<state, content, config, visited, open, loaded>>

Init ==
  /\ state = "main"
  /\ content \in [{MainFile} \cup ModuleFiles -> Contents \cup {Bad}]
  /\ config = NoConfig
  /\ visited = 0
  /\ open = <<>>
  /\ loaded = <<>>

\* The main file; if it cannot be parsed the process exits.
LoadMain ==
  /\ state = "main"
  /\ IF content[MainFile] = Bad
     THEN /\ state' = "exited"
          /\ UNCHANGED <<config, loaded>>
     ELSE /\ state' = "modules"
          /\ config' = WithFile(config, content[MainFile], "main")
          /\ loaded' = Append(loaded, [file |-> MainFile, at |-> <<>>,
                                       tree |-> content[MainFile]])
  /\ UNCHANGED <<content, visited, open>>

\* loadModulesConfig goes on with the next location.
VisitLocation ==
  /\ state = "modules"
  /\ open = <<>>
  /\ visited < Len(Locations)
  /\ visited' = visited + 1
  /\ LET dir == Locations[visited + 1]
     IN  open' = <<[dir |-> dir, rest |-> EntriesOf[dir]]>>
  /\ UNCHANGED <<state, content, config, loaded>>

Innermost == open[Len(open)]

\* The subdirectories on the way from the location to the innermost directory.
Way == [i \in 1 .. Len(open) - 1 |-> open[i + 1].dir]

\* The directory iterator moves past an entry.
Passed(entry) == [open EXCEPT ![Len(open)].rest = @ \ {entry}]

\* A file of the directory: its own tree, put below its key and merged.
LoadModule(file) ==
  /\ open # <<>>
  /\ file \in Innermost.rest
  /\ content[file] # Bad
  /\ LET key == ModuleKey(Way, file)
         module == WithFile(NoConfig, content[file], Innermost.dir)
     IN  /\ config' = WithModule(config, key, module)
         /\ loaded' = Append(loaded, [file |-> file, at |-> key, tree |-> content[file]])
  /\ open' = Passed(file)
  /\ UNCHANGED <<state, content, visited>>

\* The iteration over a directory ends.
Returned == SubSeq(open, 1, Len(open) - 1)

\* Mutant: the exception ends the iteration over the directory.
SkipModule_Return(file) ==
  /\ open # <<>>
  /\ file \in Innermost.rest
  /\ content[file] = Bad
  /\ open' = Returned
  /\ UNCHANGED <<state, content, config, visited, loaded>>

\* A file that cannot be parsed is reported and passed over.
SkipModule(file) ==
  /\ open # <<>>
  /\ file \in Innermost.rest
  /\ content[file] = Bad
  /\ open' = Passed(file)
  /\ UNCHANGED <<state, content, config, visited, loaded>>

\* A subdirectory is read before the rest of the directory.
EnterDirectory(dir) ==
  /\ open # <<>>
  /\ dir \in Innermost.rest
  /\ open' = Append(Passed(dir), [dir |-> dir, rest |-> EntriesOf[dir]])
  /\ UNCHANGED <<state, content, config, visited, loaded>>

LeaveDirectory ==
  /\ open # <<>>
  /\ Innermost.rest = {}
  /\ open' = Returned
  /\ UNCHANGED <<state, content, config, visited, loaded>>

\* The configuration in effect is written to the log; write_json may refuse it,
\* and the exception leaves loadConfig and main.
WriteConfig ==
  /\ state = "modules"
  /\ open = <<>>
  /\ visited = Len(Locations)
  /\ state' = IF Writable(config) THEN "loaded" ELSE "aborted"
  /\ UNCHANGED <<content, config, visited, open, loaded>>

Over ==
  /\ state \in {"exited", "loaded", "aborted"}
  /\ UNCHANGED vars

Next ==
  \/ LoadMain \/ VisitLocation \/ LeaveDirectory \/ WriteConfig \/ Over
  \/ \E file \in ModuleFiles : LoadModule(file) \/ SkipModule(file)
  \/ \E dir \in Subdirectories : EnterDirectory(dir)

Spec == Init /\ [][Next]_vars

-----------------------------------------------------------------------------
(* Properties                                                              *)

\* The directories that the modules path leads to.
Closed(dirs) ==
  /\ \A i \in DOMAIN Locations : Locations[i] \in dirs
  /\ \A d \in dirs : EntriesOf[d] \cap Subdirectories \subseteq dirs

Reached == {d \in Directories : \A dirs \in SUBSET Directories : Closed(dirs) => d \in dirs}

\* When the server has read its configuration, every file at or below a location
\* was merged, unless it cannot be parsed: neither such a file nor a directory among
\* the entries keeps others from being read, in whatever order they come.
AllLoaded ==
  state \in {"loaded", "aborted"} =>
    \A d \in Reached : \A file \in EntriesOf[d] \cap ModuleFiles :
      content[file] # Bad => \E i \in DOMAIN loaded : loaded[i].file = file

=============================================================================
