--------------------------- MODULE IdentityCache ---------------------------
(***************************************************************************)
(* Which binary a process runs: exe_path_for_pid (src/process/linux.rs)    *)
(* and the cache of BinaryIdentity::identify (src/identity.rs), as         *)
(* handle_update asks them, while processes start and exit and their files *)
(* are updated, rolled back and removed.                                   *)
(*                                                                         *)
(* A version stands for the contents of a file, for their hash and for the *)
(* (mtime, size) that comes with them.  Each path is started by at most    *)
(* one process at a time.  Files are replaced as a whole, by renaming: the *)
(* link of a process that runs the old one names no file.                  *)
(***************************************************************************)
EXTENDS Naturals

CONSTANTS
    Paths,       \* executables
    Versions,    \* contents a file may have
    MaxChanges   \* bound: replacements of files

ASSUME IdentityAssumption == Versions \subseteq Nat \ {0} /\ MaxChanges \in Nat

NoFile == 0
Unreadable == 0     \* an identity without a value
NoPath == "no path"

VARIABLES
    image,       \* path -> "none", "intact", "deleted": what its process runs
    file,        \* path -> version, or NoFile
    cache,       \* rows of path, key and identity
    asked,       \* the identify in progress, or the last one
    step,        \* its next step
    changes      \* how often a file was replaced

identityVars == <<image, file, cache, asked, step, changes>>

IdentityInit ==
    /\ image = [x \in Paths |-> "none"]
    /\ file \in [Paths -> Versions]
    /\ cache = {}
    /\ asked = [path |-> NoPath, key |-> NoFile, idents |-> {}, seen |-> {}]
    /\ step = "link"
    /\ changes = 0

Start(x) ==
    /\ image[x] = "none" /\ file[x] # NoFile
    /\ image' = [image EXCEPT ![x] = "intact"]
    /\ UNCHANGED <<file, cache, asked, step, changes>>

Exit(x) ==
    /\ image[x] # "none"
    /\ image' = [image EXCEPT ![x] = "none"]
    /\ UNCHANGED <<file, cache, asked, step, changes>>

\* An update, a return to an earlier version, or a removal.
Replace(x, v) ==
    /\ v # file[x]
    /\ changes < MaxChanges
    /\ changes' = changes + 1
    /\ file' = [file EXCEPT ![x] = v]
    /\ image' = [image EXCEPT ![x] = IF @ = "intact" THEN "deleted" ELSE @]
    /\ asked' = IF step # "link" /\ asked.path = x
                THEN [asked EXCEPT !.seen = @ \cup {v}] ELSE asked
    /\ UNCHANGED <<cache, step>>

\* exe_path_for_pid_linux.  A process that has exited has no path, and no
\* identity is asked for; the path of one whose file was replaced does not
\* exist, which makes it unreadable.
ReadExe(x) ==
    /\ step = "link"
    /\ LET none == [path |-> x, key |-> NoFile, idents |-> {}, seen |-> {}]
       IN \/ /\ image[x] = "none"
             /\ asked' = none /\ step' = "link"
          \/ /\ image[x] = "deleted"
             /\ asked' = [none EXCEPT !.idents = {Unreadable}] /\ step' = "link"
          \/ /\ image[x] = "intact"
             /\ asked' = [none EXCEPT !.seen = {file[x]}] /\ step' = "stat"
    /\ UNCHANGED <<image, file, cache, changes>>

\* Faulty variant: the key is the path alone.
CachedByPath(x, v) == {r.ident : r \in {c \in cache : c.path = x /\ v # NoFile}}

\* cache_get: none or one identity.
Cached(x, v) == {r.ident : r \in {c \in cache : c.path = x /\ c.key = v}}

\* cache_put
WithCached(x, v, i) ==
    {c \in cache : c.path # x \/ c.key # v} \cup {[path |-> x, key |-> v, ident |-> i]}

\* identify: the key is made from the file's metadata, and looked up.
Stat ==
    /\ step = "stat"
    /\ LET key == file[asked.path]
           hits == Cached(asked.path, key)
       IN \/ /\ hits = {}
             /\ asked' = [asked EXCEPT !.key = key] /\ step' = "hash"
          \/ \E i \in hits : /\ asked' = [asked EXCEPT !.key = key, !.idents = {i}]
                             /\ step' = "link"
    /\ UNCHANGED <<image, file, cache, changes>>

\* compute_identity and cache_put: what the file holds by now, or unreadable if
\* reading it fails, is kept under the key that was made before.
Hash ==
    /\ step = "hash"
    /\ \E ident \in {file[asked.path], Unreadable} :
         /\ asked' = [asked EXCEPT !.idents = {ident}]
         /\ cache' = IF asked.key = NoFile THEN cache
                     ELSE WithCached(asked.path, asked.key, ident)
    /\ step' = "link"
    /\ UNCHANGED <<image, file, changes>>

IdentityNext ==
    \/ \E x \in Paths : Start(x) \/ Exit(x) \/ ReadExe(x)
    \/ \E x \in Paths, v \in Versions \cup {NoFile} : Replace(x, v)
    \/ Stat
    \/ Hash

-----------------------------------------------------------------------------
(***************************************************************************)
(* Properties.                                                             *)
(***************************************************************************)
IdentityTypeOK ==
    /\ image \in [Paths -> {"none", "intact", "deleted"}]
    /\ file \in [Paths -> Versions \cup {NoFile}]
    /\ \A c \in cache : c.path \in Paths /\ c.key \in Versions
    /\ \A c, r \in cache : c.path = r.path /\ c.key = r.key => c = r
    /\ asked.path \in Paths \cup {NoPath}
    /\ asked.idents \subseteq Versions \cup {Unreadable}
    /\ step \in {"link", "stat", "hash"}
    /\ changes \in 0..MaxChanges

\* The cache keeps another content than the key says: the file changed between
\* its metadata and its hash, or could not be read.
Torn(x, v) == \E c \in cache : c.path = x /\ c.key = v /\ c.ident # v

\* An identity with a value is one the file had between the reading of the link
\* and the answer, computed or cached, through updates and rollbacks of any
\* binary, unless its row is torn ("cached by (path, mtime, size) so
\* codesign/hashing runs only when a binary first appears or changes").
IdentityExact ==
    /\ IdentityTypeOK
    /\ asked.idents \subseteq asked.seen \cup {Unreadable} \/ Torn(asked.path, asked.key)

\* identity.rs:48: "Resolve the identity of the executable at `path`": an identity
\* with a value is one the file had while it was asked for, torn rows included.
IdentityOfFile == asked.idents \subseteq asked.seen \cup {Unreadable}
=============================================================================
