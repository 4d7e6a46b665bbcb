-------------------------------- MODULE Shares --------------------------------
(***************************************************************************)
(* SharesManager: shared directories that are added, removed and updated     *)
(* while scans of them run in an executor, the items found in them, the term *)
(* map that queries use, and the cache that the next start reads.           *)
(*                                                                          *)
(* A peer sees the shares in three ways: in answers to searches, by browsing *)
(* and by asking for a file.  Terms, aliases and attributes are left out:    *)
(* a query asks for a word that all items have, and an alias stands for one  *)
(* directory.                                                               *)
(***************************************************************************)
EXTENDS Naturals, FiniteSets

CONSTANTS Dirs, Below,      \* directories, and the pairs <<d, e>> with d inside e
          Files, Folder,    \* files, and the innermost directory of each
          Modes,            \* DirectoryShareMode
          LockedModes,      \* those that lock the peer out: it is no friend or not listed
          Configured,       \* settings.shares.directories ...
          ConfiguredMode,   \* ... and their modes
          MaxChanges,       \* bound: files that change or vanish, and restarts
          MaxShares,        \* bound: directories added, removed and updated
          MaxWalks          \* bound: walks of directories under way

ASSUME SharesAssumption ==
  /\ Below \subseteq Dirs \X Dirs /\ Folder \in [Files -> Dirs]
  /\ LockedModes \subseteq Modes /\ Configured \subseteq Dirs
  /\ ConfiguredMode \in [Configured -> Modes] /\ "EVERYONE" \in Modes
  /\ IsFiniteSet(Dirs) /\ {MaxChanges, MaxShares, MaxWalks} \subseteq Nat

Within(d, e) == d = e \/ <<d, e>> \in Below

(* Directories are a tree: of those around a directory there is an innermost.  *)
ASSUME TreeAssumption ==
  /\ \A d \in Dirs : <<d, d>> \notin Below
  /\ \A d, e, f \in Dirs : <<d, e>> \in Below /\ <<e, f>> \in Below => <<d, f>> \in Below
  /\ \A d \in Dirs : \A S \in SUBSET {e \in Dirs : Within(d, e)} :
       S # {} => \E e \in S : \A f \in S : Within(e, f)

VARIABLES
  directories,  \* _shared_directories, by their paths
  gen,     \* the SharedDirectory object of each path, counted
  mode,    \* share_mode of every object
  items,   \* SharedDirectory.items of the objects that are shared
  terms,   \* the items that are in _term_map
  walks,   \* scan_directory calls under way
  disk,    \* the modification time of each file, 0 if there is none
  fresh,   \* directories that a walk begun after the last change has ended in ...
  overwritten, \* ... and those where one begun before it has ended since
  used     \* how much of each bound is used up

sharesVars == <<directories, gen, mode, items, terms, walks, disk, fresh, overwritten, used>>

---------------------------------------------------------------------------
Parents(d, S)  == {e \in S : <<d, e>> \in Below}
Children(d, S) == {e \in S : <<e, d>> \in Below}

(* parents[-1]: the longest path.                                            *)
Nearest(d, S) == CHOOSE e \in Parents(d, S) : \A f \in Parents(d, S) : Within(e, f)

Object(d) == <<d, gen[d]>>
Objects   == Dirs \X (0..MaxShares + 1)

(* A SharedItem: the directory object it was found in, the directory that      *)
(* subdir is relative to, the file and its modification time.  Items are equal *)
(* when the paths of their directories, subdir, file and time are.            *)
Item(o, f, t) == [owner |-> o, base |-> o[1], file |-> f, time |-> t]
Key(i)        == <<i.owner[1], i.base, i.file, i.time>>
Keys(S)       == {Key(i) : i \in S}

(* S |= T and S -= T of Python sets: the element that is there already stays. *)
Joined(S, T)  == S \cup {i \in T : Key(i) \notin Keys(S)}
Without(S, T) == {i \in S : Key(i) \notin Keys(T)}

(* get_absolute_path: the base is not looked at, only the owner is.           *)
Path(i)      == IF i.base = i.owner[1] THEN Folder[i.file] ELSE i.owner[1]
OnDisk(i)    == i.base = i.owner[1] /\ disk[i.file] # 0
ItemsOf(d, S) == {i \in S : Within(Path(i), d)}

Indexed(its) == UNION {its[d] : d \in Dirs}

SharesInit ==
  /\ directories = Configured
  /\ gen = [d \in Dirs |-> IF d \in Configured THEN 1 ELSE 0]
  /\ mode = [o \in Objects |-> IF o[1] \in Configured /\ o[2] = 1
                               THEN ConfiguredMode[o[1]] ELSE "EVERYONE"]
  /\ items = [d \in Dirs |-> {}] /\ terms = {} /\ walks = {}
  /\ disk = [f \in Files |-> 1] /\ fresh = {} /\ overwritten = {}
  /\ used = [changes |-> 0, shares |-> 0]

Shares == used.shares < MaxShares /\ used' = [used EXCEPT !.shares = @ + 1]

(* What was walked before the directories or the disk changed is out of date. *)
Outdated == /\ fresh' = {} /\ overwritten' = {}
            /\ walks' = {[w EXCEPT !.outdated = TRUE] : w \in walks}

---------------------------------------------------------------------------
(* add_shared_directory: items that the nearest parent has in the new          *)
(* directory are moved as they are, with the parent's object.                 *)
Moved(its, d, S) ==
  IF Parents(d, S) = {} THEN [its EXCEPT ![d] = {}]
  ELSE LET p == Nearest(d, S) IN
       [its EXCEPT ![d] = ItemsOf(d, its[p]), ![p] = Without(@, ItemsOf(d, @))]

Add(d, m) ==
  /\ d \notin directories /\ Shares
  /\ directories' = directories \cup {d}
  /\ gen' = [gen EXCEPT ![d] = @ + 1]
  /\ mode' = [mode EXCEPT ![<<d, gen[d] + 1>>] = m]
  /\ items' = Moved(items, d, directories)
  /\ Outdated
  /\ UNCHANGED <<terms, disk>>

Update(d, m) ==
  /\ d \in directories /\ m # mode[Object(d)] /\ Shares
  /\ mode' = [mode EXCEPT ![Object(d)] = m]
  /\ UNCHANGED <<directories, gen, items, terms, walks, disk, fresh, overwritten>>

(* remove_shared_directory: the items go to the nearest parent as they are.     *)
(* Those of a directory without one stay in the term map, whose references     *)
(* are weak, until the cycle of directory and items is collected.             *)
Remove(d) ==
  /\ d \in directories /\ Shares
  /\ directories' = directories \ {d}
  /\ items' = IF Parents(d, directories) = {} THEN [items EXCEPT ![d] = {}]
              ELSE [items EXCEPT ![d] = {},
                                 ![Nearest(d, directories)] = Joined(@, items[d])]
  /\ Outdated
  /\ UNCHANGED <<gen, mode, terms, disk>>

Collect ==
  /\ terms # terms \cap Indexed(items)
  /\ terms' = terms \cap Indexed(items)
  /\ UNCHANGED <<directories, gen, mode, items, walks, disk, fresh, overwritten, used>>

---------------------------------------------------------------------------
(* Mutant: the children are walked too.                                      *)
WalkedWhole(d, S) ==
  {Item(Object(d), f, disk[f]) : f \in {g \in Files : disk[g] # 0 /\ Within(Folder[g], d)}}

(* scan_directory walks a directory without the children there were when the   *)
(* scan began.                                                              *)
Walked(d, S) ==
  {Item(Object(d), f, disk[f]) : f \in
     {g \in Files : /\ disk[g] # 0 /\ Within(Folder[g], d)
                    /\ \A c \in Children(d, S) : ~Within(Folder[g], c)}}

Walk(d) == [object |-> Object(d), found |-> Walked(d, directories), outdated |-> FALSE]

(* scan_directory_files of one directory, or of all of them at once (scan).     *)
Scan(S) ==
  /\ S \subseteq directories /\ S # {}
  /\ Cardinality(walks \cup {Walk(d) : d \in S}) <= MaxWalks
  /\ walks' = walks \cup {Walk(d) : d \in S}
  /\ UNCHANGED <<directories, gen, mode, items, terms, disk, fresh, overwritten, used>>

(* The result replaces the items, the equal ones excepted.                    *)
Applied(S, found) == LET S1 == Joined(S, found)
                     IN  Without(S1, Without(S1, found) \cup Without(found, S1))

(* Mutant: the directory is looked up by its path when the walk has ended.       *)
WalksByPath(w) ==
  LET d == w.object[1]
  IN  /\ walks' = walks \ {w}
      /\ items' = [items EXCEPT ![d] = Applied(@, w.found)]
      /\ terms' = terms \cup w.found
      /\ UNCHANGED <<directories, gen, mode, disk, fresh, overwritten, used>>

(* The items are added to the term map, those dropped vanish from it, unless    *)
(* the object of a removed directory keeps them.  Nothing orders the walks of   *)
(* a directory: one begun earlier that ends later replaces newer items by older. *)
Walks(w) ==
  LET d == w.object[1]
      current == d \in directories /\ Object(d) = w.object
      kept    == IF current THEN Applied(items[d], w.found) ELSE w.found
      dropped == {i \in items[d] \ kept : /\ i.owner[1] \in directories
                                          /\ i.owner = Object(i.owner[1])}
  IN  /\ walks' = walks \ {w}
      /\ items' = IF current THEN [items EXCEPT ![d] = kept] ELSE items
      /\ terms' = (IF current THEN terms \ (dropped \ Indexed(items')) ELSE terms) \cup kept
      /\ fresh' = IF current /\ ~w.outdated THEN fresh \cup {d} ELSE fresh
      /\ overwritten' = IF ~current THEN overwritten
                        ELSE IF w.outdated THEN overwritten \cup {d} ELSE overwritten \ {d}
      /\ UNCHANGED <<directories, gen, mode, disk, used>>

(* A walk that raises leaves the items; what there is goes to the term map.     *)
WalkFails(w) ==
  LET d == w.object[1]
      current == d \in directories /\ Object(d) = w.object
  IN  /\ walks' = walks \ {w}
      /\ terms' = IF current THEN terms \cup items[d] ELSE terms
      /\ UNCHANGED <<directories, gen, mode, items, disk, fresh, overwritten, used>>

---------------------------------------------------------------------------
(* A file is written, or deleted.                                            *)
Change(f) ==
  /\ used.changes < MaxChanges /\ used' = [used EXCEPT !.changes = @ + 1]
  /\ \E t \in {0, disk[f] + 1} : t # disk[f] /\ disk' = [disk EXCEPT ![f] = t]
  /\ Outdated
  /\ UNCHANGED <<directories, gen, mode, items, terms>>

(* Stop and start: the cache gives every item the object of the directory it   *)
(* is kept in.                                                              *)
Restored == [d \in Dirs |-> {[i EXCEPT !.owner = Object(d)] : i \in items[d]}]

(* load_from_settings updates the configured directories or adds them, as in   *)
(* Moved: an item ends in the innermost of the new directories that got it from *)
(* one another, and first from where it was.                                 *)
Place(i, e, new) ==
  LET places == {e} \cup {d \in new : /\ Parents(d, directories) # {} /\ Within(Path(i), d)
                                      /\ Nearest(d, directories) = e}
  IN  CHOOSE d \in places : \A f \in places : Within(d, f)

Loaded(new) ==
  [d \in Dirs |-> UNION {{i \in Restored[e] : Place(i, e, new) = d} : e \in directories}]

(* Directories that are not configured are dropped with their items.          *)
Restart ==
  /\ used.changes < MaxChanges /\ used' = [used EXCEPT !.changes = @ + 1]
  /\ LET new == Configured \ directories
     IN  /\ gen' = [d \in Dirs |-> IF d \in new THEN gen[d] + 1 ELSE gen[d]]
         /\ mode' = [o \in Objects |-> IF o[1] \in Configured /\ o[2] = gen'[o[1]]
                                       THEN ConfiguredMode[o[1]] ELSE mode[o]]
         /\ items' = [d \in Dirs |-> IF d \in Configured THEN Loaded(new)[d] ELSE {}]
         /\ terms' = Indexed(items')
  /\ directories' = Configured /\ walks' = {} /\ fresh' = {}
  /\ overwritten' = {}
  /\ UNCHANGED disk

---------------------------------------------------------------------------
SharesNext ==
  \/ \E d \in Dirs : Remove(d) \/ \E m \in Modes : Add(d, m) \/ Update(d, m)
  \/ \E S \in SUBSET Dirs : Scan(S)
  \/ \E w \in walks : Walks(w) \/ WalkFails(w)
  \/ \E f \in Files : Change(f)
  \/ Collect \/ Restart

SharesSpec == SharesInit /\ [][SharesNext]_sharesVars

---------------------------------------------------------------------------
(* What a peer sees: is_directory_locked, is_item_locked, query,              *)
(* create_shares_reply and get_shared_item.                                  *)
IsLocked(o) == mode[o] \in LockedModes

Found     == {i.file : i \in {j \in terms : ~IsLocked(j.owner)}}
Browsed   == UNION {{i.file : i \in items[d]} :
                    d \in {e \in directories : ~IsLocked(Object(e))}}
Requested == {i.file : i \in {j \in Indexed(items) : ~IsLocked(j.owner) /\ OnDisk(j)}}

(* The innermost directory that is shared decides.                            *)
Holders(f) == {d \in directories : Within(Folder[f], d)}
Home(f)    == CHOOSE d \in Holders(f) : \A e \in Holders(f) : Within(d, e)
Visible    == {f \in Files : disk[f] # 0 /\ Holders(f) # {} /\ ~IsLocked(Object(Home(f)))}

---------------------------------------------------------------------------
IsItem(i) == /\ i.owner \in Objects /\ i.base \in Dirs /\ i.file \in Files
             /\ i.time \in 1..MaxChanges + 1

SharesTypeOK ==
  /\ directories \subseteq Dirs /\ fresh \cup overwritten \subseteq directories
  /\ gen \in [Dirs -> 0..MaxShares + 1] /\ mode \in [Objects -> Modes]
  /\ \A i \in terms \cup Indexed(items) : IsItem(i)
  /\ \A d \in Dirs : items[d] # {} => d \in directories
  /\ \A w \in walks : w.object \in Objects /\ w.outdated \in BOOLEAN
  /\ used.changes \in 0..MaxChanges /\ used.shares \in 0..MaxShares

(* A file whose directories were all scanned after the last change is found,    *)
(* browsed and gotten alike: if it is on disk and the innermost shared directory *)
(* around it is open to the peer, and only then, whatever was added, removed,   *)
(* changed or scanned in between and whatever goes on in other directories.     *)
(* Three things may still differ and are excepted.  Where a scan begun before    *)
(* the last change ended after the newer one, its older items replaced the      *)
(* newer ones (overwritten): the code does not keep USAGE.rst's promise that    *)
(* rescanning adds what is new and removes what is gone.  Items of removed       *)
(* directories may not be collected.  And directories that were removed and are  *)
(* shared again may have items with the old object.                           *)
PeersSeeAlike ==
  \A f \in Files :
    /\ Holders(f) \subseteq fresh \ overwritten
    /\ {i \in terms : i.file = f} \subseteq Indexed(items)
    /\ \A d \in Dirs : gen[d] <= 1
    => /\ f \in Found <=> f \in Visible
       /\ f \in Browsed <=> f \in Visible
       /\ f \in Requested <=> f \in Visible
=============================================================================
