---------------------------- MODULE KnowledgeProofs ----------------------------
(***************************************************************************)
(* Safety of the knowledge service, proved for every set of categories and *)
(* texts and for every bound on backups, calls and faults.                 *)
(***************************************************************************)
EXTENDS KnowledgeProperties, TLAPS

Kinds == {"index", "topic"}
Inner == SUBSET ((0..MaxDepth) \X Texts)
Dir   == [index : Contents \cup {None}, topic : Contents \cup {None},
          inner : Inner, made : BOOLEAN]
Task  == [pc : {"idle", "read", "upsert", "compare", "embed", "store", "gone",
                "forget"},
          says : Contents \cup {None}]
Call  == [op : {None, "create", "replace", "delete", "patch"},
          pc : {"idle", "backup", "extract", "index", "topic", "written",
                "restore", "remove", "front", "move", "topics", "row"},
          text : Texts \cup RowsOf \cup {None},
          cat : Categories \cup {None},
          old : Places \cup {None}, backup : Places \cup {None}]

\* A place whose name has room for a backup of it.
Deep(p) == p \in Places /\ p[2] < MaxDepth

DiskShape == /\ dir \in [Places -> Dir]
             /\ \A p \in Places : IsDir(p) \/ dir[p] = NoDir
             /\ dirty \subseteq Files

\* Every directory has an index.md, which is written first.
Headed == \A p \in Places : IsDir(p) => dir[p].index # None

\* What a call holds at each of its places.
Replacing == {"backup", "extract", "index", "topic", "written", "restore"}
Patching  == {"front", "move", "topics", "row"}

CallShape ==
    /\ call \in Call
    /\ call.pc = "idle" => call = NoCall
    /\ call.pc \in Replacing =>
         /\ call.op \in {"create", "replace"}
         /\ call.text \in Texts /\ call.cat \in Categories
         /\ call.backup # None =>
              Deep(call.old) /\ call.backup = Backup(call.old)
    /\ call.pc = "backup" => call.op = "replace" /\ Deep(call.old)
    /\ call.pc = "restore" => call.backup # None
    /\ call.pc = "remove" => call.op = "delete" /\ call.old \in Places
    /\ call.pc \in Patching =>
         /\ call.op = "patch" /\ call.text \in RowsOf
         /\ call.cat \in Categories /\ call.old \in Places
    /\ call.pc \in {"move", "topics", "row"} => dir[call.old].index # None
    /\ call.pc = "topic" => dir[Dest].index # None

TaskShape ==
    /\ task \in [Files -> Task]
    /\ \A f \in Files :
         /\ task[f].pc \in {"upsert", "compare", "embed", "store"} =>
              task[f].says \in Contents
         /\ task[f].pc = "upsert" => f[2] = "index"
         /\ task[f].pc \in {"compare", "embed", "store", "forget"} =>
              f[2] = "topic"

TopicRows == [text : Texts, cat : Categories, at : Places]
RowShape  == /\ row \in RowsOf \cup {None}
             /\ found \in TopicRows \cup {None}
             /\ stored \in TopicRows \cup {None}

Shapes == /\ DiskShape /\ Headed /\ CallShape /\ TaskShape /\ RowShape
          /\ failed \subseteq Files
          /\ good \in Texts \cup {None}
          /\ clean \in BOOLEAN /\ calls \in Nat

-----------------------------------------------------------------------------
(* Places, files and directories.                                          *)

\* A file is a place and a kind.
LEMMA FileParts ==
    /\ \A p \in Places : <<p, "index">> \in Files /\ <<p, "topic">> \in Files
    /\ \A f \in Files : /\ f[1] \in Places /\ f[2] \in Kinds
                        /\ f = <<f[1], f[2]>>
BY DEF Files, Kinds

\* A place is a category and a depth.
LEMMA PlaceParts ==
    /\ \A c \in Categories : \A n \in 0..MaxDepth : <<c, n>> \in Places
    /\ \A p \in Places : /\ p[1] \in Categories /\ p[2] \in 0..MaxDepth
                         /\ p = <<p[1], p[2]>>
BY DEF Places

\* A backup is a directory of its own.
LEMMA BackupApart ==
    ASSUME NEW p, Deep(p)
    PROVE  /\ Backup(p) \in Places /\ Backup(p) # p
           /\ Backup(p)[2] > 0
<1>1. p[1] \in Categories /\ p[2] \in 0..MaxDepth /\ p[2] + 1 \in 0..MaxDepth
  BY PlaceParts, KnowledgeAssumption DEF Deep
<1>. QED BY <1>1, PlaceParts DEF Backup

\* The parts of a directory.
LEMMA DirParts ==
    ASSUME DiskShape, NEW p \in Places
    PROVE  /\ dir[p] \in Dir
           /\ dir[p].index \in Contents \cup {None}
           /\ dir[p].topic \in Contents \cup {None}
           /\ dir[p].inner \in Inner
           /\ IsDir(p) \in BOOLEAN
           /\ ~IsDir(p) => /\ dir[p].index = None /\ dir[p].topic = None
                           /\ dir[p].inner = {}
BY DEF DiskShape, Dir, IsDir, NoDir

\* A directory that is not there has no files.
LEMMA NoDirTyped == NoDir \in Dir /\ NoDir.index = None /\ NoDir.topic = None
                    /\ NoDir.inner = {} /\ ~NoDir.made
BY DEF NoDir, Dir, Inner

\* The content of a file.
LEMMA ContentOf ==
    \A p \in Places : /\ Content(<<p, "index">>) = dir[p].index
                      /\ Content(<<p, "topic">>) = dir[p].topic
                      /\ Content(<<p, "index">>)' = dir'[p].index
                      /\ Content(<<p, "topic">>)' = dir'[p].topic
BY DEF Content

\* A change on disk: what it does to a file is, or will be, in the queue.
Changes == /\ DiskShape'
           /\ dirty \subseteq dirty'
           /\ \A f \in Files : Content(f)' = Content(f) \/ f \in dirty'

\* The documents kept in a directory are typed.
LEMMA KeptTyped ==
    ASSUME DiskShape, NEW p \in Places
    PROVE  Kept(p) \in Inner
<1>1. dir[p].inner \in Inner /\ p[2] \in 0..MaxDepth
  BY DirParts, PlaceParts
<1>. QED BY <1>1 DEF Kept, Inner

\* A directory that is removed.
LEMMA RemovesShape ==
    ASSUME DiskShape, NEW p \in Places, Removes(p)
    PROVE  /\ Changes /\ (Headed => Headed')
           /\ dir'[p] = NoDir
           /\ \A q \in Places \ {p} : dir'[q] = dir[q]
           /\ dirty' = dirty \cup {f \in FilesOf(p) : Content(f) # None}
<1>1. /\ dir \in [Places -> Dir] /\ dirty \subseteq Files
      /\ dir' = [dir EXCEPT ![p] = NoDir]
  BY DEF Removes, DiskShape
<1>2. /\ dir' \in [Places -> Dir] /\ dir'[p] = NoDir
      /\ \A q \in Places \ {p} : dir'[q] = dir[q]
  BY <1>1, NoDirTyped
<1>3. dirty' = dirty \cup {f \in FilesOf(p) : Content(f) # None}
  BY DEF Removes
<1>4. DiskShape'
  <2>1. dirty' \subseteq Files
    BY <1>1, <1>3 DEF FilesOf
  <2>2. \A q \in Places : dir'[q].made \/ dir'[q] = NoDir
    BY <1>2 DEF DiskShape, IsDir
  <2>. QED BY <1>2, <2>1, <2>2 DEF DiskShape, IsDir
<1>5. ASSUME NEW f \in Files PROVE Content(f)' = Content(f) \/ f \in dirty'
  <2>1. f[1] \in Places
    BY FileParts
  <2>2. CASE f[1] # p
    BY <1>2, <2>1, <2>2 DEF Content
  <2>3. CASE f[1] = p /\ Content(f) # None
    BY <1>3, <2>3 DEF FilesOf
  <2>4. CASE f[1] = p /\ Content(f) = None
    BY <1>2, <2>4, NoDirTyped DEF Content
  <2>. QED BY <2>2, <2>3, <2>4
<1>6. Headed => Headed'
  BY <1>2, NoDirTyped DEF Headed, IsDir
<1>. QED BY <1>2, <1>3, <1>4, <1>5, <1>6 DEF Changes

\* A file that is written.
LEMMA WritesShape ==
    ASSUME DiskShape, NEW p \in Places, NEW kind \in Kinds, NEW x \in Contents,
           Writes(p, kind, x)
    PROVE  /\ Changes
           /\ Headed /\ (kind = "index" \/ dir[p].index # None) => Headed'
           /\ kind = "index" => /\ dir'[p].index = x
                                /\ dir'[p].topic = dir[p].topic
           /\ kind = "topic" => /\ dir'[p].topic = x
                                /\ dir'[p].index = dir[p].index
           /\ dir'[p].inner = dir[p].inner /\ dir'[p].made
           /\ \A q \in Places \ {p} : dir'[q] = dir[q]
           /\ dirty' = dirty \cup {<<p, kind>>}
<1>1. /\ dir \in [Places -> Dir] /\ dirty \subseteq Files
      /\ dirty' = dirty \cup {<<p, kind>>} /\ <<p, kind>> \in Files
  BY FileParts DEF Writes, DiskShape, Kinds
<1>2. PICK d : /\ d = IF kind = "index"
                      THEN [dir[p] EXCEPT !.index = x, !.made = TRUE]
                      ELSE [dir[p] EXCEPT !.topic = x, !.made = TRUE]
               /\ dir' = [dir EXCEPT ![p] = d]
  BY DEF Writes
<1>3. /\ d \in Dir /\ d.made /\ d.inner = dir[p].inner
      /\ kind = "index" => d.index = x /\ d.topic = dir[p].topic
      /\ kind = "topic" => d.topic = x /\ d.index = dir[p].index
  BY <1>1, <1>2 DEF Dir, Kinds
<1>4. /\ dir' \in [Places -> Dir] /\ dir'[p] = d
      /\ \A q \in Places \ {p} : dir'[q] = dir[q]
  BY <1>1, <1>2, <1>3
<1>5. DiskShape'
  <2>1. \A q \in Places : dir'[q].made \/ dir'[q] = NoDir
    BY <1>3, <1>4 DEF DiskShape, IsDir
  <2>2. dirty' \subseteq Files
    BY <1>1
  <2>. QED BY <1>4, <2>1, <2>2 DEF DiskShape, IsDir
<1>6. ASSUME NEW f \in Files PROVE Content(f)' = Content(f) \/ f \in dirty'
  <2>1. /\ f[1] \in Places /\ f[2] \in Kinds /\ f = <<f[1], f[2]>>
    BY FileParts
  <2>2. CASE f[1] # p
    BY <1>4, <2>1, <2>2 DEF Content
  <2>3. CASE f[1] = p /\ f[2] = kind
    BY <1>1, <2>1, <2>3
  <2>4. CASE f[1] = p /\ f[2] # kind
    BY <1>3, <1>4, <2>1, <2>4 DEF Content, Kinds
  <2>. QED BY <2>2, <2>3, <2>4
<1>7. Headed /\ (kind = "index" \/ dir[p].index # None) => Headed'
  BY <1>3, <1>4, NoneAssumption DEF Headed, IsDir, Kinds
<1>. QED BY <1>1, <1>3, <1>4, <1>5, <1>6, <1>7 DEF Changes

\* The documents that a directory takes with it when it is moved into another.
Carried(src) == {<<src[2], e[2]>> : e \in Kept(src)}

\* A directory that is moved, to a new name or into a directory.
LEMMA MovesShape ==
    ASSUME DiskShape, NEW src \in Places, NEW dst \in Places, src # dst,
           IsDir(src), Moves(src, dst)
    PROVE  /\ Changes /\ (Headed => Headed')
           /\ dir'[src] = NoDir
           /\ ~IsDir(dst) => dir'[dst] = dir[src]
           /\ IsDir(dst) =>
                /\ dir'[dst].index = dir[dst].index
                /\ dir'[dst].topic = dir[dst].topic
                /\ dir'[dst].inner = dir[dst].inner \cup Carried(src)
                /\ dir'[dst].made
           /\ \A p \in Places \ {src, dst} : dir'[p] = dir[p]
           /\ dirty' = dirty \cup {f \in FilesOf(src) : Content(f) # None}
                 \cup {f \in FilesOf(dst) : ~IsDir(dst)
                                            /\ Content(<<src, f[2]>>) # None}
<1>1. /\ dir \in [Places -> Dir] /\ dirty \subseteq Files
  BY DEF DiskShape
<1>2. PICK c \in Inner : c = Carried(src)
  <2>1. Kept(src) \in Inner /\ src[2] \in 0..MaxDepth
    BY KeptTyped, PlaceParts
  <2>2. Carried(src) \in Inner
    BY <2>1 DEF Carried, Inner
  <2>. QED BY <2>2
<1>3. PICK d : /\ d = IF IsDir(dst)
                      THEN [dir[dst] EXCEPT !.inner = dir[dst].inner \cup c]
                      ELSE dir[src]
               /\ dir' = [dir EXCEPT ![src] = NoDir, ![dst] = d]
  BY <1>1, <1>2 DEF Moves, Moved, Carried
<1>4. /\ d \in Dir
      /\ ~IsDir(dst) => d = dir[src]
      /\ IsDir(dst) => /\ d.index = dir[dst].index /\ d.topic = dir[dst].topic
                       /\ d.inner = dir[dst].inner \cup c /\ d.made
  <2>1. CASE IsDir(dst)
    BY <1>1, <1>2, <1>3, <2>1 DEF Dir, Inner, IsDir
  <2>2. CASE ~IsDir(dst)
    BY <1>1, <1>3, <2>2
  <2>. QED BY <2>1, <2>2
<1>5. /\ dir' \in [Places -> Dir] /\ dir'[src] = NoDir /\ dir'[dst] = d
      /\ \A p \in Places \ {src, dst} : dir'[p] = dir[p]
  BY <1>1, <1>3, <1>4, NoDirTyped
<1>6. dirty' = dirty \cup {f \in FilesOf(src) : Content(f) # None}
                 \cup {f \in FilesOf(dst) : ~IsDir(dst)
                                            /\ Content(<<src, f[2]>>) # None}
  BY DEF Moves
<1>7. DiskShape'
  <2>1. \A q \in Places : dir'[q].made \/ dir'[q] = NoDir
    BY <1>4, <1>5 DEF DiskShape, IsDir
  <2>2. dirty' \subseteq Files
    BY <1>1, <1>6 DEF FilesOf
  <2>. QED BY <1>5, <2>1, <2>2 DEF DiskShape, IsDir
<1>8. ASSUME NEW f \in Files PROVE Content(f)' = Content(f) \/ f \in dirty'
  <2>1. /\ f[1] \in Places /\ f[2] \in Kinds /\ f = <<f[1], f[2]>>
    BY FileParts
  <2>2. CASE f[1] \notin {src, dst}
    BY <1>5, <2>1, <2>2 DEF Content
  <2>3. CASE f[1] = src
    BY <1>5, <1>6, <2>3, NoDirTyped DEF Content, FilesOf
  <2>4. CASE f[1] = dst /\ IsDir(dst)
    BY <1>4, <1>5, <2>4 DEF Content
  <2>5. CASE f[1] = dst /\ ~IsDir(dst) /\ Content(<<src, f[2]>>) # None
    BY <1>6, <2>5 DEF FilesOf
  <2>6. CASE f[1] = dst /\ ~IsDir(dst) /\ Content(<<src, f[2]>>) = None
    <3>1. Content(f) = None
      BY <2>6, DirParts DEF Content
    <3>2. Content(f)' = None
      BY <1>4, <1>5, <2>1, <2>6 DEF Content, Kinds
    <3>. QED BY <3>1, <3>2
  <2>. QED BY <2>2, <2>3, <2>4, <2>5, <2>6
<1>9. Headed => Headed'
  BY <1>4, <1>5, NoDirTyped DEF Headed, IsDir
<1>. QED BY <1>2, <1>4, <1>5, <1>6, <1>7, <1>8, <1>9 DEF Changes

\* No change is a change as well.
LEMMA NoChange ==
    ASSUME DiskShape, UNCHANGED <<dir, dirty>>
    PROVE  Changes /\ (Headed => Headed')
<1>1. \A f \in Files : Content(f)' = Content(f)
  BY DEF Content
<1>. QED BY <1>1 DEF Changes, DiskShape, IsDir, Headed

-----------------------------------------------------------------------------
(* The forms of a call.                                                    *)

\* No call has nothing.
LEMMA NoCallTyped ==
    /\ NoCall \in Call /\ NoCall.pc = "idle" /\ NoCall.op = None
    /\ NoCall.backup = None /\ NoCall.old = None
BY DEF NoCall, Call

\* A call goes on.
LEMMA GoesShape ==
    ASSUME call \in Call,
           NEW pc \in {"idle", "backup", "extract", "index", "topic", "written",
                       "restore", "remove", "front", "move", "topics", "row"},
           Goes(pc)
    PROVE  /\ call' \in Call /\ call'.pc = pc
           /\ call'.op = call.op /\ call'.text = call.text
           /\ call'.cat = call.cat /\ call'.old = call.old
           /\ call'.backup = call.backup
BY DEF Goes, Call

\* A call ends.
LEMMA ReturnsShape ==
    ASSUME Returns
    PROVE  call' = NoCall /\ CallShape'
BY NoCallTyped DEF Returns, CallShape, Replacing, Patching

\* A call begins.
LEMMA BeginShapes ==
    /\ \A t \in Texts, c \in Categories :
         Create(t, c) =>
            /\ call' \in Call /\ call'.op = "create" /\ call'.pc = "extract"
            /\ call'.text = t /\ call'.cat = c
            /\ call'.old = None /\ call'.backup = None
    /\ \A t \in Texts, c \in Categories :
         Replace(t, c) /\ row \in RowsOf =>
            /\ call' \in Call /\ call'.op = "replace"
            /\ call'.pc = IF IsDir(row.at) THEN "backup" ELSE "extract"
            /\ call'.text = t /\ call'.cat = c
            /\ call'.old = row.at /\ call'.backup = None
    /\ Delete /\ row \in RowsOf =>
            /\ call' \in Call /\ call'.op = "delete" /\ call'.pc = "remove"
            /\ call'.old = row.at /\ call'.backup = None
<1>1. ASSUME NEW t \in Texts, NEW c \in Categories, Create(t, c)
      PROVE  /\ call' \in Call /\ call'.op = "create" /\ call'.pc = "extract"
             /\ call'.text = t /\ call'.cat = c
             /\ call'.old = None /\ call'.backup = None
  BY <1>1 DEF Create, NoCall, Call
<1>2. ASSUME NEW t \in Texts, NEW c \in Categories, Replace(t, c),
             row \in RowsOf
      PROVE  /\ call' \in Call /\ call'.op = "replace"
             /\ call'.pc = IF IsDir(row.at) THEN "backup" ELSE "extract"
             /\ call'.text = t /\ call'.cat = c
             /\ call'.old = row.at /\ call'.backup = None
  <2>1. row.at \in Places
    BY <1>2 DEF RowsOf
  <2>2. PICK pc \in {"backup", "extract"} :
          /\ pc = IF IsDir(row.at) THEN "backup" ELSE "extract"
          /\ call' = [NoCall EXCEPT !.op = "replace", !.text = t, !.cat = c,
                          !.old = row.at, !.pc = pc]
    BY <1>2 DEF Replace
  <2>. QED BY <2>1, <2>2 DEF NoCall, Call
<1>3. ASSUME Delete, row \in RowsOf
      PROVE  /\ call' \in Call /\ call'.op = "delete" /\ call'.pc = "remove"
             /\ call'.old = row.at /\ call'.backup = None
  BY <1>3 DEF Delete, NoCall, Call, RowsOf
<1>. QED BY <1>1, <1>2, <1>3

\* A patch begins with the row, or with a file that tells of the document.
LEMMA PatchShape ==
    ASSUME Shapes, NEW c \in Categories, Patch(c)
    PROVE  /\ call' \in Call /\ call'.op = "patch" /\ call'.pc = "front"
           /\ call'.old \in Places /\ call'.cat = c /\ call'.backup = None
           /\ call'.text \in RowsOf
           /\ row # None => call'.text = row /\ call'.old = row.at
           /\ row = None => /\ dir[call'.old].index # None
                            /\ call'.text.cat = dir[call'.old].index.cat
<1>1. PICK p \in Places :
        /\ IF row # None THEN p = row.at ELSE dir[p].index # None
        /\ call' = [NoCall EXCEPT !.op = "patch", !.pc = "front", !.old = p,
                        !.cat = c,
                        !.text = IF row # None THEN row
                                 ELSE Row(Says(None, dir[p].index.cat), p)]
  BY DEF Patch
<1>2. PICK x : /\ x = IF row # None THEN row
                      ELSE Row(Says(None, dir[p].index.cat), p)
               /\ call' = [NoCall EXCEPT !.op = "patch", !.pc = "front",
                               !.old = p, !.cat = c, !.text = x]
  BY <1>1
<1>3. /\ x \in RowsOf
      /\ row # None => x = row
      /\ row = None => x.cat = dir[p].index.cat
  <2>1. CASE row # None
    BY <1>2, <2>1 DEF Shapes, RowShape
  <2>2. CASE row = None
    <3>1. dir[p].index \in Contents
      BY <1>1, <2>2, DirParts DEF Shapes
    <3>. QED BY <1>2, <2>2, <3>1 DEF Row, Says, RowsOf, Contents
  <2>. QED BY <2>1, <2>2
<1>4. /\ call' \in Call /\ call'.op = "patch" /\ call'.pc = "front"
      /\ call'.old = p /\ call'.cat = c /\ call'.text = x
      /\ call'.backup = None
  BY <1>2, <1>3 DEF NoCall, Call
<1>. QED BY <1>1, <1>3, <1>4

-----------------------------------------------------------------------------
(* The steps of a call, on disk and in the call.                           *)

\* What a file says is of a text and a category.
LEMMA SaysTyped ==
    /\ \A t \in Texts, c \in Categories :
         /\ Says(t, c) \in Contents /\ Says(t, c) # None
         /\ Says(t, c).text = t /\ Says(t, c).cat = c
<1>1. None \notin Contents
  BY NoneAssumption
<1>. QED BY <1>1 DEF Says, Contents

\* A file that is moved to another category.
LEMMA NewCategory ==
    ASSUME NEW x \in Contents, NEW c \in Categories
    PROVE  \E y \in Contents : /\ y = [x EXCEPT !.cat = c] /\ y # None
                               /\ y.text = x.text /\ y.cat = c
<1>1. None \notin Contents
  BY NoneAssumption
<1>2. [x EXCEPT !.cat = c] \in Contents
  BY DEF Contents
<1>3. [x EXCEPT !.cat = c].text = x.text /\ [x EXCEPT !.cat = c].cat = c
  BY DEF Contents
<1>. QED BY <1>1, <1>2, <1>3

\* The place that a writer writes to.
LEMMA DestTyped ==
    ASSUME CallShape, call.pc \in Replacing \cup Patching
    PROVE  /\ Dest \in Places /\ Dest # None /\ Dest[1] = call.cat
           /\ \A p \in Places : p[2] > 0 => p # Dest
<1>1. call.cat \in Categories
  BY DEF CallShape
<1>2. Dest \in Places
  BY <1>1, PlaceParts, KnowledgeAssumption DEF Dest
<1>. QED BY <1>2, NoneAssumption DEF Dest

\* A backup moves the directory away, or the call ends.
LEMMA BackUpShape ==
    ASSUME Shapes, BackUp
    PROVE  /\ Changes /\ Headed' /\ CallShape'
           /\ Deep(call.old)
           /\ \/ call' = NoCall /\ UNCHANGED <<dir, dirty>>
              \/ /\ IsDir(call.old) /\ Moves(call.old, Backup(call.old))
                 /\ call'.pc = "extract" /\ call'.backup = Backup(call.old)
                 /\ call'.op = call.op /\ call'.text = call.text
                 /\ call'.cat = call.cat /\ call'.old = call.old
<1>1. /\ call \in Call /\ CallShape /\ DiskShape /\ Headed
      /\ call.pc = "backup" /\ Deep(call.old) /\ call.op = "replace"
      /\ call.text \in Texts /\ call.cat \in Categories
      /\ call.old \in Places
  BY DEF Shapes, CallShape, BackUp, Replacing, Deep
<1>2. CASE Returns /\ UNCHANGED <<dir, dirty>>
  BY <1>1, <1>2, NoChange, ReturnsShape
<1>3. CASE MayMove(call.old, Backup(call.old))
  <2>1. /\ IsDir(call.old) /\ Moves(call.old, Backup(call.old))
        /\ call' = [call EXCEPT !.pc = "extract", !.backup = Backup(call.old)]
    BY <1>3 DEF BackUp, MayMove
  <2>2. Backup(call.old) \in Places /\ Backup(call.old) # call.old
    BY <1>1, BackupApart
  <2>3. Changes /\ Headed'
    BY <1>1, <2>1, <2>2, MovesShape
  <2>4. /\ call' \in Call /\ call'.pc = "extract"
        /\ call'.backup = Backup(call.old)
        /\ call'.op = call.op /\ call'.text = call.text
        /\ call'.cat = call.cat /\ call'.old = call.old
    BY <1>1, <2>1, <2>2 DEF Call
  <2>5. CallShape'
    BY <1>1, <2>4 DEF CallShape, Replacing, Patching, Deep, Backup
  <2>. QED BY <1>1, <2>1, <2>3, <2>4, <2>5
<1>. QED BY <1>2, <1>3 DEF BackUp

\* The steps of KnowledgeWriter.write go on in its order.
LEMMA WriterShape ==
    ASSUME Shapes, Clear \/ WriteIndex \/ WriteTopic
    PROVE  /\ Changes /\ Headed' /\ CallShape' /\ Dest \in Places
           /\ Says(call.text, call.cat) \in Contents
           /\ call'.op = call.op /\ call'.text = call.text
           /\ call'.cat = call.cat /\ call'.old = call.old
           /\ call'.backup = call.backup /\ Dest' = Dest
           /\ Clear => call'.pc = "index"
           /\ WriteIndex => call'.pc = "topic"
           /\ WriteTopic => call'.pc = "written"
<1>1. /\ call \in Call /\ CallShape /\ DiskShape /\ Headed
      /\ call.pc \in {"extract", "index", "topic"} /\ call.pc \in Replacing
      /\ call.text \in Texts /\ call.cat \in Categories
      /\ WriteTopic => dir[Dest].index # None
  BY DEF Shapes, CallShape, Clear, WriteIndex, WriteTopic, Replacing
<1>2. Dest \in Places /\ Says(call.text, call.cat) \in Contents
  BY <1>1, DestTyped, SaysTyped
<1>3. Changes /\ Headed'
  BY <1>1, <1>2, RemovesShape, WritesShape
     DEF Clear, WriteIndex, WriteTopic, Kinds
<1>4. PICK pc \in {"index", "topic", "written"} :
        /\ Goes(pc)
        /\ Clear => pc = "index"
        /\ WriteIndex => pc = "topic"
        /\ WriteTopic => pc = "written"
  BY DEF Clear, WriteIndex, WriteTopic
<1>5. /\ call' \in Call /\ call'.pc = pc
      /\ call'.op = call.op /\ call'.text = call.text
      /\ call'.cat = call.cat /\ call'.old = call.old
      /\ call'.backup = call.backup
  BY <1>1, <1>4, GoesShape
<1>6. Dest' = Dest
  BY <1>5 DEF Dest
<1>7. WriteIndex => dir'[Dest].index # None
  BY <1>1, <1>2, NoneAssumption, WritesShape DEF WriteIndex, Kinds
<1>8. CallShape'
  BY <1>1, <1>4, <1>5, <1>6, <1>7
     DEF CallShape, Replacing, Patching, Deep, Backup, Clear, WriteTopic
<1>. QED BY <1>2, <1>3, <1>4, <1>5, <1>6, <1>8

\* A writer that raises ends the call, or has the backup restored.
LEMMA RaisesShape ==
    ASSUME Shapes, Raises
    PROVE  /\ CallShape'
           /\ \/ call' = NoCall
              \/ /\ call'.pc = "restore" /\ call.backup # None
                 /\ call'.op = call.op /\ call'.backup = call.backup
<1>1. /\ call \in Call /\ CallShape /\ call.pc \in Replacing
  BY DEF Shapes, CallShape, Raises, Replacing
<1>2. CASE call.backup = None
  BY <1>2, ReturnsShape DEF Raises
<1>3. CASE call.backup # None
  <2>1. Goes("restore")
    BY <1>3 DEF Raises
  <2>2. /\ call' \in Call /\ call'.pc = "restore"
        /\ call'.op = call.op /\ call'.text = call.text
        /\ call'.cat = call.cat /\ call'.old = call.old
        /\ call'.backup = call.backup
    BY <1>1, <2>1, GoesShape
  <2>3. CallShape'
    BY <1>1, <1>3, <2>2 DEF CallShape, Replacing, Patching, Deep, Backup
  <2>. QED BY <1>3, <2>2, <2>3
<1>. QED BY <1>2, <1>3

\* A backup that is restored is moved back, or stays.
LEMMA RestoreShape ==
    ASSUME Shapes, Restore
    PROVE  /\ Changes /\ Headed' /\ call' = NoCall /\ CallShape'
           /\ Deep(call.old) /\ call.backup = Backup(call.old)
           /\ \/ UNCHANGED <<dir, dirty>>
              \/ IsDir(call.backup) /\ Moves(call.backup, call.old)
<1>1. /\ CallShape /\ DiskShape /\ Headed /\ call.backup # None
      /\ Deep(call.old) /\ call.backup = Backup(call.old)
      /\ call.old \in Places
  BY DEF Shapes, CallShape, Restore, Replacing, Deep
<1>2. /\ call.backup \in Places /\ call.backup # call.old
  BY <1>1, BackupApart
<1>3. \/ UNCHANGED <<dir, dirty>>
      \/ IsDir(call.backup) /\ Moves(call.backup, call.old)
  BY DEF Restore, MayMove
<1>4. Changes /\ Headed'
  BY <1>1, <1>2, <1>3, NoChange, MovesShape
<1>. QED BY <1>1, <1>3, <1>4, ReturnsShape DEF Restore

\* An acknowledgement removes the backup, which is never the document's
\* own directory.
LEMMA AcknowledgedShape ==
    ASSUME Shapes, Acknowledged
    PROVE  /\ Changes /\ Headed' /\ call' = NoCall /\ CallShape'
           /\ call.text \in Texts /\ Dest \in Places
           /\ \/ UNCHANGED <<dir, dirty>> /\ call.backup = None
              \/ /\ call.backup \in Places /\ call.backup # Dest
                 /\ call.backup # None /\ Removes(call.backup)
<1>1. /\ CallShape /\ DiskShape /\ Headed /\ call.pc \in Replacing
      /\ call.text \in Texts
      /\ call.backup # None => Deep(call.old) /\ call.backup = Backup(call.old)
  BY DEF Shapes, CallShape, Acknowledged, Replacing
<1>2. Dest \in Places /\ \A p \in Places : p[2] > 0 => p # Dest
  BY <1>1, DestTyped
<1>3. CASE call.backup = None
  BY <1>1, <1>2, <1>3, NoChange, ReturnsShape DEF Acknowledged
<1>4. CASE call.backup # None
  <2>1. call.backup \in Places /\ call.backup # Dest
    BY <1>1, <1>2, <1>4, BackupApart
  <2>2. Removes(call.backup)
    BY <1>4 DEF Acknowledged
  <2>3. Changes /\ Headed'
    BY <1>1, <2>1, <2>2, RemovesShape
  <2>. QED BY <1>1, <1>2, <1>4, <2>1, <2>2, <2>3, ReturnsShape
           DEF Acknowledged
<1>. QED BY <1>3, <1>4

\* A deletion removes the directory of the row.
LEMMA RemoveShape ==
    ASSUME Shapes, Remove
    PROVE  /\ Changes /\ Headed' /\ call' = NoCall /\ CallShape'
           /\ call.old \in Places /\ Removes(call.old)
<1>1. CallShape /\ DiskShape /\ Headed /\ call.old \in Places
  BY DEF Shapes, CallShape, Remove
<1>. QED BY <1>1, RemovesShape, ReturnsShape DEF Remove

\* A patch writes the new category into index.md.
LEMMA FrontShape ==
    ASSUME Shapes, Front
    PROVE  /\ Changes /\ Headed' /\ CallShape' /\ call.old \in Places
           /\ call.cat \in Categories
           /\ \/ call' = NoCall /\ UNCHANGED <<dir, dirty>>
                 /\ dir[call.old].index = None
              \/ /\ dir[call.old].index \in Contents
                 /\ Writes(call.old, "index",
                           [dir[call.old].index EXCEPT !.cat = call.cat])
                 /\ call'.pc = IF Moving THEN "move" ELSE "row"
                 /\ call'.op = call.op /\ call'.text = call.text
                 /\ call'.cat = call.cat /\ call'.old = call.old
                 /\ call'.backup = call.backup
<1>1. /\ call \in Call /\ CallShape /\ DiskShape /\ Headed /\ call.pc = "front"
      /\ call.op = "patch" /\ call.text \in RowsOf
      /\ call.cat \in Categories /\ call.old \in Places
  BY DEF Shapes, CallShape, Front, Patching
<1>2. CASE dir[call.old].index = None
  BY <1>1, <1>2, NoChange, ReturnsShape DEF Front
<1>3. CASE dir[call.old].index # None
  <2>1. dir[call.old].index \in Contents
    BY <1>1, <1>3, DirParts
  <2>2. PICK x \in Contents :
          x = [dir[call.old].index EXCEPT !.cat = call.cat] /\ x # None
    BY <1>1, <2>1, NewCategory
  <2>3. Writes(call.old, "index", x)
    BY <1>3, <2>2 DEF Front
  <2>4. Changes /\ Headed' /\ dir'[call.old].index = x
    BY <1>1, <2>2, <2>3, WritesShape DEF Kinds
  <2>5. PICK pc \in {"move", "row"} :
          pc = (IF Moving THEN "move" ELSE "row") /\ Goes(pc)
    BY <1>3 DEF Front
  <2>6. /\ call' \in Call /\ call'.pc = pc
        /\ call'.op = call.op /\ call'.text = call.text
        /\ call'.cat = call.cat /\ call'.old = call.old
        /\ call'.backup = call.backup
    BY <1>1, <2>5, GoesShape
  <2>7. CallShape'
    BY <1>1, <2>2, <2>4, <2>6 DEF CallShape, Replacing, Patching
  <2>. QED BY <1>1, <2>1, <2>2, <2>3, <2>4, <2>5, <2>6, <2>7
<1>. QED BY <1>2, <1>3

\* A move goes to the directory of the new category.
LEMMA MoveShape ==
    ASSUME Shapes, Move
    PROVE  /\ Changes /\ Headed' /\ CallShape' /\ call.old \in Places
           /\ call.cat \in Categories /\ Target \in Places
           /\ Target[1] = call.cat
           /\ \/ /\ call' = NoCall /\ UNCHANGED <<dir, dirty>>
                 /\ ~(MayMove(call.old, Target) /\ Target # call.old)
              \/ /\ IsDir(call.old) /\ Target # call.old
                 /\ Moves(call.old, Target)
                 /\ call'.pc = "topics" /\ call'.old = Target
                 /\ call'.op = call.op /\ call'.text = call.text
                 /\ call'.cat = call.cat /\ call'.backup = call.backup
<1>1. /\ call \in Call /\ CallShape /\ DiskShape /\ Headed /\ call.pc = "move"
      /\ call.op = "patch" /\ call.text \in RowsOf
      /\ call.cat \in Categories /\ call.old \in Places
      /\ dir[call.old].index # None
  BY DEF Shapes, CallShape, Move, Patching
<1>2. Target \in Places /\ Target[1] = call.cat
  BY <1>1, PlaceParts DEF Target
<1>3. CASE ~(MayMove(call.old, Target) /\ Target # call.old)
  BY <1>1, <1>2, <1>3, NoChange, ReturnsShape DEF Move
<1>4. CASE MayMove(call.old, Target) /\ Target # call.old
  <2>1. /\ IsDir(call.old) /\ Target # call.old /\ Moves(call.old, Target)
        /\ call' = [call EXCEPT !.pc = "topics", !.old = Target]
    BY <1>4 DEF Move, MayMove
  <2>2. Changes /\ Headed'
    BY <1>1, <1>2, <2>1, MovesShape
  <2>3. /\ call' \in Call /\ call'.pc = "topics" /\ call'.old = Target
        /\ call'.op = call.op /\ call'.text = call.text
        /\ call'.cat = call.cat /\ call'.backup = call.backup
    BY <1>1, <1>2, <2>1 DEF Call
  <2>4. dir'[Target].index # None
    BY <1>1, <1>2, <2>1, MovesShape DEF Headed
  <2>5. CallShape'
    BY <1>1, <1>2, <2>3, <2>4 DEF CallShape, Replacing, Patching
  <2>. QED BY <1>1, <1>2, <2>1, <2>2, <2>3, <2>5
<1>. QED BY <1>3, <1>4

\* The topics' files keep their texts.
LEMMA TopicsShape ==
    ASSUME Shapes, Topics
    PROVE  /\ Changes /\ Headed' /\ CallShape' /\ call.old \in Places
           /\ call.cat \in Categories
           /\ call'.pc = "row"
           /\ call'.op = call.op /\ call'.text = call.text
           /\ call'.cat = call.cat /\ call'.old = call.old
           /\ call'.backup = call.backup
           /\ \/ /\ UNCHANGED <<dir, dirty>>
                 /\ \/ dir[call.old].topic = None
                    \/ dir[call.old].topic.cat = call.cat
              \/ \E x \in Contents :
                    /\ dir[call.old].topic # None
                    /\ dir[call.old].topic.cat # call.cat
                    /\ x.cat = call.cat /\ x.text = dir[call.old].topic.text
                    /\ Writes(call.old, "topic", x)
<1>1. /\ call \in Call /\ CallShape /\ DiskShape /\ Headed
      /\ call.pc = "topics"
      /\ call.op = "patch" /\ call.text \in RowsOf
      /\ call.cat \in Categories /\ call.old \in Places
      /\ dir[call.old].index # None
  BY DEF Shapes, CallShape, Topics, Patching
<1>2. /\ call' \in Call /\ call'.pc = "row"
      /\ call'.op = call.op /\ call'.text = call.text
      /\ call'.cat = call.cat /\ call'.old = call.old
      /\ call'.backup = call.backup
  BY <1>1, GoesShape DEF Topics
<1>3. CASE dir[call.old].topic = None \/ dir[call.old].topic.cat = call.cat
  <2>1. UNCHANGED <<dir, dirty>>
    BY <1>3 DEF Topics
  <2>2. Changes /\ Headed'
    BY <1>1, <2>1, NoChange
  <2>3. CallShape'
    BY <1>1, <1>2, <2>1 DEF CallShape, Replacing, Patching
  <2>. QED BY <1>1, <1>2, <1>3, <2>1, <2>2, <2>3
<1>4. CASE dir[call.old].topic # None /\ dir[call.old].topic.cat # call.cat
  <2>1. dir[call.old].topic \in Contents
    BY <1>1, <1>4, DirParts
  <2>2. PICK x \in Contents :
          /\ x = [dir[call.old].topic EXCEPT !.cat = call.cat]
          /\ x.text = dir[call.old].topic.text /\ x.cat = call.cat
    BY <1>1, <2>1, NewCategory
  <2>3. Writes(call.old, "topic", x)
    BY <1>4, <2>2 DEF Topics
  <2>4. Changes /\ Headed' /\ dir'[call.old].index = dir[call.old].index
    BY <1>1, <2>2, <2>3, WritesShape DEF Kinds
  <2>5. CallShape'
    BY <1>1, <1>2, <2>4 DEF CallShape, Replacing, Patching
  <2>. QED BY <1>1, <1>2, <1>4, <2>2, <2>3, <2>4, <2>5
<1>. QED BY <1>3, <1>4

\* The row after a patch.
LEMMA PatchRowShape ==
    ASSUME Shapes, PatchRow
    PROVE  /\ row' \in RowsOf /\ row'.at = call.old
           /\ row'.text = call.text.text /\ row'.cat = call.cat
           /\ call.old \in Places /\ dir[call.old].index # None
           /\ call' = NoCall /\ CallShape'
<1>1. /\ call.text \in RowsOf /\ call.cat \in Categories
      /\ call.old \in Places /\ dir[call.old].index # None
  BY DEF Shapes, CallShape, PatchRow, Patching
<1>2. row' = [text |-> call.text.text, cat |-> call.cat, at |-> call.old]
  BY DEF PatchRow, Row, Says
<1>3. call.text.text \in Texts \cup {None}
  BY <1>1 DEF RowsOf
<1>. QED BY <1>1, <1>2, <1>3, ReturnsShape DEF RowsOf, PatchRow

\* The steps of a call change no task, no topic row and no mark of a failure,
\* and the document's row only at the end of a patch.
LEMMA CallStepShape ==
    ASSUME Shapes, CallStep
    PROVE  /\ Changes /\ Headed' /\ CallShape'
           /\ UNCHANGED <<stored, found, failed, task>>
           /\ PatchRow \/ UNCHANGED row
           /\ good' \in Texts \cup {None} /\ clean' \in BOOLEAN
           /\ calls' \in Nat
<1>1. /\ DiskShape /\ Headed /\ call \in Call /\ CallShape
      /\ row \in RowsOf \cup {None}
      /\ good \in Texts \cup {None} /\ clean \in BOOLEAN /\ calls \in Nat
  BY DEF Shapes, CallShape, RowShape
<1>2. ASSUME NEW c \in Categories, NEW t \in Texts, Create(t, c)
      PROVE  CallShape' /\ UNCHANGED <<dir, dirty>>
  <2>1. /\ call' \in Call /\ call'.op = "create" /\ call'.pc = "extract"
        /\ call'.text = t /\ call'.cat = c
        /\ call'.old = None /\ call'.backup = None
    BY <1>2, BeginShapes
  <2>. QED BY <1>2, <2>1 DEF CallShape, Replacing, Patching, Create
<1>3. ASSUME NEW c \in Categories, NEW t \in Texts, Replace(t, c)
      PROVE  CallShape' /\ UNCHANGED <<dir, dirty>>
  <2>1. row \in RowsOf /\ row.at[2] < MaxDepth /\ UNCHANGED <<dir, dirty>>
    BY <1>1, <1>3 DEF Replace
  <2>2. Deep(row.at)
    BY <2>1 DEF Deep, RowsOf
  <2>3. /\ call' \in Call /\ call'.op = "replace"
        /\ call'.pc = IF IsDir(row.at) THEN "backup" ELSE "extract"
        /\ call'.text = t /\ call'.cat = c
        /\ call'.old = row.at /\ call'.backup = None
    BY <1>3, <2>1, BeginShapes
  <2>. QED BY <2>1, <2>2, <2>3 DEF CallShape, Replacing, Patching
<1>4. ASSUME Delete PROVE CallShape' /\ UNCHANGED <<dir, dirty>>
  <2>1. row \in RowsOf /\ UNCHANGED <<dir, dirty>>
    BY <1>1, <1>4 DEF Delete
  <2>2. /\ call' \in Call /\ call'.op = "delete" /\ call'.pc = "remove"
        /\ call'.old = row.at /\ call'.backup = None
    BY <1>4, <2>1, BeginShapes
  <2>3. row.at \in Places
    BY <2>1 DEF RowsOf
  <2>. QED BY <2>1, <2>2, <2>3 DEF CallShape, Replacing, Patching
<1>5. ASSUME NEW c \in Categories, Patch(c)
      PROVE  CallShape' /\ UNCHANGED <<dir, dirty>>
  <2>1. /\ call' \in Call /\ call'.op = "patch" /\ call'.pc = "front"
        /\ call'.old \in Places /\ call'.cat = c /\ call'.backup = None
        /\ call'.text \in RowsOf
    BY <1>5, PatchShape
  <2>. QED BY <1>5, <2>1 DEF CallShape, Replacing, Patching, Patch
<1>6. CASE Raises
  BY <1>1, <1>6, RaisesShape, NoChange
     DEF Raises, Fault, cascade, rows
<1>7. CASE PatchRaises
  BY <1>1, <1>7, ReturnsShape, NoChange
     DEF PatchRaises, Fault, cascade, rows
<1>8. CASE PatchRow
  BY <1>1, <1>8, PatchRowShape, NoChange DEF PatchRow, history
<1>9. CASE \E c \in Categories :
             Patch(c) \/ \E t \in Texts : Create(t, c) \/ Replace(t, c)
  <2>1. CallShape' /\ UNCHANGED <<dir, dirty>>
    BY <1>2, <1>3, <1>5, <1>9
  <2>2. ASSUME NEW c \in Categories, Patch(c)
        PROVE  /\ UNCHANGED <<cascade, good>> /\ clean' \in BOOLEAN
               /\ calls' \in Nat
    BY <1>1, <2>2 DEF Patch, Begins
  <2>3. ASSUME NEW c \in Categories, NEW t \in Texts, Create(t, c)
        PROVE  /\ UNCHANGED <<cascade, good>> /\ clean' \in BOOLEAN
               /\ calls' \in Nat
    BY <1>1, <2>3 DEF Create, Begins
  <2>4. ASSUME NEW c \in Categories, NEW t \in Texts, Replace(t, c)
        PROVE  /\ UNCHANGED <<cascade, good>> /\ clean' \in BOOLEAN
               /\ calls' \in Nat
    <3>1. UNCHANGED cascade /\ good' = good /\ clean' = FALSE
      BY <2>4 DEF Replace
    <3>2. clean' \in BOOLEAN
      BY <3>1
    <3>3. calls' = calls + 1
      BY <2>4 DEF Replace, Begins
    <3>4. calls' \in Nat
      BY <1>1, <3>3
    <3>. QED BY <3>1, <3>2, <3>4
  <2>. QED BY <1>1, <1>9, <2>1, <2>2, <2>3, <2>4, NoChange DEF cascade, rows
<1>10. CASE Delete
  <2>1. /\ UNCHANGED <<cascade, good, clean>> /\ calls' \in Nat
    BY <1>1, <1>10 DEF Delete, Begins
  <2>. QED BY <1>1, <1>4, <1>10, <2>1, NoChange DEF cascade, rows
<1>11. CASE BackUp
  BY <1>1, <1>11, BackUpShape DEF BackUp, cascade, rows, history
<1>12. CASE Clear \/ WriteIndex \/ WriteTopic
  BY <1>1, <1>12, WriterShape
     DEF Clear, WriteIndex, WriteTopic, cascade, rows, history
<1>13. CASE Restore
  BY <1>1, <1>13, RestoreShape DEF Restore, cascade, rows, history
<1>14. CASE Acknowledged
  BY <1>1, <1>14, AcknowledgedShape DEF Acknowledged, cascade, rows
<1>15. CASE Remove
  BY <1>1, <1>15, RemoveShape DEF Remove, cascade, rows
<1>16. CASE Front
  BY <1>1, <1>16, FrontShape DEF Front, cascade, rows, history
<1>17. CASE Move
  BY <1>1, <1>17, MoveShape DEF Move, cascade, rows, history
<1>18. CASE Topics
  BY <1>1, <1>18, TopicsShape DEF Topics, cascade, rows, history
<1>. QED BY <1>6, <1>7, <1>8, <1>9, <1>10, <1>11, <1>12, <1>13, <1>14, <1>15,
            <1>16, <1>17, <1>18 DEF CallStep

-----------------------------------------------------------------------------
(* The cascade.                                                            *)

\* What a file says, or nothing.
LEMMA ContentTyped ==
    ASSUME DiskShape, NEW f \in Files
    PROVE  Content(f) \in Contents \cup {None}
BY FileParts, DirParts DEF Content

\* A task goes on.
LEMMA StepShape ==
    ASSUME TaskShape, NEW f \in Files,
           NEW pc \in {"idle", "read", "upsert", "compare", "embed", "store",
                       "gone", "forget"},
           NEW x \in Contents \cup {None},
           Step(f, pc, x),
           pc \in {"upsert", "compare", "embed", "store"} => x \in Contents,
           pc = "upsert" => f[2] = "index",
           pc \in {"compare", "embed", "store", "forget"} => f[2] = "topic"
    PROVE  /\ TaskShape'
           /\ task'[f].pc = pc /\ task'[f].says = x
           /\ \A g \in Files \ {f} : task'[g] = task[g]
<1>1. /\ task \in [Files -> Task]
      /\ task' = [task EXCEPT ![f] = [pc |-> pc, says |-> x]]
  BY DEF TaskShape, Step
<1>2. [pc |-> pc, says |-> x] \in Task
  BY DEF Task
<1>3. /\ task' \in [Files -> Task]
      /\ task'[f].pc = pc /\ task'[f].says = x
      /\ \A g \in Files \ {f} : task'[g] = task[g]
  BY <1>1, <1>2
<1>. QED BY <1>3 DEF TaskShape

\* A task ends.
LEMMA DoneShape ==
    ASSUME TaskShape, NEW f \in Files, Done(f)
    PROVE  /\ TaskShape' /\ task'[f].pc = "idle"
           /\ \A g \in Files \ {f} : task'[g] = task[g]
<1>1. PICK pc \in {"idle", "read", "upsert", "compare", "embed", "store",
                   "gone", "forget"} : pc = "idle"
  OBVIOUS
<1>2. Step(f, pc, None)
  BY <1>1 DEF Done
<1>. QED BY <1>1, <1>2, StepShape

\* The row of a topic.
LEMMA RowTyped ==
    ASSUME NEW x \in Contents, NEW p \in Places
    PROVE  /\ Row(x, p) \in TopicRows /\ Row(x, p) \in RowsOf
           /\ Row(x, p).at = p /\ Row(x, p) # None
           /\ Row(x, p).text = x.text /\ Row(x, p).cat = x.cat
           /\ x = Says(x.text, x.cat)
<1>1. Row(x, p) \in RowsOf /\ Row(x, p) \in TopicRows
  BY DEF Row, Contents, RowsOf, TopicRows
<1>. QED BY <1>1, NoneAssumption DEF Row, Contents, Says

\* A batch of files begins.
LEMMA BatchShape ==
    ASSUME Shapes, NEW S \in SUBSET dirty, Batch(S)
    PROVE  /\ TaskShape'
           /\ \A f \in Files : task[f].pc = "idle"
           /\ \A f \in Files \ S : task'[f].pc = "idle"
           /\ \A f \in S : task'[f].pc =
                             IF Content(f) # None THEN "read" ELSE "gone"
           /\ dirty' = dirty \ S /\ failed' = failed \ S
<1>1. task' = [f \in Files |->
                  IF f \notin S THEN NoTask
                  ELSE [pc |-> IF Content(f) # None THEN "read" ELSE "gone",
                        says |-> None]]
  BY DEF Batch
<1>2. ASSUME NEW f \in Files \ S
      PROVE  task'[f] \in Task /\ task'[f].pc = "idle"
  BY <1>1 DEF NoTask, Task
<1>3. ASSUME NEW f \in S
      PROVE  /\ task'[f] \in Task
             /\ task'[f].pc = IF Content(f) # None THEN "read" ELSE "gone"
  <2>1. f \in Files
    BY DEF Shapes, DiskShape
  <2>2. PICK pc \in {"read", "gone"} :
          /\ pc = IF Content(f) # None THEN "read" ELSE "gone"
          /\ task'[f] = [pc |-> pc, says |-> None]
    BY <1>1, <2>1
  <2>. QED BY <2>2 DEF Task
<1>4. TaskShape'
  <2>1. \A f \in Files : /\ task'[f] \in Task
                         /\ task'[f].pc \in {"idle", "read", "gone"}
    BY <1>2, <1>3
  <2>. QED BY <1>1, <2>1 DEF TaskShape
<1>. QED BY <1>2, <1>3, <1>4 DEF Batch

-----------------------------------------------------------------------------
(* What the rows are backed by.                                            *)

\* A file that is, or will be, processed again.
Pending(f) == f \in dirty \cup failed

\* What a task has found out is so still, or its file has changed again.
Fresh ==
    \A f \in Files :
      /\ task[f].pc = "read" => Content(f) # None \/ f \in dirty
      /\ task[f].pc \in {"upsert", "compare", "embed", "store"} =>
           task[f].says = Content(f) \/ f \in dirty
      /\ task[f].pc \in {"gone", "forget"} => Content(f) = None \/ f \in dirty

\* A row whose file is gone has somebody who will notice.
RowBacked ==
    row # None =>
      LET f == <<row.at, "index">>
      IN Content(f) # None \/ Pending(f) \/ task[f].pc = "gone"

StoredBacked ==
    stored # None =>
      LET f == <<stored.at, "topic">>
      IN Content(f) # None \/ Pending(f) \/ task[f].pc \in {"gone", "forget"}

\* A topic row that is no longer true has somebody who will notice.
FoundTrue ==
    found # None =>
      LET f == <<found.at, "topic">>
      IN \/ Content(f) = Says(found.text, found.cat)
         \/ Pending(f)
         \/ task[f].pc \in {"read", "compare", "embed", "gone"}

Backed == Fresh /\ RowBacked /\ StoredBacked /\ FoundTrue

\* The files of the rows.
LEMMA RowFiles ==
    ASSUME RowShape
    PROVE  /\ row # None => row.at \in Places /\ <<row.at, "index">> \in Files
           /\ found # None =>
                found.at \in Places /\ <<found.at, "topic">> \in Files
           /\ stored # None =>
                stored.at \in Places /\ <<stored.at, "topic">> \in Files
BY FileParts DEF RowShape, RowsOf, TopicRows

\* A step that only changes the disk leaves the rows backed: whatever it
\* changes is in the queue.
LEMMA ChangesBacked ==
    ASSUME Shapes, Backed, Changes, UNCHANGED <<stored, found, failed, task>>,
           PatchRow \/ UNCHANGED row
    PROVE  Backed'
<1>1. /\ dirty \subseteq dirty'
      /\ \A f \in Files : Content(f)' = Content(f) \/ f \in dirty'
  BY DEF Changes
<1>2. \A f \in Files : Pending(f) => Pending(f)'
  BY <1>1 DEF Pending
<1>3. \A f \in Files : f \in dirty' => Pending(f)'
  BY DEF Pending
<1>4. Fresh'
  BY <1>1 DEF Fresh, Backed
<1>5. StoredBacked' /\ FoundTrue'
  BY <1>1, <1>2, <1>3, RowFiles
     DEF StoredBacked, FoundTrue, Backed, Shapes
<1>6. RowBacked'
  <2>1. CASE UNCHANGED row
    BY <1>1, <1>2, <1>3, <2>1, RowFiles DEF RowBacked, Backed, Shapes
  <2>2. CASE PatchRow
    <3>1. /\ row'.at = call.old /\ call.old \in Places
          /\ dir[call.old].index # None
      BY <2>2, PatchRowShape
    <3>2. dir' = dir
      BY <2>2 DEF PatchRow
    <3>. QED BY <3>1, <3>2, ContentOf DEF RowBacked
  <2>. QED BY <2>1, <2>2
<1>. QED BY <1>4, <1>5, <1>6 DEF Backed

\* The rows after a step of the cascade.
LEMMA BatchBacked ==
    ASSUME Shapes, Backed, NEW S \in SUBSET dirty, Batch(S)
    PROVE  TaskShape' /\ Backed'
<1>1. /\ TaskShape'
      /\ \A f \in Files : task[f].pc = "idle"
      /\ \A f \in Files \ S : task'[f].pc = "idle"
      /\ \A f \in S : task'[f].pc =
                        IF Content(f) # None THEN "read" ELSE "gone"
      /\ dirty' = dirty \ S /\ failed' = failed \ S
  BY BatchShape
<1>2. /\ \A f \in Files : Content(f)' = Content(f)
      /\ UNCHANGED <<row, stored, found>>
  BY DEF Batch, Content, rows
<1>3. Fresh'
  BY <1>1, <1>2 DEF Fresh
<1>4. \A f \in Files : Pending(f) => Pending(f)' \/ f \in S
  BY <1>1 DEF Pending
<1>5. RowBacked' /\ StoredBacked' /\ FoundTrue'
  BY <1>1, <1>2, <1>4, RowFiles
     DEF RowBacked, StoredBacked, FoundTrue, Backed, Shapes
<1>. QED BY <1>1, <1>3, <1>5 DEF Backed

\* A task that has read its file knows what it says, or that it is gone.
LEMMA ReadBacked ==
    ASSUME Shapes, Backed, NEW f \in Files, Read(f)
    PROVE  TaskShape' /\ Backed'
<1>1. /\ TaskShape /\ f[2] \in Kinds /\ Content(f) \in Contents \cup {None}
  BY ContentTyped, FileParts DEF Shapes
<1>2. PICK pc \in {"gone", "upsert", "compare"},
           x \in Contents \cup {None} :
        /\ Step(f, pc, x)
        /\ \/ pc = "gone" /\ Content(f) = None
           \/ pc = "upsert" /\ Content(f) # None /\ f[2] = "index"
              /\ x = Content(f)
           \/ pc = "compare" /\ Content(f) # None /\ f[2] = "topic"
              /\ x = Content(f)
  BY <1>1 DEF Read, Kinds
<1>3. /\ TaskShape' /\ task'[f].pc = pc /\ task'[f].says = x
      /\ \A g \in Files \ {f} : task'[g] = task[g]
  BY <1>1, <1>2, StepShape
<1>4. /\ \A g \in Files : Content(g)' = Content(g)
      /\ UNCHANGED <<row, stored, found, dirty, failed>>
      /\ task[f].pc = "read"
  BY DEF Read, Content, rows
<1>5. Fresh'
  BY <1>2, <1>3, <1>4 DEF Fresh, Backed
<1>6. RowBacked' /\ StoredBacked'
  BY <1>2, <1>3, <1>4, RowFiles
     DEF RowBacked, StoredBacked, Pending, Backed, Shapes
<1>7. FoundTrue'
  BY <1>2, <1>3, <1>4, RowFiles DEF FoundTrue, Pending, Backed, Shapes
<1>. QED BY <1>3, <1>5, <1>6, <1>7 DEF Backed

\* The row that a document's task writes.
LEMMA UpsertShape ==
    ASSUME Shapes, NEW f \in Files, UpsertDocument(f)
    PROVE  /\ TaskShape' /\ task'[f].pc = "idle"
           /\ \A g \in Files \ {f} : task'[g] = task[g]
           /\ f = <<f[1], "index">> /\ f[1] \in Places
           /\ task[f].says \in Contents
           /\ row' = Row(task[f].says, f[1]) /\ row' \in RowsOf
           /\ row'.at = f[1]
<1>1. /\ TaskShape /\ task[f].says \in Contents /\ f[2] = "index"
  BY DEF Shapes, TaskShape, UpsertDocument
<1>2. f[1] \in Places /\ f = <<f[1], "index">>
  BY <1>1, FileParts
<1>. QED BY <1>1, <1>2, DoneShape, RowTyped DEF UpsertDocument

\* The document's row is of a file that is there, or has changed again.
LEMMA UpsertBacked ==
    ASSUME Shapes, Backed, NEW f \in Files, UpsertDocument(f)
    PROVE  Backed'
<1>1. /\ task'[f].pc = "idle" /\ task[f].pc = "upsert"
      /\ \A g \in Files \ {f} : task'[g] = task[g]
      /\ f = <<f[1], "index">> /\ f[1] \in Places
      /\ task[f].says \in Contents
      /\ row'.at = f[1]
  BY UpsertShape DEF UpsertDocument
<1>2. /\ \A g \in Files : Content(g)' = Content(g)
      /\ UNCHANGED <<stored, found, dirty, failed>>
  BY DEF UpsertDocument, Content
<1>3. Fresh'
  BY <1>1, <1>2 DEF Fresh, Backed
<1>4. RowBacked'
  BY <1>1, <1>2, NoneAssumption DEF RowBacked, Pending, Fresh, Backed
<1>5. StoredBacked' /\ FoundTrue'
  BY <1>1, <1>2, RowFiles
     DEF StoredBacked, FoundTrue, Pending, Backed, Shapes
<1>. QED BY <1>3, <1>4, <1>5 DEF Backed

\* What the comparison with the row that is found leads to.
LEMMA CompareShape ==
    ASSUME Shapes, NEW f \in Files, Compare(f)
    PROVE  /\ TaskShape' /\ f = <<f[1], "topic">> /\ f[1] \in Places
           /\ \A g \in Files \ {f} : task'[g] = task[g]
           /\ task[f].says \in Contents
           /\ \/ /\ task'[f].pc = "idle" /\ found # None
                 /\ task[f].says = Says(found.text, found.cat)
              \/ /\ task'[f].pc = "embed"
                 /\ task'[f].says = task[f].says
<1>1. /\ TaskShape /\ task[f].says \in Contents /\ f[2] = "topic"
  BY DEF Shapes, TaskShape, Compare
<1>2. f[1] \in Places /\ f = <<f[1], "topic">>
  BY <1>1, FileParts
<1>3. PICK x \in Contents : x = task[f].says
  BY <1>1
<1>4. x = Says(x.text, x.cat)
  BY <1>2, RowTyped
<1>5. CASE SameDigest(x)
  BY <1>1, <1>2, <1>3, <1>4, <1>5, DoneShape DEF SameDigest, Compare
<1>6. CASE ~SameDigest(x)
  <2>1. PICK pc \in {"embed"} : pc = "embed" /\ Step(f, pc, x)
    BY <1>3, <1>6 DEF Compare
  <2>. QED BY <1>1, <1>2, <1>3, <2>1, StepShape
<1>. QED BY <1>5, <1>6

\* A digest that is the same leaves a row that is true.
LEMMA CompareBacked ==
    ASSUME Shapes, Backed, NEW f \in Files, Compare(f)
    PROVE  Backed'
<1>1. /\ f = <<f[1], "topic">> /\ f[1] \in Places /\ task[f].pc = "compare"
      /\ \A g \in Files \ {f} : task'[g] = task[g]
      /\ task[f].says \in Contents
      /\ \/ /\ task'[f].pc = "idle" /\ found # None
            /\ task[f].says = Says(found.text, found.cat)
         \/ /\ task'[f].pc = "embed"
            /\ task'[f].says = task[f].says
  BY CompareShape DEF Compare
<1>2. /\ \A g \in Files : Content(g)' = Content(g)
      /\ UNCHANGED <<row, stored, found, dirty, failed>>
  BY DEF Compare, Content, rows
<1>3. Fresh'
  BY <1>1, <1>2 DEF Fresh, Backed
<1>4. RowBacked' /\ StoredBacked'
  BY <1>1, <1>2, RowFiles
     DEF RowBacked, StoredBacked, Pending, Backed, Shapes
<1>5. FoundTrue'
  BY <1>1, <1>2, RowFiles DEF FoundTrue, Fresh, Pending, Backed, Shapes
<1>. QED BY <1>3, <1>4, <1>5 DEF Backed

\* The rows that a topic's task writes.
LEMMA IndexShape ==
    ASSUME Shapes, NEW f \in Files, IndexTopic(f)
    PROVE  /\ TaskShape' /\ f = <<f[1], "topic">> /\ f[1] \in Places
           /\ \A g \in Files \ {f} : task'[g] = task[g]
           /\ task'[f].pc = "store" /\ task'[f].says = task[f].says
           /\ task[f].says \in Contents
           /\ found' = Row(task[f].says, f[1])
           /\ found' \in TopicRows /\ found' # None /\ found'.at = f[1]
           /\ task[f].says = Says(found'.text, found'.cat)
           /\ found'.cat = task[f].says.cat
<1>1. /\ TaskShape /\ task[f].says \in Contents /\ f[2] = "topic"
  BY DEF Shapes, TaskShape, IndexTopic
<1>2. f[1] \in Places /\ f = <<f[1], "topic">>
  BY <1>1, FileParts
<1>3. PICK pc \in {"store"}, x \in Contents :
        pc = "store" /\ x = task[f].says /\ Step(f, pc, x)
  BY <1>1 DEF IndexTopic
<1>4. /\ TaskShape' /\ task'[f].pc = pc /\ task'[f].says = x
      /\ \A g \in Files \ {f} : task'[g] = task[g]
  BY <1>1, <1>3, StepShape
<1>5. found' = Row(x, f[1])
  BY <1>3 DEF IndexTopic
<1>6. /\ Row(x, f[1]) \in TopicRows /\ Row(x, f[1]).at = f[1]
      /\ Row(x, f[1]) # None
      /\ Row(x, f[1]).text = x.text /\ Row(x, f[1]).cat = x.cat
      /\ x = Says(x.text, x.cat)
  BY <1>2, RowTyped
<1>. QED BY <1>1, <1>2, <1>3, <1>4, <1>5, <1>6

\* The row of the search index is true, or its file has changed again.
LEMMA IndexBacked ==
    ASSUME Shapes, Backed, NEW f \in Files, IndexTopic(f)
    PROVE  Backed'
<1>1. /\ f = <<f[1], "topic">> /\ f[1] \in Places /\ task[f].pc = "embed"
      /\ \A g \in Files \ {f} : task'[g] = task[g]
      /\ task'[f].pc = "store" /\ task'[f].says = task[f].says
      /\ found'.at = f[1] /\ task[f].says = Says(found'.text, found'.cat)
  BY IndexShape DEF IndexTopic
<1>2. /\ \A g \in Files : Content(g)' = Content(g)
      /\ UNCHANGED <<row, stored, dirty, failed>>
  BY DEF IndexTopic, Content
<1>3. Fresh'
  BY <1>1, <1>2 DEF Fresh, Backed
<1>4. RowBacked' /\ StoredBacked'
  BY <1>1, <1>2, RowFiles
     DEF RowBacked, StoredBacked, Pending, Backed, Shapes
<1>5. FoundTrue'
  BY <1>1, <1>2 DEF FoundTrue, Fresh, Pending, Backed
<1>. QED BY <1>3, <1>4, <1>5 DEF Backed

\* The row that a topic's task writes to SQLite.
LEMMA StoreShape ==
    ASSUME Shapes, NEW f \in Files, StoreTopic(f)
    PROVE  /\ TaskShape' /\ f = <<f[1], "topic">> /\ f[1] \in Places
           /\ \A g \in Files \ {f} : task'[g] = task[g]
           /\ task'[f].pc = "idle"
           /\ stored' = Row(task[f].says, f[1]) /\ stored' \in TopicRows
           /\ stored'.at = f[1] /\ task[f].says \in Contents
<1>1. /\ TaskShape /\ task[f].says \in Contents /\ f[2] = "topic"
  BY DEF Shapes, TaskShape, StoreTopic
<1>2. f[1] \in Places /\ f = <<f[1], "topic">>
  BY <1>1, FileParts
<1>. QED BY <1>1, <1>2, DoneShape, RowTyped DEF StoreTopic

\* The row in SQLite is of a file that is there, or has changed again.
LEMMA StoreBacked ==
    ASSUME Shapes, Backed, NEW f \in Files, StoreTopic(f)
    PROVE  Backed'
<1>1. /\ f = <<f[1], "topic">> /\ f[1] \in Places /\ task[f].pc = "store"
      /\ \A g \in Files \ {f} : task'[g] = task[g]
      /\ task'[f].pc = "idle" /\ task[f].says \in Contents
      /\ stored'.at = f[1]
  BY StoreShape DEF StoreTopic
<1>2. /\ \A g \in Files : Content(g)' = Content(g)
      /\ UNCHANGED <<row, found, dirty, failed>>
  BY DEF StoreTopic, Content
<1>3. Fresh'
  BY <1>1, <1>2 DEF Fresh, Backed
<1>4. StoredBacked'
  BY <1>1, <1>2, NoneAssumption DEF StoredBacked, Fresh, Pending, Backed
<1>5. RowBacked' /\ FoundTrue'
  BY <1>1, <1>2, RowFiles DEF RowBacked, FoundTrue, Pending, Backed, Shapes
<1>. QED BY <1>3, <1>4, <1>5 DEF Backed

\* A row that a deletion takes out.
LEMMA WithoutShape ==
    ASSUME NEW x, NEW p, NEW S
    PROVE  /\ Without(x, p) \in {x, None}
           /\ Without(x, p) # None => x.at # p /\ Without(x, p) = x
           /\ x.at # p => Without(x, p) = x
           /\ x \in S \cup {None} => Without(x, p) \in S \cup {None}
BY DEF Without

\* A deletion takes out the rows of its own path.
LEMMA GoneShape ==
    ASSUME Shapes, NEW f \in Files, Gone(f)
    PROVE  /\ TaskShape' /\ f[1] \in Places /\ f = <<f[1], f[2]>>
           /\ \A g \in Files \ {f} : task'[g] = task[g]
           /\ \/ /\ f[2] = "index" /\ task'[f].pc = "idle"
                 /\ row' = Without(row, f[1]) /\ found' = found
              \/ /\ f[2] = "topic" /\ task'[f].pc = "forget"
                 /\ found' = Without(found, f[1]) /\ row' = row
<1>1. /\ TaskShape /\ f[1] \in Places /\ f = <<f[1], f[2]>> /\ f[2] \in Kinds
  BY FileParts DEF Shapes
<1>2. CASE f[2] = "index"
  BY <1>1, <1>2, DoneShape DEF Gone
<1>3. CASE f[2] = "topic"
  <2>1. PICK pc \in {"forget"} : pc = "forget" /\ Step(f, pc, None)
    BY <1>3 DEF Gone
  <2>2. /\ found' = Without(found, f[1]) /\ row' = row
    BY <1>3 DEF Gone
  <2>. QED BY <1>1, <1>3, <2>1, <2>2, StepShape
<1>. QED BY <1>1, <1>2, <1>3 DEF Kinds

\* A row that is left has another path.
LEMMA GoneBacked ==
    ASSUME Shapes, Backed, NEW f \in Files, Gone(f)
    PROVE  Backed'
<1>1. /\ f[1] \in Places /\ f = <<f[1], f[2]>> /\ task[f].pc = "gone"
      /\ \A g \in Files \ {f} : task'[g] = task[g]
      /\ \/ /\ f[2] = "index" /\ task'[f].pc = "idle"
            /\ row' = Without(row, f[1]) /\ found' = found
         \/ /\ f[2] = "topic" /\ task'[f].pc = "forget"
            /\ found' = Without(found, f[1]) /\ row' = row
  BY GoneShape DEF Gone
<1>2. /\ \A g \in Files : Content(g)' = Content(g)
      /\ UNCHANGED <<stored, dirty, failed>>
  BY DEF Gone, Content
<1>3. Fresh'
  BY <1>1, <1>2 DEF Fresh, Backed
<1>4. RowBacked'
  BY <1>1, <1>2, RowFiles, WithoutShape
     DEF RowBacked, Pending, Backed, Shapes
<1>5. StoredBacked'
  BY <1>1, <1>2, RowFiles DEF StoredBacked, Pending, Backed, Shapes
<1>6. FoundTrue'
  BY <1>1, <1>2, RowFiles, WithoutShape
     DEF FoundTrue, Pending, Backed, Shapes
<1>. QED BY <1>3, <1>4, <1>5, <1>6 DEF Backed

\* The second half of a deletion takes out the row in SQLite.
LEMMA ForgetShape ==
    ASSUME Shapes, NEW f \in Files, Forget(f)
    PROVE  /\ TaskShape' /\ f = <<f[1], "topic">> /\ f[1] \in Places
           /\ \A g \in Files \ {f} : task'[g] = task[g]
           /\ task'[f].pc = "idle" /\ stored' = Without(stored, f[1])
<1>1. /\ TaskShape /\ f[2] = "topic"
  BY DEF Shapes, TaskShape, Forget
<1>2. f[1] \in Places /\ f = <<f[1], "topic">>
  BY <1>1, FileParts
<1>. QED BY <1>1, <1>2, DoneShape DEF Forget

\* A row in SQLite that is left has another path.
LEMMA ForgetBacked ==
    ASSUME Shapes, Backed, NEW f \in Files, Forget(f)
    PROVE  Backed'
<1>1. /\ f = <<f[1], "topic">> /\ f[1] \in Places /\ task[f].pc = "forget"
      /\ \A g \in Files \ {f} : task'[g] = task[g]
      /\ task'[f].pc = "idle" /\ stored' = Without(stored, f[1])
  BY ForgetShape DEF Forget
<1>2. /\ \A g \in Files : Content(g)' = Content(g)
      /\ UNCHANGED <<row, found, dirty, failed>>
  BY DEF Forget, Content
<1>3. Fresh'
  BY <1>1, <1>2 DEF Fresh, Backed
<1>4. StoredBacked'
  BY <1>1, <1>2, RowFiles, WithoutShape
     DEF StoredBacked, Pending, Backed, Shapes
<1>5. RowBacked' /\ FoundTrue'
  BY <1>1, <1>2, RowFiles DEF RowBacked, FoundTrue, Pending, Backed, Shapes
<1>. QED BY <1>3, <1>4, <1>5 DEF Backed

\* A task that fails leaves its file failed, or to be scanned again.
LEMMA FailsShape ==
    ASSUME Shapes, NEW f \in Files, TaskFails(f)
    PROVE  /\ TaskShape' /\ task'[f].pc = "idle"
           /\ \A g \in Files \ {f} : task'[g] = task[g]
           /\ \/ Content(f) = None /\ dirty' = dirty \cup {f}
                 /\ failed' = failed
              \/ Content(f) # None /\ failed' = failed \cup {f}
                 /\ dirty' = dirty
BY DoneShape DEF Shapes, TaskFails

\* A file whose task fails is pending.
LEMMA FailsBacked ==
    ASSUME Shapes, Backed, NEW f \in Files, TaskFails(f)
    PROVE  Backed'
<1>1. /\ task'[f].pc = "idle"
      /\ \A g \in Files \ {f} : task'[g] = task[g]
      /\ dirty \subseteq dirty' /\ failed \subseteq failed'
      /\ f \in dirty' \cup failed'
  BY FailsShape
<1>2. /\ \A g \in Files : Content(g)' = Content(g)
      /\ UNCHANGED <<row, stored, found>>
  BY DEF TaskFails, Content, rows
<1>3. Fresh'
  BY <1>1, <1>2 DEF Fresh, Backed
<1>4. RowBacked' /\ StoredBacked' /\ FoundTrue'
  BY <1>1, <1>2, RowFiles
     DEF RowBacked, StoredBacked, FoundTrue, Pending, Backed, Shapes
<1>. QED BY <1>3, <1>4 DEF Backed

\* Failed files become dirty.
LEMMA FixBacked ==
    ASSUME Shapes, Backed, Fix
    PROVE  Backed'
<1>1. /\ dirty' = dirty \cup failed /\ failed' = {}
      /\ \A g \in Files : Content(g)' = Content(g)
      /\ UNCHANGED <<row, stored, found, task>>
  BY DEF Fix, Content, rows
<1>2. Fresh'
  BY <1>1 DEF Fresh, Backed
<1>3. RowBacked' /\ StoredBacked' /\ FoundTrue'
  BY <1>1, RowFiles
     DEF RowBacked, StoredBacked, FoundTrue, Pending, Backed, Shapes
<1>. QED BY <1>2, <1>3 DEF Backed

\* A restart takes back every claim.
LEMMA StopShape ==
    ASSUME Shapes, Stop
    PROVE  /\ TaskShape' /\ \A g \in Files : task'[g].pc = "idle"
           /\ dirty' = dirty \cup {f \in Files : task[f].pc # "idle"}
           /\ call' = NoCall /\ CallShape'
<1>1. task' = [f \in Files |-> NoTask]
  BY DEF Stop
<1>2. NoTask \in Task /\ NoTask.pc = "idle"
  BY DEF NoTask, Task
<1>3. TaskShape' /\ \A g \in Files : task'[g].pc = "idle"
  BY <1>1, <1>2 DEF TaskShape
<1>. QED BY <1>3, ReturnsShape DEF Stop

\* A file whose claim is recovered is dirty.
LEMMA StopBacked ==
    ASSUME Shapes, Backed, Stop
    PROVE  Backed'
<1>1. /\ \A g \in Files : task'[g].pc = "idle"
      /\ dirty' = dirty \cup {f \in Files : task[f].pc # "idle"}
  BY StopShape
<1>2. /\ \A g \in Files : Content(g)' = Content(g)
      /\ UNCHANGED <<row, stored, found, failed>>
  BY DEF Stop, Content, rows
<1>3. Fresh'
  BY <1>1 DEF Fresh
<1>4. RowBacked' /\ StoredBacked' /\ FoundTrue'
  BY <1>1, <1>2, RowFiles
     DEF RowBacked, StoredBacked, FoundTrue, Pending, Backed, Shapes
<1>. QED BY <1>3, <1>4 DEF Backed

\* One step of the cascade; what it leaves alone is on disk and in the call.
TaskStep == \E f \in Files :
               \/ Read(f) \/ UpsertDocument(f) \/ Compare(f) \/ IndexTopic(f)
               \/ StoreTopic(f) \/ Gone(f) \/ Forget(f) \/ TaskFails(f)

\* A step of the cascade is a batch, a task, a fix or a stop.
LEMMA CascadeCases ==
    ASSUME CascadeStep
    PROVE  \/ \E S \in SUBSET dirty : Batch(S)
           \/ TaskStep \/ Fix \/ Stop
<1>1. ASSUME NEW P \in SUBSET {f[1] : f \in dirty},
             Batch({f \in dirty : f[1] \in P})
      PROVE  \E S \in SUBSET dirty : Batch(S)
  BY <1>1
<1>. QED BY <1>1 DEF CascadeStep, TaskStep

\* Each step of the cascade keeps the shapes and the rows backed.
LEMMA CascadeStepBacked ==
    ASSUME Shapes, Backed, CascadeStep
    PROVE  Shapes' /\ Backed'
<1>1. /\ RowShape /\ DiskShape /\ Headed /\ CallShape /\ TaskShape
      /\ dirty \subseteq Files /\ failed \subseteq Files
      /\ row \in RowsOf \cup {None} /\ found \in TopicRows \cup {None}
      /\ stored \in TopicRows \cup {None}
  BY DEF Shapes, RowShape, DiskShape
<1>2. ASSUME UNCHANGED <<dir, good, calls>>, dirty' \subseteq Files,
             clean' \in BOOLEAN, failed' \subseteq Files, TaskShape',
             RowShape', CallShape' \/ UNCHANGED call
      PROVE  Shapes'
  BY <1>1, <1>2 DEF Shapes, DiskShape, Headed, IsDir, CallShape, Dest
<1>3. ASSUME NEW S \in SUBSET dirty, Batch(S) PROVE Shapes' /\ Backed'
  BY <1>1, <1>2, <1>3, BatchBacked
     DEF Batch, history, rows, RowShape, Shapes
<1>4. ASSUME NEW f \in Files, Read(f) PROVE Shapes' /\ Backed'
  BY <1>1, <1>2, <1>4, ReadBacked DEF Read, history, rows, RowShape, Shapes
<1>5. ASSUME NEW f \in Files, UpsertDocument(f) PROVE Shapes' /\ Backed'
  BY <1>1, <1>2, <1>5, UpsertBacked, UpsertShape
     DEF UpsertDocument, history, RowShape, Shapes
<1>6. ASSUME NEW f \in Files, Compare(f) PROVE Shapes' /\ Backed'
  BY <1>1, <1>2, <1>6, CompareBacked, CompareShape
     DEF Compare, history, rows, RowShape, Shapes
<1>7. ASSUME NEW f \in Files, IndexTopic(f) PROVE Shapes' /\ Backed'
  BY <1>1, <1>2, <1>7, IndexBacked, IndexShape
     DEF IndexTopic, history, RowShape, Shapes
<1>8. ASSUME NEW f \in Files, StoreTopic(f) PROVE Shapes' /\ Backed'
  BY <1>1, <1>2, <1>8, StoreBacked, StoreShape
     DEF StoreTopic, history, RowShape, Shapes
<1>9. ASSUME NEW f \in Files, Gone(f) PROVE Shapes' /\ Backed'
  <2>1. RowShape'
    BY <1>1, <1>9, GoneShape, WithoutShape DEF Gone, RowShape
  <2>. QED BY <1>1, <1>2, <1>9, <2>1, GoneBacked, GoneShape
           DEF Gone, history, Shapes
<1>10. ASSUME NEW f \in Files, Forget(f) PROVE Shapes' /\ Backed'
  <2>1. RowShape'
    BY <1>1, <1>10, ForgetShape, WithoutShape DEF Forget, RowShape
  <2>. QED BY <1>1, <1>2, <1>10, <2>1, ForgetBacked, ForgetShape
           DEF Forget, history, Shapes
<1>11. ASSUME NEW f \in Files, TaskFails(f) PROVE Shapes' /\ Backed'
  <2>1. clean' \in BOOLEAN
    BY <1>11 DEF TaskFails, Fault
  <2>. QED BY <1>1, <1>2, <1>11, <2>1, FailsBacked, FailsShape
           DEF TaskFails, rows, RowShape
<1>12. CASE Fix
  <2>1. TaskShape' /\ RowShape' /\ dirty' \subseteq Files
    BY <1>1, <1>12 DEF Fix, rows, RowShape, TaskShape
  <2>. QED BY <1>1, <1>2, <1>12, <2>1, FixBacked DEF Fix, history, Shapes
<1>13. CASE Stop
  <2>1. clean' \in BOOLEAN
    BY <1>13 DEF Stop, Fault
  <2>. QED BY <1>1, <1>2, <1>13, <2>1, StopBacked, StopShape
           DEF Stop, rows, RowShape
<1>. QED BY <1>3, <1>4, <1>5, <1>6, <1>7, <1>8, <1>9, <1>10, <1>11, <1>12,
            <1>13, CascadeCases DEF TaskStep

\* Each step does.
LEMMA StepBacked ==
    ASSUME Shapes, Backed, [Next]_vars
    PROVE  Shapes' /\ Backed'
<1>1. CASE CallStep
  <2>1. /\ Changes /\ Headed' /\ CallShape'
        /\ UNCHANGED <<stored, found, failed, task>>
        /\ PatchRow \/ UNCHANGED row
        /\ good' \in Texts \cup {None} /\ clean' \in BOOLEAN
        /\ calls' \in Nat
    BY <1>1, CallStepShape
  <2>2. row' \in RowsOf \cup {None}
    BY <2>1, PatchRowShape DEF Shapes, RowShape
  <2>. QED BY <2>1, <2>2, ChangesBacked
           DEF Shapes, RowShape, TaskShape, Changes
<1>2. CASE CascadeStep
  BY <1>2, CascadeStepBacked
<1>3. CASE UNCHANGED vars
  <2>1. Shapes'
    BY <1>3 DEF vars, Shapes, DiskShape, Headed, CallShape, TaskShape,
                RowShape, IsDir, Dest
  <2>2. \A f \in Files : Content(f)' = Content(f)
    BY <1>3 DEF vars, Content
  <2>3. Backed'
    BY <1>3, <2>2, RowFiles DEF vars, Shapes, Backed, Fresh, RowBacked,
       StoredBacked, FoundTrue, Pending
  <2>. QED BY <2>1, <2>3
<1>. QED BY <1>1, <1>2, <1>3 DEF Next

\* At the beginning there is nothing to back.
LEMMA InitBacked ==
    ASSUME Init
    PROVE  Shapes /\ Backed
<1>1. /\ dir \in [Places -> Dir] /\ \A p \in Places : dir[p] = NoDir
  BY NoDirTyped DEF Init
<1>2. DiskShape /\ Headed
  BY <1>1, NoDirTyped DEF Init, DiskShape, Headed, IsDir
<1>3. CallShape
  BY NoCallTyped DEF Init, CallShape, Replacing, Patching
<1>4. /\ TaskShape /\ \A f \in Files : task[f].pc = "idle"
  <2>1. NoTask \in Task /\ NoTask.pc = "idle"
    BY DEF NoTask, Task
  <2>. QED BY <2>1 DEF Init, TaskShape
<1>5. Shapes
  BY <1>2, <1>3, <1>4 DEF Init, Shapes, RowShape
<1>6. Backed
  BY <1>4 DEF Init, Backed, Fresh, RowBacked, StoredBacked, FoundTrue
<1>. QED BY <1>5, <1>6

\* Types of the files, the rows and the queue.
THEOREM TypeCorrect == Spec => []TypeOK
<1>1. Init => Shapes /\ Backed
  BY InitBacked
<1>2. Shapes /\ Backed /\ [Next]_vars => Shapes' /\ Backed'
  BY StepBacked
<1>3. Shapes => TypeOK
  <2>1. TopicRows \subseteq RowsOf
    BY DEF TopicRows, RowsOf
  <2>. QED BY <2>1 DEF Shapes, DiskShape, RowShape, TypeOK, Dir, Inner
<1>. QED BY <1>1, <1>2, <1>3, PTL DEF Spec

\* A call or the queue at rest: what the properties are about.
LEMMA AtRest ==
    ASSUME Quiet
    PROVE  /\ \A f \in Files : ~Pending(f) /\ task[f].pc = "idle"
           /\ call = NoCall
BY DEF Quiet, Settled, Pending

\* No row of either store is of a file that does not exist, once all is
\* processed.
THEOREM RowsHaveFiles == Spec => []NoGhosts
<1>1. Init => Shapes /\ Backed
  BY InitBacked
<1>2. Shapes /\ Backed /\ [Next]_vars => Shapes' /\ Backed'
  BY StepBacked
<1>3. Shapes /\ Backed => NoGhosts
  <2>. SUFFICES ASSUME Shapes, Backed, Quiet
                PROVE  /\ row # None => Content(<<row.at, "index">>) # None
                       /\ found # None => Content(<<found.at, "topic">>) # None
                       /\ stored # None =>
                            Content(<<stored.at, "topic">>) # None
    BY DEF NoGhosts
  <2>1. /\ row # None => Content(<<row.at, "index">>) # None
        /\ stored # None => Content(<<stored.at, "topic">>) # None
    BY AtRest, RowFiles DEF Shapes, Backed, RowBacked, StoredBacked
  <2>2. ASSUME found # None PROVE Content(<<found.at, "topic">>) # None
    <3>1. Content(<<found.at, "topic">>) = Says(found.text, found.cat)
      BY <2>2, AtRest, RowFiles DEF Shapes, Backed, FoundTrue
    <3>2. found.text \in Texts /\ found.cat \in Categories
      BY <2>2 DEF Shapes, RowShape, TopicRows
    <3>. QED BY <3>1, <3>2, SaysTyped
  <2>. QED BY <2>1, <2>2
<1>. QED BY <1>1, <1>2, <1>3, PTL DEF Spec

\* The search index says what the file says, once all is processed.
THEOREM FoundIsTrue == Spec => []Truthful
<1>1. Init => Shapes /\ Backed
  BY InitBacked
<1>2. Shapes /\ Backed /\ [Next]_vars => Shapes' /\ Backed'
  BY StepBacked
<1>3. Shapes /\ Backed => Truthful
  BY AtRest, RowFiles DEF Shapes, Backed, FoundTrue, Truthful
<1>. QED BY <1>1, <1>2, <1>3, PTL DEF Spec

-----------------------------------------------------------------------------
(* What an acknowledged call left is kept.                                 *)

\* A text is whole in a directory, or in one that was moved into it.
Has(p, t) == \/ \E e \in dir[p].inner : e[2] = t
             \/ Whole(p, t)

\* A directory has a document when one that is kept in it is of that text.
LEMMA HasIsKept ==
    ASSUME NEW p \in Places, NEW t \in Texts
    PROVE  /\ (\E e \in Kept(p) : e[2] = t) => Has(p, t)
           /\ Has(p, t) => \E e \in Kept(p) : e[2] = t
           /\ Has(p, t)' => \E e \in Kept(p)' : e[2] = t
<1>1. Kept(p) = dir[p].inner
                  \cup {<<p[2], u>> : u \in {v \in Texts : Whole(p, v)}}
  BY DEF Kept
<1>2. ASSUME NEW e \in Kept(p), e[2] = t PROVE Has(p, t)
  BY <1>1, <1>2 DEF Has
<1>3. ASSUME Has(p, t) PROVE \E e \in Kept(p) : e[2] = t
  <2>1. CASE Whole(p, t)
    <3>1. <<p[2], t>> \in Kept(p) /\ <<p[2], t>>[2] = t
      BY <1>1, <2>1
    <3>. QED BY <3>1
  <2>2. CASE \E e \in dir[p].inner : e[2] = t
    BY <1>1, <2>2
  <2>. QED BY <1>3, <2>1, <2>2 DEF Has
<1>4. ASSUME Has(p, t)' PROVE \E e \in Kept(p)' : e[2] = t
  <2>1. Kept(p)' = dir'[p].inner
                     \cup {<<p[2], u>> : u \in {v \in Texts : Whole(p, v)'}}
    BY DEF Kept
  <2>2. CASE Whole(p, t)'
    <3>1. <<p[2], t>> \in Kept(p)' /\ <<p[2], t>>[2] = t
      BY <2>1, <2>2
    <3>. QED BY <3>1
  <2>3. CASE \E e \in dir'[p].inner : e[2] = t
    BY <2>1, <2>3
  <2>. QED BY <1>4, <2>2, <2>3 DEF Has
<1>. QED BY <1>2, <1>3, <1>4

\* Nothing is in a directory that is not there.
LEMMA HasDir ==
    ASSUME DiskShape, NEW p \in Places, NEW t \in Texts, Has(p, t)
    PROVE  IsDir(p)
BY DirParts DEF Has, Whole

\* A move takes the documents with it.
LEMMA MovesKeep ==
    ASSUME DiskShape, NEW src \in Places, NEW dst \in Places, src # dst,
           IsDir(src), Moves(src, dst), NEW t \in Texts,
           NEW p \in Places, Has(p, t)
    PROVE  \E q \in Places : Has(q, t)'
<1>1. /\ dir'[src] = NoDir
      /\ ~IsDir(dst) => dir'[dst] = dir[src]
      /\ IsDir(dst) => /\ dir'[dst].index = dir[dst].index
                       /\ dir'[dst].topic = dir[dst].topic
                       /\ dir'[dst].inner = dir[dst].inner \cup Carried(src)
      /\ \A q \in Places \ {src, dst} : dir'[q] = dir[q]
  BY MovesShape
<1>2. CASE p \notin {src, dst}
  <2>1. Has(p, t)'
    BY <1>1, <1>2 DEF Has, Whole
  <2>. QED BY <2>1
<1>3. CASE p = src /\ ~IsDir(dst)
  <2>1. Has(dst, t)'
    BY <1>1, <1>3 DEF Has, Whole
  <2>. QED BY <2>1
<1>4. CASE p = src /\ IsDir(dst)
  <2>1. PICK e \in Kept(src) : e[2] = t
    BY <1>4, HasIsKept
  <2>2. <<src[2], e[2]>> \in dir'[dst].inner /\ <<src[2], e[2]>>[2] = t
    BY <1>1, <1>4, <2>1 DEF Carried
  <2>3. Has(dst, t)'
    BY <2>2 DEF Has
  <2>. QED BY <2>3
<1>5. CASE p = dst
  <2>1. IsDir(dst)
    BY <1>5, HasDir
  <2>2. Has(dst, t)'
    BY <1>1, <1>5, <2>1 DEF Has, Whole
  <2>. QED BY <2>2
<1>. QED BY <1>2, <1>3, <1>4, <1>5

\* So does a removal of another directory.
LEMMA RemovesKeep ==
    ASSUME DiskShape, NEW p \in Places, Removes(p), NEW t \in Texts,
           NEW q \in Places, q # p, Has(q, t)
    PROVE  Has(q, t)'
<1>1. dir'[q] = dir[q]
  BY RemovesShape
<1>. QED BY <1>1 DEF Has, Whole

\* How far a writer is.
Aside ==
    /\ call.op = "create" => call.old = None
    /\ call.pc = "extract" /\ Dest = call.old => ~IsDir(Dest)
    /\ call.pc = "index" => ~IsDir(Dest)
    /\ call.pc \in {"topic", "written"} =>
         dir[Dest].index = Says(call.text, call.cat)
    /\ call.pc = "topic" => dir[Dest].topic = None /\ dir[Dest].inner = {}
    /\ call.pc = "written" => dir[Dest].topic = Says(call.text, call.cat)

\* A call that ends, or is none of a writer, is nowhere in a directory.
LEMMA AsideEnds ==
    ASSUME call' = NoCall \/ call'.pc \in {"restore", "remove"} \cup Patching,
           call'.op = "create" => call'.old = None
    PROVE  Aside'
<1>1. call'.pc \notin {"extract", "index", "topic", "written"}
  BY NoCallTyped DEF Patching
<1>2. call'.op = "create" => call'.old = None
  BY NoCallTyped
<1>. QED BY <1>1, <1>2 DEF Aside

\* A writer writes what the call brought.
LEMMA AsideStep ==
    ASSUME Shapes, Aside, CallStep
    PROVE  Aside'
<1>1. /\ DiskShape /\ Headed /\ CallShape /\ call \in Call
      /\ row \in RowsOf \cup {None}
  BY DEF Shapes, CallShape, RowShape
<1>2. ASSUME NEW c \in Categories, NEW t \in Texts, Create(t, c) PROVE Aside'
  <2>1. /\ CallShape' /\ call'.op = "create" /\ call'.pc = "extract"
        /\ call'.old = None
    BY <1>2, BeginShapes, CallStepShape
  <2>2. call'.cat = c
    BY <1>2, BeginShapes
  <2>3. Dest' \in Places
    BY <2>2, PlaceParts, KnowledgeAssumption DEF Dest
  <2>. QED BY <2>1, <2>3, NoneAssumption DEF Aside
<1>3. ASSUME NEW c \in Categories, NEW t \in Texts, Replace(t, c) PROVE Aside'
  <2>1. row \in RowsOf /\ dir' = dir
    BY <1>1, <1>3 DEF Replace
  <2>2. /\ call'.op = "replace" /\ call'.old = row.at
        /\ call'.pc = IF IsDir(row.at) THEN "backup" ELSE "extract"
    BY <1>3, <2>1, BeginShapes
  <2>. QED BY <2>1, <2>2 DEF Aside, IsDir
<1>4. CASE Delete
  <2>1. row \in RowsOf
    BY <1>1, <1>4 DEF Delete
  <2>2. call'.op = "delete" /\ call'.pc = "remove"
    BY <1>4, <2>1, BeginShapes
  <2>. QED BY <2>2, AsideEnds
<1>5. ASSUME NEW c \in Categories, Patch(c) PROVE Aside'
  <2>1. call'.op = "patch" /\ call'.pc = "front"
    BY <1>5, PatchShape
  <2>. QED BY <2>1, AsideEnds DEF Patching
<1>6. CASE BackUp
  <2>1. CASE call' = NoCall
    BY <2>1, NoCallTyped, AsideEnds
  <2>2. CASE /\ IsDir(call.old) /\ Moves(call.old, Backup(call.old))
             /\ call'.pc = "extract" /\ call'.op = call.op
             /\ call'.cat = call.cat /\ call'.old = call.old
    <3>1. Deep(call.old) /\ call.old \in Places
      BY <1>6, BackUpShape DEF Deep
    <3>2. ~dir'[call.old].made
      BY <1>1, <2>2, <3>1, BackupApart, MovesShape, NoDirTyped
    <3>3. Dest' = Dest
      BY <2>2 DEF Dest
    <3>. QED BY <2>2, <3>2, <3>3 DEF Aside, IsDir
  <2>. QED BY <1>6, <2>1, <2>2, BackUpShape
<1>7. CASE Clear \/ WriteIndex \/ WriteTopic
  <2>1. /\ Dest \in Places /\ Says(call.text, call.cat) \in Contents
        /\ call'.op = call.op /\ call'.text = call.text
        /\ call'.cat = call.cat /\ call'.old = call.old
        /\ Dest' = Dest
        /\ Clear => call'.pc = "index"
        /\ WriteIndex => call'.pc = "topic"
        /\ WriteTopic => call'.pc = "written"
    BY <1>7, WriterShape
  <2>2. CASE Clear
    <3>1. ~dir'[Dest].made
      BY <1>1, <2>1, <2>2, RemovesShape, NoDirTyped DEF Clear
    <3>. QED BY <2>1, <2>2, <3>1 DEF Aside, IsDir
  <2>3. CASE WriteIndex
    <3>1. dir[Dest].topic = None /\ dir[Dest].inner = {}
      BY <1>1, <2>1, <2>3, DirParts DEF Aside, WriteIndex
    <3>2. /\ dir'[Dest].index = Says(call.text, call.cat)
          /\ dir'[Dest].topic = None /\ dir'[Dest].inner = {}
      BY <1>1, <2>1, <2>3, <3>1, WritesShape DEF WriteIndex, Kinds
    <3>. QED BY <2>1, <2>3, <3>2 DEF Aside
  <2>4. CASE WriteTopic
    <3>1. /\ dir'[Dest].topic = Says(call.text, call.cat)
          /\ dir'[Dest].index = dir[Dest].index
      BY <1>1, <2>1, <2>4, WritesShape DEF WriteTopic, Kinds
    <3>2. dir[Dest].index = Says(call.text, call.cat)
      BY <2>4 DEF Aside, WriteTopic
    <3>. QED BY <2>1, <2>4, <3>1, <3>2 DEF Aside
  <2>. QED BY <1>7, <2>2, <2>3, <2>4
<1>8. CASE Raises
  <2>1. CASE call' = NoCall
    BY <2>1, NoCallTyped, AsideEnds
  <2>2. CASE call'.pc = "restore" /\ call'.op = call.op
    <3>1. Goes("restore")
      BY <1>8, <2>2, NoCallTyped DEF Raises, Returns
    <3>2. call'.old = call.old
      BY <1>1, <3>1, GoesShape
    <3>. QED BY <2>2, <3>2, AsideEnds DEF Aside
  <2>. QED BY <1>8, <2>1, <2>2, RaisesShape
<1>9. CASE Restore \/ Acknowledged \/ Remove \/ PatchRow \/ PatchRaises
  <2>1. call' = NoCall
    BY <1>9 DEF Restore, Acknowledged, Remove, PatchRow, PatchRaises, Returns
  <2>. QED BY <2>1, NoCallTyped, AsideEnds
<1>10. CASE Front \/ Move \/ Topics
  <2>1. call.op = "patch"
    BY <1>1, <1>10 DEF Front, Move, Topics, CallShape, Patching
  <2>2. \/ call' = NoCall
        \/ /\ call'.op = "patch" /\ call'.pc \in Patching
    BY <1>10, <2>1, FrontShape, MoveShape, TopicsShape DEF Patching
  <2>. QED BY <2>2, NoCallTyped, AsideEnds
<1>. QED BY <1>2, <1>3, <1>4, <1>5, <1>6, <1>7, <1>8, <1>9, <1>10 DEF CallStep

\* Whatever a step of a call does, the document that was acknowledged is
\* somewhere.
LEMMA KeepStep ==
    ASSUME Shapes, Aside, NeverLost, CallStep
    PROVE  NeverLost'
<1>1. /\ DiskShape /\ Headed /\ CallShape /\ call \in Call
      /\ good \in Texts \cup {None}
  BY DEF Shapes, CallShape
<1>2. SUFFICES ASSUME NEW t \in Texts, t = good', ~spilt'
               PROVE  \E p \in Places : Has(p, t)'
  <2>1. SUFFICES ASSUME good' # None, ~spilt'
                 PROVE  \E p \in Places : \E e \in Kept(p)' : e[2] = good'
    BY DEF NeverLost
  <2>2. good' \in Texts
    BY <2>1, CallStepShape
  <2>3. PICK t \in Texts : t = good'
    BY <2>2
  <2>4. \E p \in Places : Has(p, t)'
    BY <1>2, <2>1, <2>3
  <2>. QED BY <2>3, <2>4, HasIsKept
<1>3. ASSUME good' = good, ~spilt
      PROVE  \E p \in Places : Has(p, t)
  <2>1. good = t /\ good # None
    BY <1>2, <1>3, KnowledgeAssumption
  <2>2. PICK p \in Places : \E e \in Kept(p) : e[2] = t
    BY <1>3, <2>1 DEF NeverLost
  <2>3. Has(p, t)
    BY <2>2, HasIsKept
  <2>. QED BY <2>3
<1>5. ASSUME UNCHANGED <<dir, good, spilt>>
      PROVE  \E p \in Places : Has(p, t)'
  BY <1>2, <1>3, <1>5 DEF Has, Whole
<1>6. CASE BackUp \/ Restore \/ Move
  <2>1. UNCHANGED <<good, spilt>>
    BY <1>6 DEF BackUp, Restore, Move, history
  <2>2. \/ UNCHANGED dir
        \/ \E src, dst \in Places : /\ src # dst /\ IsDir(src)
                                    /\ Moves(src, dst)
    <3>1. CASE BackUp
      BY <3>1, BackUpShape, BackupApart DEF Deep
    <3>2. CASE Restore
      BY <3>2, RestoreShape, BackupApart DEF Deep
    <3>3. CASE Move
      BY <3>3, MoveShape
    <3>. QED BY <1>6, <3>1, <3>2, <3>3
  <2>3. CASE UNCHANGED dir
    BY <1>5, <2>1, <2>3
  <2>4. ASSUME NEW src \in Places, NEW dst \in Places, src # dst, IsDir(src),
               Moves(src, dst)
        PROVE  \E p \in Places : Has(p, t)'
    <3>1. PICK p \in Places : Has(p, t)
      BY <1>2, <1>3, <2>1
    <3>. QED BY <1>1, <2>4, <3>1, MovesKeep
  <2>. QED BY <2>2, <2>3, <2>4
<1>7. CASE Clear
  <2>1. /\ good' = good /\ Removes(Dest) /\ call.pc = "extract"
        /\ spilt' = (spilt \/ (IsDir(Dest) /\ Dest # call.old))
    BY <1>7 DEF Clear
  <2>2. ~spilt /\ ~(IsDir(Dest) /\ Dest # call.old)
    BY <1>2, <2>1
  <2>3. ~IsDir(Dest) /\ Dest \in Places
    BY <1>7, <2>1, <2>2, WriterShape DEF Aside
  <2>4. PICK p \in Places : Has(p, t)
    BY <1>3, <2>1, <2>2
  <2>5. p # Dest
    BY <1>1, <2>1, <2>3, <2>4, HasDir
  <2>6. Has(p, t)'
    BY <1>1, <2>1, <2>3, <2>4, <2>5, RemovesKeep
  <2>. QED BY <2>6
<1>8. CASE WriteIndex \/ WriteTopic
  <2>1. /\ Dest \in Places /\ Says(call.text, call.cat) \in Contents
        /\ UNCHANGED <<good, spilt>>
    BY <1>8, WriterShape DEF WriteIndex, WriteTopic, history
  <2>2. PICK p \in Places : Has(p, t)
    BY <1>2, <1>3, <2>1
  <2>3. dir[Dest].topic = None /\ dir[Dest].inner = {}
    BY <1>1, <1>8, <2>1, DirParts DEF Aside, WriteIndex, WriteTopic
  <2>4. p # Dest
    BY <2>2, <2>3 DEF Has, Whole
  <2>5. dir'[p] = dir[p]
    BY <1>1, <1>8, <2>1, <2>4, WritesShape
       DEF WriteIndex, WriteTopic, Kinds
  <2>6. Has(p, t)'
    BY <2>2, <2>5 DEF Has, Whole
  <2>. QED BY <2>6
<1>9. CASE Acknowledged
  <2>1. /\ call.text \in Texts /\ call.cat \in Categories /\ Dest \in Places
        /\ \/ UNCHANGED dir
           \/ call.backup \in Places /\ call.backup # Dest
              /\ Removes(call.backup)
        /\ good' = call.text /\ call.pc = "written"
    BY <1>1, <1>9, AcknowledgedShape DEF Acknowledged, CallShape, Replacing
  <2>2. /\ dir[Dest].index = Says(call.text, call.cat)
        /\ dir[Dest].topic = Says(call.text, call.cat)
    BY <2>1 DEF Aside
  <2>3. dir'[Dest] = dir[Dest]
    BY <1>1, <2>1, RemovesShape
  <2>4. /\ Says(call.text, call.cat) # None
        /\ Says(call.text, call.cat).text = t
    BY <1>2, <2>1, SaysTyped
  <2>5. PICK p \in Places : p = Dest
    BY <2>1
  <2>6. Has(p, t)'
    BY <2>2, <2>3, <2>4, <2>5 DEF Has, Whole
  <2>. QED BY <2>6
<1>10. CASE Remove
  BY <1>2, <1>10, KnowledgeAssumption DEF Remove
<1>11. CASE Front \/ Topics
  <2>1. UNCHANGED <<good, spilt>>
    BY <1>11 DEF Front, Topics, history
  <2>2. \/ UNCHANGED dir
        \/ /\ call.old \in Places
           /\ dir'[call.old].inner = dir[call.old].inner
           /\ dir[call.old].index # None /\ dir[call.old].topic # None =>
                /\ dir'[call.old].index # None
                /\ dir'[call.old].index.text = dir[call.old].index.text
                /\ dir'[call.old].topic # None
                /\ dir'[call.old].topic.text = dir[call.old].topic.text
           /\ \A q \in Places \ {call.old} : dir'[q] = dir[q]
    <3>1. CASE Front
      <4>1. CASE UNCHANGED <<dir, dirty>>
        BY <4>1
      <4>2. CASE /\ dir[call.old].index \in Contents
                 /\ Writes(call.old, "index",
                           [dir[call.old].index EXCEPT !.cat = call.cat])
        <5>1. PICK x \in Contents :
                /\ x = [dir[call.old].index EXCEPT !.cat = call.cat]
                /\ x # None /\ x.text = dir[call.old].index.text
          BY <3>1, <4>2, FrontShape, NewCategory
        <5>2. Writes(call.old, "index", x) /\ call.old \in Places
          BY <3>1, <4>2, <5>1, FrontShape
        <5>3. /\ dir'[call.old].index = x
              /\ dir'[call.old].topic = dir[call.old].topic
              /\ dir'[call.old].inner = dir[call.old].inner
              /\ \A q \in Places \ {call.old} : dir'[q] = dir[q]
          BY <1>1, <5>2, WritesShape DEF Kinds
        <5>. QED BY <5>1, <5>2, <5>3
      <4>. QED BY <3>1, <4>1, <4>2, FrontShape
    <3>2. CASE Topics
      <4>1. CASE UNCHANGED <<dir, dirty>>
        BY <4>1
      <4>2. ASSUME NEW x \in Contents, Writes(call.old, "topic", x),
                   x.text = dir[call.old].topic.text
            PROVE  /\ call.old \in Places
                   /\ dir'[call.old].inner = dir[call.old].inner
                   /\ dir'[call.old].index = dir[call.old].index
                   /\ dir'[call.old].topic = x /\ x # None
                   /\ \A q \in Places \ {call.old} : dir'[q] = dir[q]
        BY <1>1, <3>2, <4>2, TopicsShape, WritesShape, NoneAssumption
           DEF Kinds
      <4>. QED BY <3>2, <4>1, <4>2, TopicsShape
    <3>. QED BY <1>11, <3>1, <3>2
  <2>3. PICK p \in Places : Has(p, t)
    BY <1>2, <1>3, <2>1
  <2>4. Has(p, t)'
    BY <2>1, <2>2, <2>3 DEF Has, Whole
  <2>. QED BY <2>4
<1>12. ASSUME NEW c \in Categories,
              Patch(c) \/ \E u \in Texts : Create(u, c) \/ Replace(u, c)
       PROVE  UNCHANGED <<dir, good, spilt>>
  BY <1>12 DEF Patch, Create, Replace
<1>13. CASE Delete \/ Raises \/ PatchRow \/ PatchRaises
  <2>1. UNCHANGED <<dir, good, spilt>>
    BY <1>13 DEF Delete, Raises, PatchRow, PatchRaises, history
  <2>. QED BY <1>5, <2>1
<1>. QED BY <1>5, <1>6, <1>7, <1>8, <1>9, <1>10, <1>11, <1>12, <1>13
         DEF CallStep

\* The cascade leaves the files alone.
LEMMA CascadeLeaves ==
    ASSUME Shapes, CascadeStep
    PROVE  /\ UNCHANGED <<dir, good, spilt, calls>>
           /\ call' = NoCall \/ call' = call
<1>1. ASSUME NEW S \in SUBSET dirty, Batch(S)
      PROVE  UNCHANGED <<dir, good, spilt, calls, call>>
  BY <1>1 DEF Batch, history
<1>2. ASSUME NEW f \in Files, Read(f) \/ Compare(f) \/ TaskFails(f)
      PROVE  UNCHANGED <<dir, good, spilt, calls, call>>
  BY <1>2 DEF Read, Compare, TaskFails, history
<1>3. ASSUME NEW f \in Files,
             UpsertDocument(f) \/ IndexTopic(f) \/ StoreTopic(f)
      PROVE  UNCHANGED <<dir, good, spilt, calls, call>>
  BY <1>3 DEF UpsertDocument, IndexTopic, StoreTopic, history
<1>4. ASSUME NEW f \in Files, Gone(f) \/ Forget(f)
      PROVE  UNCHANGED <<dir, good, spilt, calls, call>>
  BY <1>4 DEF Gone, Forget, history
<1>5. CASE Fix
  BY <1>5 DEF Fix, history
<1>6. CASE Stop
  BY <1>6, ReturnsShape DEF Stop
<1>. QED BY <1>1, <1>2, <1>3, <1>4, <1>5, <1>6, CascadeCases DEF TaskStep

\* What the last acknowledged call left is whole in some directory, whatever
\* stops or raises, as long as no writer has cleared another directory than
\* the one backed up.
THEOREM DocumentsAreKept == Spec => []NeverLost
<1>. DEFINE I == Shapes /\ Backed /\ Aside /\ NeverLost
<1>1. Init => I
  <2>1. Init => Aside
    BY NoCallTyped DEF Init, Aside
  <2>2. Init => NeverLost
    BY DEF Init, NeverLost
  <2>. QED BY <2>1, <2>2, InitBacked
<1>2. I /\ [Next]_vars => I'
  <2>. SUFFICES ASSUME I, [Next]_vars PROVE I'
    OBVIOUS
  <2>1. Shapes' /\ Backed'
    BY StepBacked
  <2>2. CASE CallStep
    BY <2>1, <2>2, AsideStep, KeepStep
  <2>3. CASE CascadeStep
    <3>1. /\ UNCHANGED <<dir, good, spilt, calls>>
          /\ call' = NoCall \/ call' = call
      BY <2>3, CascadeLeaves
    <3>2. Aside'
      BY <3>1, NoCallTyped DEF Aside, IsDir, Dest
    <3>3. NeverLost'
      BY <3>1 DEF NeverLost, Kept, Whole
    <3>. QED BY <2>1, <3>2, <3>3
  <2>4. CASE UNCHANGED vars
    <3>1. Aside' /\ NeverLost'
      BY <2>4 DEF vars, Aside, IsDir, Dest, NeverLost, Kept, Whole
    <3>. QED BY <2>1, <3>1
  <2>. QED BY <2>2, <2>3, <2>4 DEF Next
<1>. QED BY <1>1, <1>2, PTL DEF Spec

-----------------------------------------------------------------------------
(* Findable.  Without a replacement and without a fault there is at most   *)
(* one directory, and the cascade is at rest whenever a call begins.       *)

\* The one directory, and what its files say of its category.
Placed ==
    /\ \A p, q \in Places : IsDir(p) /\ IsDir(q) => p = q
    /\ calls = 0 => call = NoCall /\ \A p \in Places : ~IsDir(p)
    /\ call.pc # "backup" /\ call.backup = None
    /\ call.pc \in {"extract", "index"} => \A p \in Places : ~IsDir(p)
    /\ call.pc = "topic" =>
         \A p \in Places : IsDir(p) => p = Dest /\ dir[p].topic = None
    /\ \A p \in Places :
         dir[p].topic # None =>
           /\ call.pc = "topics" => dir[p].topic.cat # call.cat
           /\ call.pc # "topics" => dir[p].topic.cat = p[1]
    /\ \A p \in Places :
         dir[p].index # None /\ call.pc # "move" => dir[p].index.cat = p[1]

\* What a patch knows of the document.
Patched ==
    /\ call.pc \in Patching =>
         /\ dir[call.old].index # None
         /\ call.text.text = dir[call.old].index.text
    /\ call.pc \in {"front", "move"} => call.text.cat = call.old[1]
    /\ call.pc = "move" => Moving
    /\ call.pc \in {"move", "topics", "row"} =>
         dir[call.old].index.cat = call.cat
    /\ call.pc \in {"topics", "row"} => call.old[1] = call.cat

\* The document's row.
Reading(p) == task[<<p, "index">>].pc \in {"read", "upsert"}

DocumentRow ==
    /\ \A p, q \in Places :
         Reading(q) /\ dir[q].index = None /\ dir[p].index # None =>
           <<p, "index">> \in dirty
    /\ \A p \in Places :
         dir[p].index # None =>
           \/ row = Row(dir[p].index, p)
           \/ <<p, "index">> \in dirty
           \/ Reading(p)

\* The topic's rows.
Topic(p) == <<p, "topic">>

TopicTasks ==
    /\ call.pc \in {"extract", "index", "topic", "remove", "front", "move"} =>
         \A p \in Places : Topic(p) \notin dirty /\ task[Topic(p)].pc = "idle"
    /\ call.pc \in {"extract", "index", "topic"} => found = None
    /\ \A p \in Places :
         /\ task[Topic(p)].pc \in {"read", "compare", "embed", "store"} =>
              dir[p].topic # None
         /\ task[Topic(p)].pc \in {"gone", "forget"} => dir[p].topic = None
         /\ task[Topic(p)].pc = "store" =>
              found = Row(task[Topic(p)].says, p)

TopicRow ==
    \A p \in Places :
      dir[p].topic # None =>
        /\ found # None /\ found.at # p => found.cat # p[1]
        /\ \/ found = Row(dir[p].topic, p)
           \/ Topic(p) \in dirty
           \/ task[Topic(p)].pc \in {"read", "compare", "embed"}
           \/ call.pc = "topics"
        /\ found # None /\ found.at = p =>
             stored = found \/ task[Topic(p)].pc = "store"

Tidy == clean => /\ failed = {}
                 /\ Placed /\ Patched /\ DocumentRow /\ TopicTasks /\ TopicRow

\* A directory is there when its index.md is.
LEMMA IndexIsDir ==
    ASSUME Shapes
    PROVE  \A p \in Places : /\ IsDir(p) => dir[p].index # None
                             /\ dir[p].index # None => IsDir(p)
                             /\ dir[p].topic # None => IsDir(p)
BY DirParts DEF Shapes, Headed

\* Files of the topics, in the terms of the invariant.
LEMMA TopicContent ==
    \A p \in Places : Topic(p) \in Files /\ Content(Topic(p)) = dir[p].topic
BY FileParts, ContentOf DEF Topic

\* The topics of two places are two files, and no index.md is a topic.
LEMMA TopicsDiffer ==
    \A p, q \in Places : /\ Topic(p) = Topic(q) => p = q
                         /\ Topic(p) # <<q, "index">>
BY DEF Topic

\* No fault and no replacement.
LEMMA CleanStays ==
    ASSUME clean', Next
    PROVE  /\ clean
           /\ ~Raises /\ ~PatchRaises /\ ~Stop
           /\ \A c \in Categories, t \in Texts : ~Replace(t, c)
           /\ \A f \in Files : ~TaskFails(f)
<1>1. \A c \in Categories, t \in Texts : ~Replace(t, c)
  BY DEF Replace
<1>2. /\ ~Raises /\ ~PatchRaises /\ ~Stop
      /\ \A f \in Files : ~TaskFails(f)
  BY DEF Raises, PatchRaises, Stop, TaskFails, Fault
<1>3. CASE CallStep
  <2>1. UNCHANGED clean
    BY <1>1, <1>2, <1>3 DEF CallStep, Patch, Create, BackUp, Clear,
       WriteIndex, WriteTopic, Restore, Acknowledged, Delete, Remove, Front,
       Move, Topics, PatchRow, history
  <2>. QED BY <1>1, <1>2, <2>1
<1>4. CASE CascadeStep
  <2>1. UNCHANGED clean
    BY <1>2, <1>4, CascadeCases DEF TaskStep, Batch, Read, UpsertDocument,
       Compare, IndexTopic, StoreTopic, Gone, Forget, Fix, history
  <2>. QED BY <1>1, <1>2, <2>1
<1>. QED BY <1>3, <1>4 DEF Next

\* A patient call begins at rest: every row is then true.
LEMMA BeginsQuiet ==
    ASSUME Patient, NEW op, Begins(op)
    PROVE  Quiet
BY DEF Begins, Quiet

\* Once all is processed the rows lead to files.
LEMMA QuietRows ==
    ASSUME Shapes, Backed, Quiet
    PROVE  /\ row # None => row.at \in Places /\ dir[row.at].index # None
           /\ found # None => found.at \in Places /\ dir[found.at].topic # None
<1>1. ASSUME row # None PROVE dir[row.at].index # None
  BY <1>1, AtRest, RowFiles, ContentOf DEF Shapes, Backed, RowBacked
<1>2. ASSUME found # None PROVE dir[found.at].topic # None
  <2>1. Content(<<found.at, "topic">>) = Says(found.text, found.cat)
    BY <1>2, AtRest, RowFiles DEF Shapes, Backed, FoundTrue
  <2>2. found.text \in Texts /\ found.cat \in Categories
    BY <1>2 DEF Shapes, RowShape, TopicRows
  <2>3. Says(found.text, found.cat) # None
    BY <2>2, SaysTyped
  <2>4. found.at \in Places
    BY <1>2, RowFiles DEF Shapes
  <2>. QED BY <2>1, <2>3, <2>4, ContentOf
<1>. QED BY <1>1, <1>2, RowFiles DEF Shapes

\* The beginning of a call.
LEMMA TidyBegins ==
    ASSUME Patient, Shapes, Backed, Tidy, clean, clean',
           \/ \E c \in Categories :
                 Patch(c) \/ \E t \in Texts : Create(t, c)
           \/ Delete
    PROVE  Tidy'
<1>1. /\ Quiet /\ call = NoCall /\ call.pc = "idle" /\ calls' # 0
      /\ UNCHANGED <<dir, dirty, row, stored, found, failed, task>>
  <2>1. PICK op : Begins(op)
    BY DEF Patch, Create, Delete
  <2>2. calls' = calls + 1 /\ calls \in Nat
    BY <2>1 DEF Begins, Shapes
  <2>3. UNCHANGED <<dir, dirty, cascade>>
    BY DEF Patch, Create, Delete
  <2>4. Quiet
    BY <2>1, BeginsQuiet
  <2>. QED BY <2>2, <2>3, <2>4, NoCallTyped DEF Quiet, cascade, rows
<1>2. /\ failed = {} /\ Placed /\ DocumentRow /\ TopicTasks /\ TopicRow
  BY DEF Tidy
<1>3. \A p \in Places : Topic(p) \notin dirty /\ task[Topic(p)].pc = "idle"
  BY <1>1, AtRest, TopicContent DEF Pending
<1>4. \A p \in Places : <<p, "index">> \notin dirty /\ ~Reading(p)
  BY <1>1, AtRest, FileParts DEF Pending, Reading
<1>5. DocumentRow'
  BY <1>1, <1>2 DEF DocumentRow, Reading
<1>6. ASSUME call'.pc \in {"extract", "remove", "front"},
             call'.backup = None,
             call'.pc = "extract" => \A p \in Places : ~IsDir(p)
      PROVE  Placed' /\ TopicTasks' /\ TopicRow'
  <2>1. Placed'
    BY <1>1, <1>2, <1>6 DEF Placed, IsDir
  <2>2. call'.pc = "extract" => found = None
    BY <1>1, <1>6, QuietRows, IndexIsDir
  <2>3. TopicTasks'
    BY <1>1, <1>2, <1>3, <1>6, <2>2 DEF TopicTasks, Topic
  <2>4. TopicRow'
    BY <1>1, <1>2, <1>6 DEF TopicRow, Topic
  <2>. QED BY <2>1, <2>3, <2>4
<1>7. ASSUME NEW c \in Categories, NEW t \in Texts, Create(t, c) PROVE Tidy'
  <2>1. /\ call'.op = "create" /\ call'.pc = "extract"
        /\ call'.backup = None
    BY <1>7, BeginShapes
  <2>2. \A p \in Places : ~IsDir(p)
    BY <1>2, <1>7 DEF Create, Placed
  <2>3. Patched'
    BY <2>1 DEF Patched, Patching
  <2>. QED BY <1>1, <1>2, <1>5, <1>6, <2>1, <2>2, <2>3 DEF Tidy
<1>8. CASE Delete
  <2>1. row \in RowsOf
    BY <1>8 DEF Delete, Shapes, RowShape
  <2>2. /\ call'.op = "delete" /\ call'.pc = "remove"
        /\ call'.backup = None
    BY <1>8, <2>1, BeginShapes
  <2>3. Patched'
    BY <2>2 DEF Patched, Patching
  <2>. QED BY <1>1, <1>2, <1>5, <1>6, <2>2, <2>3 DEF Tidy
<1>9. ASSUME NEW c \in Categories, Patch(c) PROVE Tidy'
  <2>1. /\ call'.op = "patch" /\ call'.pc = "front" /\ call'.backup = None
        /\ call'.old \in Places /\ call'.text \in RowsOf
        /\ row # None => call'.text = row /\ call'.old = row.at
        /\ row = None => dir[call'.old].index # None
    BY <1>9, PatchShape
  <2>2. dir[call'.old].index # None /\ dir[call'.old].index \in Contents
    <3>1. dir[call'.old].index # None
      BY <1>1, <2>1, QuietRows
    <3>. QED BY <2>1, <3>1, DirParts DEF Shapes
  <2>3. row = Row(dir[call'.old].index, call'.old)
    BY <1>2, <1>4, <2>1, <2>2 DEF DocumentRow
  <2>4. /\ row # None /\ row.text = dir[call'.old].index.text
        /\ row.cat = dir[call'.old].index.cat
    BY <2>1, <2>2, <2>3, RowTyped
  <2>5. dir[call'.old].index.cat = call'.old[1]
    BY <1>1, <1>2, <2>1, <2>2 DEF Placed
  <2>6. Patched'
    BY <1>1, <2>1, <2>2, <2>4, <2>5 DEF Patched
  <2>. QED BY <1>1, <1>2, <1>5, <1>6, <2>1, <2>6 DEF Tidy
<1>. QED BY <1>7, <1>8, <1>9

\* A writer of a new document: Clear finds nothing, and the files it writes
\* are in the queue.
LEMMA TidyWriter ==
    ASSUME Shapes, Backed, Tidy, clean, Clear \/ WriteIndex \/ WriteTopic
    PROVE  Tidy'
<1>1. /\ failed = {} /\ Placed /\ DocumentRow /\ TopicTasks /\ TopicRow
      /\ DiskShape
  BY DEF Tidy, Shapes
<1>2. /\ Dest \in Places /\ Says(call.text, call.cat) \in Contents
      /\ call'.op = call.op /\ call'.backup = call.backup /\ Dest' = Dest
      /\ Clear => call.pc = "extract" /\ call'.pc = "index"
      /\ WriteIndex => call.pc = "index" /\ call'.pc = "topic"
      /\ WriteTopic => call.pc = "topic" /\ call'.pc = "written"
      /\ call.text \in Texts /\ call.cat \in Categories
      /\ Dest[1] = call.cat
  BY WriterShape DEF Clear, WriteIndex, WriteTopic, Shapes, CallShape,
     Replacing, Dest
<1>3. /\ UNCHANGED <<row, stored, found, failed, task, calls>>
  BY DEF Clear, WriteIndex, WriteTopic, cascade, rows, history
<1>4. /\ found = None
      /\ \A p \in Places : Topic(p) \notin dirty /\ task[Topic(p)].pc = "idle"
  BY <1>1, <1>2 DEF TopicTasks
<1>5. calls # 0
  BY <1>1, <1>2, NoCallTyped DEF Placed
<1>6. Patched'
  BY <1>2 DEF Patched, Patching
<1>7. /\ Says(call.text, call.cat) # None
      /\ Says(call.text, call.cat).cat = call.cat
  BY <1>2, SaysTyped
<1>8. CASE Clear
  <2>1. \A p \in Places : ~IsDir(p)
    BY <1>1, <1>2, <1>8 DEF Placed
  <2>2. \A p \in Places : dir[p].index = None /\ dir[p].topic = None
    BY <1>1, <2>1, DirParts
  <2>3. /\ dir'[Dest] = NoDir
        /\ \A p \in Places \ {Dest} : dir'[p] = dir[p]
        /\ dirty' = dirty \cup {f \in FilesOf(Dest) : Content(f) # None}
    BY <1>1, <1>2, <1>8, RemovesShape DEF Clear
  <2>4. \A p \in Places : ~dir'[p].made
    BY <2>1, <2>3, NoDirTyped DEF IsDir
  <2>5. \A p \in Places : dir'[p].index = None /\ dir'[p].topic = None
    BY <2>2, <2>3, NoDirTyped
  <2>6. dirty' = dirty
    <3>1. ASSUME NEW f \in FilesOf(Dest) PROVE Content(f) = None
      BY <1>2, <2>2, FileParts DEF FilesOf, Content
    <3>. QED BY <2>3, <3>1
  <2>7. Placed'
    BY <1>1, <1>2, <1>3, <1>5, <1>8, <2>4, <2>5 DEF Placed, IsDir
  <2>8. DocumentRow' /\ TopicRow'
    BY <2>5 DEF DocumentRow, TopicRow
  <2>9. TopicTasks'
    BY <1>3, <1>4, <2>6 DEF TopicTasks, Topic
  <2>. QED BY <1>1, <1>3, <1>6, <2>7, <2>8, <2>9 DEF Tidy
<1>9. CASE WriteIndex
  <2>1. \A p \in Places : ~IsDir(p)
    BY <1>1, <1>2, <1>9 DEF Placed
  <2>2. \A p \in Places : dir[p].index = None /\ dir[p].topic = None
    BY <1>1, <2>1, DirParts
  <2>3. /\ dir'[Dest].index = Says(call.text, call.cat)
        /\ dir'[Dest].topic = dir[Dest].topic
        /\ \A p \in Places \ {Dest} : dir'[p] = dir[p]
        /\ dirty' = dirty \cup {<<Dest, "index">>}
    BY <1>1, <1>2, <1>9, WritesShape DEF WriteIndex, Kinds
  <2>4. Placed'
    BY <1>1, <1>2, <1>3, <1>5, <1>7, <1>9, <2>1, <2>2, <2>3
       DEF Placed, IsDir
  <2>5. DocumentRow'
    BY <1>2, <2>2, <2>3 DEF DocumentRow
  <2>6. \A p \in Places : dir'[p].topic = None
    BY <2>2, <2>3
  <2>7. TopicTasks'
    BY <1>3, <1>4, <2>3, TopicsDiffer DEF TopicTasks, Topic
  <2>8. TopicRow'
    BY <2>6 DEF TopicRow
  <2>. QED BY <1>1, <1>3, <1>6, <2>4, <2>5, <2>7, <2>8 DEF Tidy
<1>10. CASE WriteTopic
  <2>1. \A p \in Places : IsDir(p) => p = Dest /\ dir[p].topic = None
    BY <1>1, <1>2, <1>10 DEF Placed
  <2>2. /\ dir'[Dest].topic = Says(call.text, call.cat)
        /\ dir'[Dest].index = dir[Dest].index
        /\ \A p \in Places \ {Dest} : dir'[p] = dir[p]
        /\ dirty' = dirty \cup {Topic(Dest)}
    BY <1>1, <1>2, <1>10, WritesShape DEF WriteTopic, Kinds, Topic
  <2>3. \A p \in Places \ {Dest} : dir[p].topic = None /\ ~IsDir(p)
    BY <2>1, IndexIsDir
  <2>4. Placed'
    BY <1>1, <1>2, <1>3, <1>5, <1>7, <1>10, <2>2, <2>3 DEF Placed, IsDir
  <2>5. DocumentRow'
    <3>1. \A p \in Places : dir'[p].index = dir[p].index
      BY <1>2, <2>2
    <3>. QED BY <1>1, <1>3, <2>2, <3>1 DEF DocumentRow, Reading
  <2>6. TopicTasks'
    BY <1>2, <1>3, <1>4, <1>10 DEF TopicTasks, Topic
  <2>7. TopicRow'
    BY <1>2, <1>3, <1>4, <2>2, <2>3 DEF TopicRow, Topic
  <2>. QED BY <1>1, <1>3, <1>6, <2>4, <2>5, <2>6, <2>7 DEF Tidy
<1>. QED BY <1>8, <1>9, <1>10

\* The end of a creation, and a deletion.
LEMMA TidyEnds ==
    ASSUME Shapes, Backed, Tidy, clean, Acknowledged \/ Remove
    PROVE  Tidy'
<1>1. /\ failed = {} /\ Placed /\ DocumentRow /\ TopicTasks /\ TopicRow
      /\ DiskShape
  BY DEF Tidy, Shapes
<1>2. /\ UNCHANGED <<row, stored, found, failed, task, calls>>
      /\ call' = NoCall /\ call'.pc = "idle"
      /\ call'.backup = None /\ call.pc \in {"written", "remove"}
  BY NoCallTyped DEF Acknowledged, Remove, cascade, rows, Returns
<1>3. Patched'
  BY <1>2 DEF Patched, Patching
<1>4. CASE Acknowledged
  <2>1. UNCHANGED <<dir, dirty>>
    BY <1>1, <1>4 DEF Acknowledged, Placed
  <2>2. Placed'
    BY <1>1, <1>2, <2>1 DEF Placed, IsDir
  <2>3. DocumentRow'
    BY <1>1, <1>2, <2>1 DEF DocumentRow, Reading
  <2>4. TopicTasks'
    BY <1>1, <1>2, <2>1 DEF TopicTasks, Topic
  <2>5. TopicRow'
    BY <1>1, <1>2, <2>1 DEF TopicRow, Topic
  <2>. QED BY <1>1, <1>2, <1>3, <2>2, <2>3, <2>4, <2>5 DEF Tidy
<1>5. CASE Remove
  <2>1. PICK old \in Places :
          /\ dir'[old] = NoDir
          /\ \A p \in Places \ {old} : dir'[p] = dir[p]
          /\ dirty' = dirty \cup {f \in FilesOf(old) : Content(f) # None}
    BY <1>1, <1>5, RemoveShape, RemovesShape
  <2>2. /\ dir'[old].index = None /\ dir'[old].topic = None
        /\ ~dir'[old].made /\ dirty \subseteq dirty'
    BY <2>1, NoDirTyped
  <2>3. \A p \in Places : Topic(p) \notin dirty /\ task[Topic(p)].pc = "idle"
    BY <1>1, <1>2, <1>5 DEF TopicTasks, Remove
  <2>4. Placed'
    BY <1>1, <1>2, <2>1, <2>2 DEF Placed, IsDir
  <2>5. DocumentRow'
    <3>1. ASSUME NEW p \in Places, dir'[p].index # None
          PROVE  p # old /\ dir'[p].index = dir[p].index /\ IsDir(p)
      BY <2>1, <2>2, <3>1, IndexIsDir
    <3>2. ASSUME NEW p \in Places, NEW q \in Places, Reading(q),
                 dir'[q].index = None, dir'[p].index # None
          PROVE  <<p, "index">> \in dirty
      <4>1. dir[q].index = None
        BY <1>1, <2>1, <3>1, <3>2, IndexIsDir DEF Placed
      <4>. QED BY <1>1, <3>1, <3>2, <4>1 DEF DocumentRow
    <3>. QED BY <1>1, <1>2, <2>2, <3>1, <3>2 DEF DocumentRow, Reading
  <2>6. TopicTasks'
    BY <1>2, <2>3 DEF TopicTasks, Topic
  <2>7. TopicRow'
    BY <1>1, <1>2, <1>5, <2>1, <2>2 DEF TopicRow, Topic, Remove
  <2>. QED BY <1>1, <1>2, <1>3, <2>4, <2>5, <2>6, <2>7 DEF Tidy
<1>. QED BY <1>4, <1>5

\* A patch of the front matter.
LEMMA TidyFront ==
    ASSUME Shapes, Backed, Tidy, clean, Front
    PROVE  Tidy'
<1>1. /\ failed = {} /\ Placed /\ Patched /\ DocumentRow /\ TopicTasks
      /\ TopicRow /\ DiskShape
  BY DEF Tidy, Shapes
<1>2. /\ call.pc = "front" /\ call.old \in Places /\ call.cat \in Categories
      /\ UNCHANGED <<row, stored, found, failed, task, calls>>
  BY FrontShape DEF Front, cascade, rows, history
<1>3. /\ dir[call.old].index # None /\ call.text.cat = call.old[1]
      /\ call.text.text = dir[call.old].index.text /\ calls # 0
  BY <1>1, <1>2, NoCallTyped DEF Patched, Patching, Placed
<1>4. /\ dir[call.old].index \in Contents
      /\ Writes(call.old, "index",
                [dir[call.old].index EXCEPT !.cat = call.cat])
      /\ call'.pc = IF Moving THEN "move" ELSE "row"
      /\ call'.text = call.text /\ call'.cat = call.cat
      /\ call'.old = call.old /\ call'.backup = call.backup
  BY <1>3, FrontShape
<1>5. PICK x \in Contents :
        /\ x = [dir[call.old].index EXCEPT !.cat = call.cat] /\ x # None
        /\ x.text = dir[call.old].index.text /\ x.cat = call.cat
  BY <1>2, <1>4, NewCategory
<1>6. PICK old \in Places : old = call.old
  BY <1>2
<1>7. /\ dir'[old].index = x /\ dir'[old].topic = dir[old].topic
      /\ dir'[old].made
      /\ \A p \in Places \ {old} : dir'[p] = dir[p]
      /\ dirty' = dirty \cup {<<old, "index">>}
  <2>1. Writes(old, "index", x)
    BY <1>4, <1>5, <1>6
  <2>. QED BY <1>1, <2>1, WritesShape DEF Kinds
<1>8. IsDir(old) /\ \A p \in Places : IsDir(p) => p = old
  BY <1>1, <1>3, <1>6, IndexIsDir DEF Placed
<1>9. Placed'
  <2>1. ~Moving => call.cat = old[1]
    BY <1>3, <1>6 DEF Moving
  <2>2. \A p \in Places : dir'[p].made => p = old
    BY <1>7, <1>8 DEF IsDir
  <2>3. \A p \in Places \ {old} : dir'[p].index = None
    BY <1>7, <1>8, IndexIsDir
  <2>4. PICK pc \in {"move", "row"} :
          call'.pc = pc /\ (pc = "row" => ~Moving)
    BY <1>4
  <2>5. \A p \in Places : dir'[p].topic # None => dir'[p].topic.cat = p[1]
    BY <1>1, <1>2, <1>7 DEF Placed
  <2>6. \A p \in Places :
          dir'[p].index # None /\ pc # "move" => dir'[p].index.cat = p[1]
    BY <1>5, <1>7, <2>1, <2>3, <2>4
  <2>7. calls' # 0 /\ call'.backup = None
    BY <1>1, <1>2, <1>3, <1>4 DEF Placed
  <2>. QED BY <2>2, <2>4, <2>5, <2>6, <2>7 DEF Placed, IsDir
<1>10. Patched'
  BY <1>3, <1>4, <1>5, <1>6, <1>7 DEF Patched, Patching, Moving
<1>11. DocumentRow'
  <2>1. \A p \in Places \ {old} : dir'[p].index = None
    BY <1>7, <1>8, IndexIsDir
  <2>. QED BY <1>7, <2>1 DEF DocumentRow
<1>12. TopicTasks'
  <2>1. \A p \in Places : Topic(p) \notin dirty' /\ task'[Topic(p)].pc = "idle"
    BY <1>1, <1>2, <1>7, TopicsDiffer DEF TopicTasks
  <2>. QED BY <1>4, <2>1 DEF TopicTasks, Topic
<1>13. TopicRow'
  <2>1. \A p \in Places : dir'[p].topic = dir[p].topic
    BY <1>7
  <2>. QED BY <1>1, <1>2, <1>7, <2>1 DEF TopicRow, Topic
<1>. QED BY <1>1, <1>2, <1>9, <1>10, <1>11, <1>12, <1>13 DEF Tidy

\* A move to another category.  The row that is found is of the old place, and
\* its category is that of the old place.
LEMMA TidyMove ==
    ASSUME Shapes, Backed, Tidy, clean, Move
    PROVE  Tidy'
<1>1. /\ failed = {} /\ Placed /\ Patched /\ DocumentRow /\ TopicTasks
      /\ TopicRow /\ DiskShape
  BY DEF Tidy, Shapes
<1>2. /\ call.pc = "move" /\ call.old \in Places /\ call.cat \in Categories
      /\ Target \in Places /\ Target[1] = call.cat
      /\ UNCHANGED <<row, stored, found, failed, task, calls>>
  BY MoveShape DEF Move, cascade, rows, history
<1>3. PICK old \in Places, new \in Places : old = call.old /\ new = Target
  BY <1>2
<1>4. /\ dir[old].index # None /\ call.text.cat = old[1]
      /\ call.text.text = dir[old].index.text
      /\ dir[old].index.cat = call.cat
      /\ call.cat # call.text.cat /\ calls # 0
  BY <1>1, <1>2, <1>3, NoCallTyped
     DEF Patched, Patching, Placed, Moving
<1>5. /\ old # new /\ IsDir(old)
      /\ \A p \in Places : IsDir(p) => p = old
  BY <1>1, <1>2, <1>3, <1>4, IndexIsDir DEF Placed
<1>6. MayMove(call.old, Target) /\ Target # call.old
  <2>1. dir[new].inner = {}
    BY <1>1, <1>5, DirParts
  <2>. QED BY <1>3, <1>5, <2>1 DEF MayMove
<1>7. /\ Moves(old, new)
      /\ call'.pc = "topics" /\ call'.old = new
      /\ call'.text = call.text
      /\ call'.cat = call.cat /\ call'.backup = call.backup
  BY <1>3, <1>6, MoveShape
<1>8. /\ dir'[old] = NoDir /\ dir'[new] = dir[old]
      /\ \A p \in Places \ {old, new} : dir'[p] = dir[p]
      /\ dirty' = dirty \cup {f \in FilesOf(old) : Content(f) # None}
            \cup {f \in FilesOf(new) : ~IsDir(new)
                                       /\ Content(<<old, f[2]>>) # None}
  BY <1>1, <1>5, <1>7, MovesShape
<1>9. \A p \in Places \ {new} : /\ ~dir'[p].made /\ dir'[p].index = None
                                /\ dir'[p].topic = None
  BY <1>1, <1>5, <1>8, DirParts, NoDirTyped DEF IsDir
<1>10. /\ <<new, "index">> \in dirty'
       /\ dir[old].topic # None => Topic(new) \in dirty'
  BY <1>4, <1>5, <1>8, FileParts, ContentOf DEF FilesOf, Topic
<1>11. \A p \in Places : Topic(p) \notin dirty /\ task[Topic(p)].pc = "idle"
  BY <1>1, <1>2 DEF TopicTasks
<1>12. dir[old].topic # None =>
         dir[old].topic.cat = old[1] /\ dir[old].topic \in Contents
  BY <1>1, <1>2, DirParts DEF Placed
<1>13. Placed'
  BY <1>1, <1>2, <1>3, <1>4, <1>5, <1>7, <1>8, <1>9, <1>12 DEF Placed, IsDir
<1>14. Patched'
  BY <1>2, <1>3, <1>4, <1>7, <1>8 DEF Patched, Patching
<1>15. DocumentRow'
  BY <1>9, <1>10 DEF DocumentRow
<1>16. TopicTasks'
  BY <1>2, <1>7, <1>11 DEF TopicTasks, Topic
<1>17. TopicRow'
  <2>1. dir[old].topic # None =>
          found = Row(dir[old].topic, old) /\ found.at = old
          /\ found.cat = old[1]
    BY <1>1, <1>2, <1>11, <1>12, RowTyped DEF TopicRow
  <2>. QED BY <1>2, <1>3, <1>4, <1>5, <1>7, <1>8, <1>9, <2>1
           DEF TopicRow, Topic
<1>. QED BY <1>1, <1>2, <1>13, <1>14, <1>15, <1>16, <1>17 DEF Tidy

\* The topics' new category: every topic file is written.
LEMMA TidyTopics ==
    ASSUME Shapes, Backed, Tidy, clean, Topics
    PROVE  Tidy'
<1>1. /\ failed = {} /\ Placed /\ Patched /\ DocumentRow /\ TopicTasks
      /\ TopicRow /\ DiskShape
  BY DEF Tidy, Shapes
<1>2. /\ call.pc = "topics" /\ call.old \in Places /\ call.cat \in Categories
      /\ UNCHANGED <<row, stored, found, failed, task, calls>>
      /\ call'.pc = "row" /\ call'.text = call.text
      /\ call'.cat = call.cat /\ call'.old = call.old
      /\ call'.backup = call.backup
  BY TopicsShape DEF Topics, cascade, rows, history
<1>3. PICK old \in Places : old = call.old
  BY <1>2
<1>4. /\ dir[old].index # None /\ old[1] = call.cat
      /\ call.text.text = dir[old].index.text
      /\ dir[old].index.cat = call.cat /\ calls # 0
      /\ dir[old].topic # None => dir[old].topic.cat # call.cat
  BY <1>1, <1>2, <1>3, NoCallTyped DEF Patched, Patching, Placed
<1>5. IsDir(old) /\ \A p \in Places : IsDir(p) => p = old
  BY <1>1, <1>4, IndexIsDir DEF Placed
<1>6. \A p \in Places \ {old} : dir[p].index = None /\ dir[p].topic = None
  BY <1>5, IndexIsDir
<1>7. CASE dir[old].topic = None
  <2>1. UNCHANGED <<dir, dirty>>
    BY <1>3, <1>7, TopicsShape
  <2>2. \A p \in Places : dir[p].topic = None
    BY <1>6, <1>7
  <2>3. Placed'
    BY <1>1, <1>2, <1>4, <2>1, <2>2 DEF Placed, IsDir
  <2>4. Patched'
    BY <1>2, <1>3, <1>4, <2>1 DEF Patched, Patching
  <2>5. DocumentRow'
    BY <1>1, <1>2, <2>1 DEF DocumentRow, Reading
  <2>6. TopicTasks'
    BY <1>1, <1>2, <2>1 DEF TopicTasks, Topic
  <2>7. TopicRow'
    BY <2>1, <2>2 DEF TopicRow
  <2>. QED BY <1>1, <1>2, <2>3, <2>4, <2>5, <2>6, <2>7 DEF Tidy
<1>8. CASE dir[old].topic # None
  <2>1. PICK x \in Contents : x.cat = call.cat /\ Writes(old, "topic", x)
    BY <1>3, <1>4, <1>8, TopicsShape
  <2>2. /\ dir'[old].topic = x /\ dir'[old].index = dir[old].index
        /\ dir'[old].made
        /\ \A p \in Places \ {old} : dir'[p] = dir[p]
        /\ dirty' = dirty \cup {Topic(old)}
    BY <1>1, <2>1, WritesShape DEF Kinds, Topic
  <2>3. x # None
    BY NoneAssumption
  <2>4. Placed'
    BY <1>1, <1>2, <1>3, <1>4, <1>5, <1>6, <2>1, <2>2 DEF Placed, IsDir
  <2>5. Patched'
    BY <1>2, <1>3, <1>4, <2>2 DEF Patched, Patching
  <2>6. DocumentRow'
    <3>1. \A p \in Places : dir'[p].index = dir[p].index
      BY <2>2
    <3>. QED BY <1>1, <1>2, <2>2, <3>1 DEF DocumentRow, Reading
  <2>7. TopicTasks'
    <3>1. \A p \in Places : /\ dir'[p].topic = None => dir[p].topic = None
                            /\ dir[p].topic = None => dir'[p].topic = None
      BY <1>8, <2>2, <2>3
    <3>. QED BY <1>1, <1>2, <3>1 DEF TopicTasks, Topic
  <2>8. TopicRow'
    BY <1>1, <1>2, <1>6, <1>8, <2>2 DEF TopicRow, Topic
  <2>. QED BY <1>1, <1>2, <2>4, <2>5, <2>6, <2>7, <2>8 DEF Tidy
<1>. QED BY <1>7, <1>8

\* The row that a patch writes is that of the directory.
LEMMA TidyPatchRow ==
    ASSUME Shapes, Backed, Tidy, clean, PatchRow
    PROVE  Tidy'
<1>1. /\ failed = {} /\ Placed /\ Patched /\ DocumentRow /\ TopicTasks
      /\ TopicRow /\ DiskShape
  BY DEF Tidy, Shapes
<1>2. /\ call.pc = "row" /\ call.old \in Places
      /\ UNCHANGED <<dir, dirty, stored, found, failed, task, calls>>
      /\ call' = NoCall /\ call'.pc = "idle" /\ call'.backup = None
  BY PatchRowShape, NoCallTyped DEF PatchRow, history
<1>3. PICK old \in Places : old = call.old
  BY <1>2
<1>4. /\ dir[old].index # None /\ dir[old].index \in Contents
      /\ call.text.text = dir[old].index.text
      /\ dir[old].index.cat = call.cat
  BY <1>1, <1>2, <1>3, DirParts DEF Patched, Patching
<1>5. row' = Row(dir[old].index, old)
  BY <1>3, <1>4 DEF PatchRow, Row, Says
<1>6. \A p \in Places : dir[p].index # None => p = old
  BY <1>1, <1>4, IndexIsDir DEF Placed
<1>7. Placed'
  BY <1>1, <1>2 DEF Placed, IsDir
<1>8. Patched'
  BY <1>2 DEF Patched, Patching
<1>9. DocumentRow'
  BY <1>1, <1>2, <1>5, <1>6 DEF DocumentRow, Reading
<1>10. TopicTasks'
  BY <1>1, <1>2 DEF TopicTasks, Topic
<1>11. TopicRow'
  BY <1>1, <1>2 DEF TopicRow, Topic
<1>. QED BY <1>1, <1>2, <1>7, <1>8, <1>9, <1>10, <1>11 DEF Tidy

\* A step of a call.
LEMMA TidyCallStep ==
    ASSUME Patient, Shapes, Backed, Tidy, clean', CallStep
    PROVE  Tidy'
<1>1. clean /\ ~Raises /\ ~PatchRaises
      /\ \A c \in Categories, t \in Texts : ~Replace(t, c)
  BY CleanStays DEF Next
<1>2. ~BackUp /\ ~Restore
  BY <1>1, RestoreShape DEF Tidy, Placed, BackUp, Shapes, CallShape, Restore
<1>. QED BY <1>1, <1>2, TidyBegins, TidyWriter, TidyEnds, TidyFront, TidyMove,
            TidyTopics, TidyPatchRow DEF CallStep

\* What a step of the cascade that is not a fault leaves alone.
Aloof == UNCHANGED <<dir, call, calls, failed>>

\* Such a step leaves the directory and the call as they are.
LEMMA AloofPlaced ==
    ASSUME Placed, Patched, Aloof
    PROVE  Placed' /\ Patched'
<1>1. Placed'
  BY DEF Placed, Aloof, IsDir, Dest
<1>2. Patched'
  BY DEF Patched, Aloof, Moving
<1>. QED BY <1>1, <1>2

\* There is one directory: two files of one name are the same file.
LEMMA OneDirectory ==
    ASSUME Shapes, Placed, NEW p \in Places, NEW q \in Places, p # q
    PROVE  /\ dir[p].topic # None => dir[q].topic = None
           /\ dir[p].index # None => dir[q].index = None
BY IndexIsDir DEF Placed

\* A step that is about an index.md leaves the topics alone.
LEMMA IndexFiles ==
    ASSUME TopicTasks, TopicRow, Aloof, UNCHANGED <<stored, found, dirty>>,
           \A p \in Places : task'[Topic(p)] = task[Topic(p)]
    PROVE  TopicTasks' /\ TopicRow'
<1>1. TopicTasks'
  BY DEF TopicTasks, Aloof, Topic
<1>2. TopicRow'
  BY DEF TopicRow, Aloof, Topic
<1>. QED BY <1>1, <1>2

\* A step that is about a topic file leaves the document's row alone.
LEMMA TopicFiles ==
    ASSUME DocumentRow, Aloof, UNCHANGED <<row, dirty>>,
           \A p \in Places : task'[<<p, "index">>] = task[<<p, "index">>]
    PROVE  DocumentRow'
BY DEF DocumentRow, Aloof, Reading

\* The parts of the invariant that a step of the cascade starts from.
LEMMA TidyParts ==
    ASSUME Shapes, Backed, Tidy, clean
    PROVE  /\ failed = {} /\ Placed /\ Patched /\ DocumentRow /\ TopicTasks
           /\ TopicRow /\ Fresh
           /\ found \in TopicRows \cup {None}
           /\ \A f \in Files :
                task[f].pc \in {"upsert", "compare", "embed", "store"} =>
                  task[f].says \in Contents
BY DEF Tidy, Backed, Shapes, TaskShape, RowShape

\* A batch: what it claims it reads, or finds gone.
LEMMA TidyBatch ==
    ASSUME Shapes, Backed, Tidy, clean, NEW S \in SUBSET dirty, Batch(S)
    PROVE  Tidy'
<1>1. /\ failed = {} /\ Placed /\ Patched /\ DocumentRow /\ TopicTasks
      /\ TopicRow
  BY TidyParts
<1>2. /\ \A f \in Files : task[f].pc = "idle"
      /\ \A f \in Files \ S : task'[f].pc = "idle"
      /\ \A f \in S : task'[f].pc =
                        IF Content(f) # None THEN "read" ELSE "gone"
      /\ dirty' = dirty \ S /\ failed' = failed \ S
  BY BatchShape
<1>3. UNCHANGED <<dir, call, calls, row, stored, found>>
  BY DEF Batch, rows, history
<1>4. Aloof
  BY <1>1, <1>2, <1>3 DEF Aloof
<1>5. \A p \in Places :
        /\ task[Topic(p)].pc = "idle"
        /\ Topic(p) \in S /\ dir[p].topic # None => task'[Topic(p)].pc = "read"
        /\ Topic(p) \in S /\ dir[p].topic = None => task'[Topic(p)].pc = "gone"
        /\ Topic(p) \notin S => task'[Topic(p)].pc = "idle"
  BY <1>2, TopicContent
<1>6. \A p \in Places :
        LET f == <<p, "index">>
        IN /\ task[f].pc = "idle"
           /\ f \in S /\ dir[p].index # None => task'[f].pc = "read"
           /\ f \in S /\ dir[p].index = None => task'[f].pc = "gone"
           /\ f \notin S => task'[f].pc = "idle"
  BY <1>2, FileParts, ContentOf
<1>7. DocumentRow'
  BY <1>1, <1>2, <1>3, <1>6 DEF DocumentRow, Reading
<1>8. TopicTasks'
  <2>1. call.pc \in {"extract", "index", "topic", "remove", "front", "move"} =>
          \A p \in Places : Topic(p) \notin S /\ Topic(p) \notin dirty'
    BY <1>1, <1>2 DEF TopicTasks
  <2>2. \A p \in Places :
          /\ task'[Topic(p)].pc \in {"idle", "read", "gone"}
          /\ task'[Topic(p)].pc = "read" => dir[p].topic # None
          /\ task'[Topic(p)].pc = "gone" => dir[p].topic = None
    BY <1>5
  <2>3. \A p \in Places : Topic(p)' = Topic(p)
    BY DEF Topic
  <2>. QED BY <1>1, <1>3, <1>5, <2>1, <2>2, <2>3 DEF TopicTasks
<1>9. TopicRow'
  <2>1. \A p \in Places : Topic(p)' = Topic(p)
    BY DEF Topic
  <2>2. ASSUME NEW p \in Places, dir[p].topic # None
        PROVE  /\ found # None /\ found.at # p => found.cat # p[1]
               /\ \/ found = Row(dir[p].topic, p)
                  \/ Topic(p) \in dirty'
                  \/ task'[Topic(p)].pc = "read"
                  \/ call.pc = "topics"
               /\ found # None /\ found.at = p => stored = found
    BY <1>1, <1>2, <1>5, <2>2 DEF TopicRow
  <2>. QED BY <1>3, <2>1, <2>2 DEF TopicRow
<1>. QED BY <1>1, <1>2, <1>4, <1>7, <1>8, <1>9, AloofPlaced DEF Tidy

\* A file is read: a topic's file that was read is still there.
LEMMA TidyRead ==
    ASSUME Shapes, Backed, Tidy, clean, NEW f \in Files, Read(f)
    PROVE  Tidy'
<1>1. /\ failed = {} /\ Placed /\ Patched /\ DocumentRow /\ TopicTasks
      /\ TopicRow
  BY TidyParts
<1>2. /\ Aloof /\ UNCHANGED <<row, stored, found, dirty>>
      /\ task[f].pc = "read"
  BY DEF Read, rows, history, Aloof
<1>3. /\ f[1] \in Places /\ f[2] \in Kinds /\ f = <<f[1], f[2]>>
      /\ TaskShape /\ Content(f) \in Contents \cup {None}
  BY FileParts, ContentTyped DEF Shapes
<1>4. PICK pc \in {"gone", "upsert", "compare"}, x \in Contents \cup {None} :
        /\ Step(f, pc, x)
        /\ \/ pc = "gone" /\ Content(f) = None
           \/ pc = "upsert" /\ Content(f) # None /\ f[2] = "index"
              /\ x = Content(f)
           \/ pc = "compare" /\ Content(f) # None /\ f[2] = "topic"
              /\ x = Content(f)
  BY <1>3 DEF Read, Kinds
<1>5. /\ task'[f].pc = pc
      /\ \A g \in Files \ {f} : task'[g] = task[g]
  BY <1>3, <1>4, StepShape
<1>6. PICK q \in Places : q = f[1]
  BY <1>3
<1>7. CASE f[2] = "index"
  <2>1. f = <<q, "index">> /\ Content(f) = dir[q].index
    BY <1>3, <1>6, <1>7, ContentOf
  <2>2. \A p \in Places : task'[Topic(p)] = task[Topic(p)]
    BY <1>5, <2>1, TopicsDiffer, TopicContent
  <2>3. \A p \in Places : /\ Reading(p)' => Reading(p)
                          /\ Reading(p) /\ dir[p].index # None => Reading(p)'
    BY <1>2, <1>4, <1>5, <2>1, FileParts DEF Reading
  <2>4. DocumentRow'
    BY <1>1, <1>2, <2>3 DEF DocumentRow, Aloof
  <2>. QED BY <1>1, <1>2, <2>2, <2>4, IndexFiles, AloofPlaced DEF Tidy, Aloof
<1>8. CASE f[2] = "topic"
  <2>1. f = Topic(q) /\ Content(f) = dir[q].topic
    BY <1>3, <1>6, <1>8, TopicContent DEF Topic
  <2>2. dir[q].topic # None /\ task'[Topic(q)].pc = "compare"
    <3>1. dir[q].topic # None
      BY <1>1, <1>2, <2>1 DEF TopicTasks
    <3>2. pc = "compare"
      BY <1>4, <1>8, <2>1, <3>1
    <3>. QED BY <1>5, <2>1, <3>1, <3>2
  <2>3. /\ \A p \in Places \ {q} : task'[Topic(p)] = task[Topic(p)]
        /\ \A p \in Places : task'[<<p, "index">>] = task[<<p, "index">>]
    BY <1>5, <2>1, TopicsDiffer, TopicContent, FileParts
  <2>4. TopicTasks'
    BY <1>1, <1>2, <2>1, <2>2, <2>3 DEF TopicTasks, Aloof, Topic
  <2>5. TopicRow'
    BY <1>1, <1>2, <2>1, <2>2, <2>3 DEF TopicRow, Aloof, Topic
  <2>. QED BY <1>1, <1>2, <2>3, <2>4, <2>5, TopicFiles, AloofPlaced
           DEF Tidy, Aloof
<1>. QED BY <1>3, <1>7, <1>8 DEF Kinds

\* A document's row is written: a row of a file that is gone is replaced.
LEMMA TidyUpsert ==
    ASSUME Shapes, Backed, Tidy, clean, NEW f \in Files, UpsertDocument(f)
    PROVE  Tidy'
<1>1. /\ failed = {} /\ Placed /\ Patched /\ DocumentRow /\ TopicTasks
      /\ TopicRow /\ Fresh
  BY TidyParts
<1>2. /\ Aloof /\ UNCHANGED <<stored, found, dirty>>
      /\ task[f].pc = "upsert"
  BY DEF UpsertDocument, history, Aloof
<1>3. PICK q \in Places : q = f[1]
  BY FileParts
<1>4. /\ f = <<q, "index">> /\ task'[f].pc = "idle"
      /\ \A g \in Files \ {f} : task'[g] = task[g]
      /\ row' = Row(task[f].says, q)
  BY <1>3, UpsertShape
<1>5. task[f].says = dir[q].index \/ f \in dirty
  BY <1>1, <1>2, <1>4, ContentOf DEF Fresh
<1>6. \A p \in Places : task'[Topic(p)] = task[Topic(p)]
  BY <1>4, TopicsDiffer, TopicContent
<1>7. \A p \in Places : Reading(p)' => Reading(p) /\ p # q
  BY <1>4, FileParts DEF Reading
<1>8. \A p \in Places \ {q} : Reading(p) => Reading(p)'
  BY <1>4, FileParts DEF Reading
<1>9. Reading(q)
  BY <1>2, <1>4 DEF Reading
<1>10. ASSUME NEW p \in Places, dir[p].index # None
       PROVE  row' = Row(dir[p].index, p) \/ <<p, "index">> \in dirty
  <2>1. CASE p = q
    BY <1>4, <1>5, <2>1
  <2>2. CASE p # q
    BY <1>1, <1>9, <1>10, <2>2, OneDirectory DEF DocumentRow
  <2>. QED BY <2>1, <2>2
<1>11. DocumentRow'
  BY <1>1, <1>2, <1>7, <1>10 DEF DocumentRow, Aloof
<1>. QED BY <1>1, <1>2, <1>6, <1>11, IndexFiles, AloofPlaced DEF Tidy, Aloof

\* A digest that is the same is that of the row of this very file: rows of
\* other places are of another category.
LEMMA TidyCompare ==
    ASSUME Shapes, Backed, Tidy, clean, NEW f \in Files, Compare(f)
    PROVE  Tidy'
<1>1. /\ failed = {} /\ Placed /\ Patched /\ DocumentRow /\ TopicTasks
      /\ TopicRow /\ Fresh /\ found \in TopicRows \cup {None}
  BY TidyParts
<1>2. /\ Aloof /\ UNCHANGED <<row, stored, found, dirty>>
      /\ task[f].pc = "compare"
  BY DEF Compare, rows, history, Aloof
<1>3. PICK q \in Places : q = f[1]
  BY FileParts
<1>4. /\ f = Topic(q) /\ task[f].says \in Contents
      /\ \A g \in Files \ {f} : task'[g] = task[g]
      /\ \/ /\ task'[f].pc = "idle" /\ found # None
            /\ task[f].says = Says(found.text, found.cat)
         \/ task'[f].pc = "embed"
  BY <1>3, CompareShape DEF Topic
<1>5. /\ dir[q].topic # None
      /\ \A p \in Places \ {q} : dir[p].topic = None
  <2>1. dir[q].topic # None
    BY <1>1, <1>2, <1>4 DEF TopicTasks
  <2>. QED BY <1>1, <2>1, OneDirectory
<1>6. /\ \A p \in Places \ {q} : task'[Topic(p)] = task[Topic(p)]
      /\ \A p \in Places : task'[<<p, "index">>] = task[<<p, "index">>]
  BY <1>4, TopicsDiffer, TopicContent, FileParts
<1>7. TopicTasks'
  BY <1>1, <1>2, <1>4, <1>5, <1>6 DEF TopicTasks, Aloof, Topic
<1>8. /\ found # None /\ found.at # q => found.cat # q[1]
      /\ found # None /\ found.at = q => stored = found
  BY <1>1, <1>2, <1>4, <1>5 DEF TopicRow
<1>9. ASSUME task'[f].pc # "embed", f \notin dirty, call.pc # "topics"
      PROVE  found = Row(dir[q].topic, q)
  <2>1. /\ found \in TopicRows
        /\ dir[q].topic = Says(found.text, found.cat)
    BY <1>1, <1>2, <1>4, <1>9, TopicContent DEF Fresh
  <2>2. dir[q].topic.cat = q[1]
    BY <1>1, <1>5, <1>9 DEF Placed
  <2>3. found.at = q
    BY <1>8, <2>1, <2>2, NoneAssumption DEF Says, TopicRows, RowsOf
  <2>. QED BY <2>1, <2>3 DEF Row, Says, TopicRows
<1>10. TopicRow'
  BY <1>2, <1>4, <1>5, <1>8, <1>9 DEF TopicRow, Aloof, Topic
<1>. QED BY <1>1, <1>2, <1>6, <1>7, <1>10, TopicFiles, AloofPlaced
         DEF Tidy, Aloof

\* The search index gets its row.
LEMMA TidyIndex ==
    ASSUME Shapes, Backed, Tidy, clean, NEW f \in Files, IndexTopic(f)
    PROVE  Tidy'
<1>1. /\ failed = {} /\ Placed /\ Patched /\ DocumentRow /\ TopicTasks
      /\ TopicRow /\ Fresh
  BY TidyParts
<1>2. /\ Aloof /\ UNCHANGED <<row, stored, dirty>>
      /\ task[f].pc = "embed"
  BY DEF IndexTopic, history, Aloof
<1>3. PICK q \in Places : q = f[1]
  BY FileParts
<1>4. /\ f = Topic(q) /\ task[f].says \in Contents
      /\ \A g \in Files \ {f} : task'[g] = task[g]
      /\ task'[f].pc = "store" /\ task'[f].says = task[f].says
      /\ found' = Row(task[f].says, q) /\ found' # None /\ found'.at = q
  BY <1>3, IndexShape DEF Topic
<1>5. /\ dir[q].topic # None
      /\ \A p \in Places \ {q} : dir[p].topic = None
  <2>1. dir[q].topic # None
    BY <1>1, <1>2, <1>4 DEF TopicTasks
  <2>. QED BY <1>1, <2>1, OneDirectory
<1>6. /\ \A p \in Places \ {q} : task'[Topic(p)] = task[Topic(p)]
      /\ \A p \in Places : task'[<<p, "index">>] = task[<<p, "index">>]
  BY <1>4, TopicsDiffer, TopicContent, FileParts
<1>7. call.pc \notin {"extract", "index", "topic", "remove", "front", "move"}
  BY <1>1, <1>2, <1>4 DEF TopicTasks
<1>8. TopicTasks'
  BY <1>1, <1>2, <1>4, <1>5, <1>6, <1>7 DEF TopicTasks, Aloof, Topic
<1>9. task[f].says = dir[q].topic \/ f \in dirty
  BY <1>1, <1>2, <1>4, TopicContent DEF Fresh
<1>10. TopicRow'
  BY <1>2, <1>4, <1>5, <1>9 DEF TopicRow, Aloof, Topic
<1>. QED BY <1>1, <1>2, <1>6, <1>8, <1>10, TopicFiles, AloofPlaced
         DEF Tidy, Aloof

\* SQLite gets the row that the search index has.
LEMMA TidyStore ==
    ASSUME Shapes, Backed, Tidy, clean, NEW f \in Files, StoreTopic(f)
    PROVE  Tidy'
<1>1. /\ failed = {} /\ Placed /\ Patched /\ DocumentRow /\ TopicTasks
      /\ TopicRow
  BY TidyParts
<1>2. /\ Aloof /\ UNCHANGED <<row, found, dirty>>
      /\ task[f].pc = "store"
  BY DEF StoreTopic, history, Aloof
<1>3. PICK q \in Places : q = f[1]
  BY FileParts
<1>4. /\ f = Topic(q)
      /\ \A g \in Files \ {f} : task'[g] = task[g]
      /\ task'[f].pc = "idle" /\ stored' = Row(task[f].says, q)
  BY <1>3, StoreShape DEF Topic
<1>5. /\ dir[q].topic # None /\ stored' = found
      /\ \A p \in Places \ {q} : dir[p].topic = None
  <2>1. dir[q].topic # None /\ stored' = found
    BY <1>1, <1>2, <1>4 DEF TopicTasks
  <2>. QED BY <1>1, <2>1, OneDirectory
<1>6. /\ \A p \in Places \ {q} : task'[Topic(p)] = task[Topic(p)]
      /\ \A p \in Places : task'[<<p, "index">>] = task[<<p, "index">>]
  BY <1>4, TopicsDiffer, TopicContent, FileParts
<1>7. TopicTasks'
  BY <1>1, <1>2, <1>4, <1>5, <1>6 DEF TopicTasks, Aloof, Topic
<1>8. /\ found # None /\ found.at # q => found.cat # q[1]
      /\ \/ found = Row(dir[q].topic, q)
         \/ Topic(q) \in dirty
         \/ call.pc = "topics"
  BY <1>1, <1>2, <1>4, <1>5 DEF TopicRow
<1>9. TopicRow'
  BY <1>2, <1>4, <1>5, <1>8 DEF TopicRow, Aloof, Topic
<1>. QED BY <1>1, <1>2, <1>6, <1>7, <1>9, TopicFiles, AloofPlaced
         DEF Tidy, Aloof

\* A row goes with its file; the row of another place stays.
LEMMA TidyGone ==
    ASSUME Shapes, Backed, Tidy, clean, NEW f \in Files, Gone(f)
    PROVE  Tidy'
<1>1. /\ failed = {} /\ Placed /\ Patched /\ DocumentRow /\ TopicTasks
      /\ TopicRow /\ Fresh
      /\ \A g \in Files : task[g].pc = "store" => task[g].says \in Contents
  BY TidyParts
<1>2. /\ Aloof /\ UNCHANGED <<stored, dirty>> /\ task[f].pc = "gone"
  BY DEF Gone, history, Aloof
<1>3. PICK q \in Places : q = f[1]
  BY FileParts
<1>4. /\ f = <<q, f[2]>>
      /\ \A g \in Files \ {f} : task'[g] = task[g]
      /\ \/ /\ f[2] = "index" /\ task'[f].pc = "idle"
            /\ row' = Without(row, q) /\ found' = found
         \/ /\ f[2] = "topic" /\ task'[f].pc = "forget"
            /\ found' = Without(found, q) /\ row' = row
  BY <1>3, GoneShape
<1>5. CASE f[2] = "index"
  <2>1. /\ f = <<q, "index">> /\ task'[f].pc = "idle"
        /\ row' = Without(row, q) /\ found' = found
    BY <1>4, <1>5
  <2>2. dir[q].index = None \/ f \in dirty
    BY <1>1, <1>2, <2>1, ContentOf DEF Fresh
  <2>3. \A p \in Places : task'[Topic(p)] = task[Topic(p)]
    BY <1>4, <2>1, TopicsDiffer, TopicContent
  <2>4. \A p \in Places : /\ Reading(p)' => Reading(p)
                          /\ Reading(p) => Reading(p)'
    BY ZenonT(40), <1>2, <1>4, <2>1, FileParts DEF Reading
  <2>5. ASSUME NEW p \in Places, dir[p].index # None,
               row = Row(dir[p].index, p)
        PROVE  row' = Row(dir[p].index, p) \/ <<p, "index">> \in dirty
    <3>1. CASE p = q
      BY <2>1, <2>2, <2>5, <3>1
    <3>2. CASE p # q
      <4>1. row.at = p
        BY <2>5 DEF Row
      <4>. QED BY <2>1, <2>5, <3>2, <4>1, WithoutShape
    <3>. QED BY <3>1, <3>2
  <2>6. DocumentRow'
    BY <1>1, <1>2, <2>4, <2>5 DEF DocumentRow, Aloof
  <2>. QED BY <1>1, <1>2, <2>1, <2>3, <2>6, IndexFiles, AloofPlaced
           DEF Tidy, Aloof
<1>6. CASE f[2] = "topic"
  <2>1. /\ f = Topic(q) /\ task'[f].pc = "forget"
        /\ found' = Without(found, q) /\ row' = row
    BY <1>4, <1>6 DEF Topic
  <2>2. dir[q].topic = None
    BY <1>1, <1>2, <2>1 DEF TopicTasks
  <2>3. /\ \A p \in Places \ {q} : task'[Topic(p)] = task[Topic(p)]
        /\ \A p \in Places : task'[<<p, "index">>] = task[<<p, "index">>]
    BY <1>4, <2>1, TopicsDiffer, TopicContent, FileParts
  <2>4. /\ found = None => found' = None
        /\ found' # None => found' = found
        /\ \A p \in Places \ {q} : \A x \in Contents :
             found = Row(x, p) => found' = found
    <3>1. ASSUME NEW p \in Places \ {q}, NEW x \in Contents, found = Row(x, p)
          PROVE  found' = found
      BY <2>1, <3>1, RowTyped, WithoutShape
    <3>. QED BY <2>1, <3>1, WithoutShape
  <2>5. TopicTasks'
    <3>1. ASSUME NEW p \in Places, task'[Topic(p)].pc = "store"
          PROVE  found' = Row(task'[Topic(p)].says, p)
      <4>1. p # q /\ task'[Topic(p)] = task[Topic(p)]
        BY <2>1, <2>3, <3>1
      <4>2. /\ found = Row(task[Topic(p)].says, p)
            /\ task[Topic(p)].says \in Contents
        BY <1>1, <3>1, <4>1, TopicContent DEF TopicTasks
      <4>. QED BY <2>4, <4>1, <4>2
    <3>2. call.pc \notin {"extract", "index", "topic", "remove", "front",
                          "move"}
      BY <1>1, <1>2, <2>1 DEF TopicTasks
    <3>. QED BY <1>1, <1>2, <2>1, <2>2, <2>3, <3>1, <3>2
             DEF TopicTasks, Aloof, Topic
  <2>6. TopicRow'
    <3>1. ASSUME NEW p \in Places, dir[p].topic # None
          PROVE  /\ p # q /\ dir[p].topic \in Contents
                 /\ task'[Topic(p)] = task[Topic(p)]
      BY <2>2, <2>3, <3>1, DirParts DEF Shapes
    <3>. QED BY <1>1, <1>2, <2>4, <3>1 DEF TopicRow, Aloof, Topic
  <2>. QED BY <1>1, <1>2, <2>1, <2>3, <2>5, <2>6, TopicFiles, AloofPlaced
           DEF Tidy, Aloof
<1>. QED BY <1>4, <1>5, <1>6

\* The row in SQLite goes after that of the search index.
LEMMA TidyForget ==
    ASSUME Shapes, Backed, Tidy, clean, NEW f \in Files, Forget(f)
    PROVE  Tidy'
<1>1. /\ failed = {} /\ Placed /\ Patched /\ DocumentRow /\ TopicTasks
      /\ TopicRow
  BY TidyParts
<1>2. /\ Aloof /\ UNCHANGED <<row, found, dirty>>
      /\ task[f].pc = "forget"
  BY DEF Forget, history, Aloof
<1>3. PICK q \in Places : q = f[1]
  BY FileParts
<1>4. /\ f = Topic(q)
      /\ \A g \in Files \ {f} : task'[g] = task[g]
      /\ task'[f].pc = "idle" /\ stored' = Without(stored, q)
  BY <1>3, ForgetShape DEF Topic
<1>5. dir[q].topic = None
  BY <1>1, <1>2, <1>4 DEF TopicTasks
<1>6. /\ \A p \in Places \ {q} : task'[Topic(p)] = task[Topic(p)]
      /\ \A p \in Places : task'[<<p, "index">>] = task[<<p, "index">>]
  BY <1>4, TopicsDiffer, TopicContent, FileParts
<1>7. TopicTasks'
  BY <1>1, <1>2, <1>4, <1>5, <1>6 DEF TopicTasks, Aloof, Topic
<1>8. stored # None /\ stored.at # q => stored' = stored
  BY <1>4, WithoutShape
<1>9. TopicRow'
  <2>1. ASSUME NEW p \in Places, dir[p].topic # None
        PROVE  p # q /\ task'[Topic(p)] = task[Topic(p)]
    BY <1>5, <1>6, <2>1
  <2>. QED BY <1>1, <1>2, <1>8, <2>1 DEF TopicRow, Aloof, Topic
<1>. QED BY <1>1, <1>2, <1>6, <1>7, <1>9, TopicFiles, AloofPlaced
         DEF Tidy, Aloof

\* A step of the cascade; nothing is marked as failed.
LEMMA TidyCascadeStep ==
    ASSUME Shapes, Backed, Tidy, clean', CascadeStep
    PROVE  Tidy'
<1>1. clean /\ ~Stop /\ \A f \in Files : ~TaskFails(f)
  BY CleanStays DEF Next
<1>2. ~Fix
  BY <1>1, TidyParts DEF Fix
<1>. QED BY <1>1, <1>2, CascadeCases, TidyBatch, TidyRead, TidyUpsert,
            TidyCompare, TidyIndex, TidyStore, TidyGone, TidyForget
         DEF TaskStep

\* At the beginning nothing is there.
LEMMA InitTidy ==
    ASSUME Init
    PROVE  Tidy
<1>1. /\ \A p \in Places : dir[p] = NoDir
      /\ \A f \in Files : task[f].pc = "idle"
      /\ call = NoCall /\ found = None /\ dirty = {} /\ failed = {}
  BY DEF Init, NoTask
<1>2. \A p \in Places : /\ dir[p].index = None /\ dir[p].topic = None
                        /\ ~IsDir(p)
  BY <1>1, NoDirTyped DEF IsDir
<1>3. Placed /\ Patched
  BY <1>1, <1>2, NoCallTyped DEF Placed, Patched, Patching
<1>4. DocumentRow /\ TopicRow
  BY <1>2 DEF DocumentRow, TopicRow
<1>5. TopicTasks
  BY <1>1, NoCallTyped, TopicContent DEF TopicTasks
<1>. QED BY <1>1, <1>3, <1>4, <1>5 DEF Tidy

\* As long as documents are only created, patched and deleted, by calls that
\* begin when the cascade is done, and nothing fails, every topic file has its
\* rows in both stores once all is processed, and the document's row leads to
\* its directory.
THEOREM DocumentIsFound == Patient => (Spec => []Findable)
<1>. SUFFICES ASSUME Patient PROVE Spec => []Findable
  OBVIOUS
<1>. DEFINE I == Shapes /\ Backed /\ Tidy
<1>1. Init => I
  BY InitBacked, InitTidy
<1>2. I /\ [Next]_vars => I'
  <2>. SUFFICES ASSUME I, [Next]_vars PROVE I'
    OBVIOUS
  <2>1. Shapes' /\ Backed'
    BY StepBacked
  <2>2. Tidy'
    <3>1. CASE ~clean'
      BY <3>1 DEF Tidy
    <3>2. CASE clean' /\ CallStep
      BY <3>2, TidyCallStep
    <3>3. CASE clean' /\ CascadeStep
      BY <3>3, TidyCascadeStep
    <3>4. CASE UNCHANGED vars
      <4>1. /\ Aloof /\ UNCHANGED <<row, stored, found, dirty, task, clean>>
        BY <3>4 DEF vars, Aloof
      <4>. QED BY <4>1, AloofPlaced, IndexFiles, TopicFiles DEF Tidy, Aloof
    <3>. QED BY <3>1, <3>2, <3>3, <3>4 DEF Next
  <2>. QED BY <2>1, <2>2
<1>3. I => Findable
  <2>. SUFFICES ASSUME I, Quiet, clean, NEW p \in Places, dir[p].topic # None
                PROVE  /\ row = Row(dir[p].index, p)
                       /\ found = Row(dir[p].topic, p)
                       /\ stored = found
    BY DEF Findable
  <2>1. DocumentRow /\ TopicRow
    BY TidyParts
  <2>2. /\ <<p, "index">> \notin dirty /\ ~Reading(p)
        /\ Topic(p) \notin dirty /\ task[Topic(p)].pc = "idle"
        /\ call.pc = "idle"
    BY AtRest, FileParts, TopicContent, NoCallTyped DEF Pending, Reading
  <2>3. dir[p].index # None /\ dir[p].topic \in Contents
    BY IndexIsDir, DirParts DEF Shapes
  <2>4. row = Row(dir[p].index, p) /\ found = Row(dir[p].topic, p)
    BY <2>1, <2>2, <2>3 DEF DocumentRow, TopicRow
  <2>5. found # None /\ found.at = p
    BY <2>3, <2>4, RowTyped
  <2>. QED BY <2>1, <2>2, <2>4, <2>5 DEF TopicRow
<1>. QED BY <1>1, <1>2, <1>3, PTL DEF Spec
=============================================================================
