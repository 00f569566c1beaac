---------------------------- MODULE CanonicalPath ----------------------------
(***************************************************************************)
(* FilePath::getCanonicalPath(root) (src/kdumptool/fileutil.cc): the name  *)
(* of a file without symbolic links, where a link that starts with a slash *)
(* starts at root.  kdumptool resolves its save directory so, below the    *)
(* place where the crash kernel mounted the real system.                   *)
(*                                                                         *)
(* A name is the sequence of its components, "." and ".." included; the    *)
(* file system fs maps the names that exist to                             *)
(*   [kind |-> "dir" | "file" | "link", abs |-> BOOLEAN, to |-> name]      *)
(* root is <<>> for "/".  Running slashes, and the current directory as    *)
(* the start of a relative name, are left out.                             *)
(***************************************************************************)
EXTENDS Naturals, Sequences, SequencesExt

CONSTANT MaxLinks    \* MAXSYMLINKS

ASSUME CanonicalAssumption == MaxLinks \in Nat

NoText == <<"">>     \* the empty string; <<>> is "/"
Throws == <<"throws">>

\* Cutting "/x" at its last slash leaves no slash
Up(root, ret) == IF root = <<>> /\ Len(ret) = 1 THEN NoText ELSE Front(ret)

\* the character before the empty string is a zero byte of its length
Down(ret, name) == IF ret = NoText THEN <<name>> ELSE Append(ret, name)

\* altered: an absolute link starts at the system's own root
StartUnconfined(root, ret, link) == IF link.abs THEN <<>> ELSE Up(root, ret)

\* where the target of the link ret is looked up
Start(root, ret, link) == IF link.abs THEN root ELSE Up(root, ret)

Is(fs, path, kind) == path \in DOMAIN fs /\ fs[path].kind = kind

RECURSIVE Walk(_, _, _, _, _)

Walk(fs, root, ret, todo, links) ==
    IF todo = <<>> THEN ret
    ELSE LET name == Head(todo)
             here == Down(ret, name)
         IN  CASE name = "." ->
                    Walk(fs, root, ret, Tail(todo), links)
               [] name = ".." ->
                    Walk(fs, root,
                         IF ret # NoText /\ Len(ret) > Len(root) THEN Up(root, ret) ELSE ret,
                         Tail(todo), links)
               [] Is(fs, here, "link") ->
                    IF links = MaxLinks THEN Throws    \* ELOOP
                    ELSE Walk(fs, root, Start(root, here, fs[here]),
                              fs[here].to \o Tail(todo), links + 1)
               [] Is(fs, here, "file") /\ Tail(todo) # <<>> -> Throws    \* ENOTDIR
               [] OTHER -> Walk(fs, root, here, Tail(todo), links)

GetCanonicalPath(fs, root, path) == Walk(fs, root, root, path, 0)

(* ---- the kernel's way: one directory after the other, inside root ---- *)

Endless == <<"endless">>

RECURSIVE Lookup(_, _, _, _, _)

Lookup(fs, root, dir, path, depth) ==
    LET step(d, name) ==
            LET here == Append(d, name)
            IN  CASE d = Endless \/ name = "." -> d
                  [] name = ".." -> IF d = root THEN root ELSE Front(d)
                  [] Is(fs, here, "link") ->
                       IF depth = 0 THEN Endless
                       ELSE Lookup(fs, root, IF fs[here].abs THEN root ELSE d,
                                   fs[here].to, depth - 1)
                  [] OTHER -> here
    IN  FoldLeft(step, dir, path)

(***************************************************************************)
(* The canonical name is the one a process confined to root would end at:  *)
(* no link, and no row of "..", leads out of it, and a link is followed    *)
(* wherever it stands.  Exceptions: endless links and a file that is used  *)
(* as a directory throw (fileutil.cc:291, 296), and a name that climbs     *)
(* back to "/" comes out empty (fileutil.cc:269, 294).                     *)
(***************************************************************************)
FollowsLinks(fs, root, path) ==
    LET r == GetCanonicalPath(fs, root, path)
        k == Lookup(fs, root, root, path, MaxLinks)
    IN  r # Throws =>
          /\ r = k \/ (r = NoText /\ k = <<>> /\ root = <<>>)
          /\ r # NoText => IsPrefix(root, r)
          /\ \A n \in 1..Len(r) : n > Len(root) => ~Is(fs, SubSeq(r, 1, n), "link")
=============================================================================
