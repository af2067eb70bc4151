-------------------------- MODULE DiskCacheProofs --------------------------
(* Theorems about DiskCache, for any number of calls, every time_expire and *)
(* every mix of operations, with crashes.                                   *)
EXTENDS DiskCache, SequenceTheorems, FiniteSetTheorems, TLAPS

(* The types, and which step belongs to which operation. *)
CallRecord ==
  [pc : {"idle", "open", "read", "apply", "create", "locked", "decide", "compute",
         "store", "write", "remove", "clear", "done", "failed", "dead"},
   op : Op \cup {"none"}, expire : Int, handle : Nat, exists : BOOLEAN,
   item : Content, now : Nat, value : Nat, todo : SUBSET Name]

DiskTypeOK ==
  /\ usage \in Usage /\ clock \in Nat \ {0}
  /\ file \in Seq(Content) /\ name \in [Name -> 0..Len(file)]
  /\ call \in [Call -> CallRecord]

Matches(r) ==
  /\ r.pc # "idle" /\ r.op \in usage.ops
  /\ r.pc \in {"open", "read", "decide"} => r.op \in {"get", "delete"}
  /\ r.pc \in {"compute", "store", "write"} => r.op = "get" /\ r.now # 0
  /\ r.pc = "remove" => r.op = "delete" /\ r.item # Empty
  /\ r.pc = "clear" => r.op = "clear"
  /\ r.pc \in {"apply", "create", "locked"} => r.op # "clear"
  /\ r.op # "get" => r.now = 0
  /\ r.pc = "create" => ~r.exists
StepsMatch ==
  \A c \in Call :
    /\ call[c] = NotCalled \/ Matches(call[c])
    /\ call[c].pc \in {"read", "locked", "write"} => call[c].handle \in 1..Len(file)

(* The files that stand for the key, or did when a call has opened them,    *)
(* and those of the statistics: no file is both.                            *)
Opens(r, n) ==
  \/ r.pc \in {"read", "write"} /\ n = "key"
  \/ r.pc = "locked" /\ n = (IF r.op = "increment" THEN "key" ELSE "statistics")
FileOf(i, n) == name[n] = i \/ \E c \in Call : Opens(call[c], n) /\ call[c].handle = i
FilesApart == \A i \in 1..Len(file) : ~(FileOf(i, "key") /\ FileOf(i, "statistics"))

DiskInv == DiskTypeOK /\ StepsMatch /\ FilesApart

(* Of the empty files. *)
EmptyInv ==
  (\A c \in Call : ~At(c, "dead")) =>
    \A i \in 1..Len(file) :
      file[i] = Empty => \E c \in Call : Writing(c) /\ call[c].handle = i

(* A value is not from before the time in its file, and a call that has     *)
(* computed one has not done it before it looked at the clock.              *)
Ordered(content) == content # Empty => content[1] <= content[2]
Timely(r) ==
  /\ Ordered(r.item)
  /\ r.now <= clock
  /\ r.pc \in {"store", "write"} => r.value >= r.now
  /\ r.pc \in {"open", "read", "apply", "create", "locked"} /\ r.now # 0 => r.value >= r.now
  /\ r.pc = "done" /\ r.op = "get" => r.value >= r.now \/ r.value > r.now - r.expire
TimesInv ==
  "increment" \notin usage.ops =>
    /\ \A i \in 1..Len(file) : FileOf(i, "key") => Ordered(file[i])
    /\ \A c \in Call : Timely(call[c])

(* When the files are there from the start and nobody clears the cache,     *)
(* that of the statistics stays where it is, and that of a key which is     *)
(* only incremented does, too.                                              *)
Kept(n, i) ==
  /\ name[n] = i /\ i \in 1..Len(file) /\ file[i] # Empty
  /\ \A c \in Call :
       /\ At(c, "locked") /\ Target(c) = n => call[c].exists /\ call[c].handle = i
       /\ At(c, "create") => Target(c) # n
Warm == usage.warm /\ "clear" \notin usage.ops
KeptInv ==
  Warm => Kept("statistics", 2) /\ (usage.ops = {"increment"} => Kept("key", 1))

(* The numbers. *)
Counting == {c \in Call : Counted(c) /\ ~Is(c, "increment")}
Incrementing == {c \in Call : Counted(c)}
CountsInv ==
  Warm /\ (\A c \in Call : ~At(c, "dead")) =>
    /\ file[2][1] = Cardinality(Counting)
    /\ usage.ops = {"increment"} => file[1][2] = Cardinality(Incrementing)

-----------------------------------------------------------------------------
(* The step of one call: which record it has after it.  The facts about the *)
(* record are those that the invariants need.                               *)
Becomes(c, r) ==
  /\ r \in CallRecord
  /\ call' = [call EXCEPT ![c] = r]

(* The others stay as they are. *)
LEMMA Becoming ==
  ASSUME DiskTypeOK, NEW c \in Call, NEW r, Becomes(c, r)
  PROVE  /\ call' \in [Call -> CallRecord]
         /\ \A d \in Call : call'[d] = IF d = c THEN r ELSE call[d]
BY DEF Becomes, DiskTypeOK

(* The contents of a file that is not empty. *)
LEMMA Contents ==
  /\ Empty \in Content /\ <<0, 0>> \in Content /\ <<0, 0>> # Empty
  /\ \A x \in Content : x # Empty => x \in Nat \X Nat
  /\ \A x, y \in Nat : <<x, y>> \in Content /\ <<x, y>> # Empty
BY DEF Content, Empty

(* What Start makes of a call. *)
LEMMA StartShape ==
  ASSUME DiskInv, NEW c \in Call, NEW op \in usage.ops, NEW expire \in Expire,
         Start(c, op, expire)
  PROVE  \E r : /\ Becomes(c, r) /\ r.op = op /\ r.now = 0 /\ r.item = Empty /\ r.value = 0
               /\ r.expire = expire /\ r.todo \subseteq Name /\ ~r.exists /\ r.handle = NoFile
               /\ r.pc = CASE op = "increment" -> "apply" [] op = "clear" -> "clear"
                           [] OTHER -> "open"
<1>1. op \in Op /\ expire \in Int
  BY ExpireAssumption DEF DiskInv, DiskTypeOK, Usage
<1>2. PICK pc, todo :
        /\ pc = CASE op = "increment" -> "apply" [] op = "clear" -> "clear" [] OTHER -> "open"
        /\ todo = IF op = "clear" THEN Name ELSE {}
        /\ call' = [call EXCEPT ![c] = [NotCalled EXCEPT !.pc = pc, !.op = op, !.expire = expire,
                                                        !.todo = todo]]
  BY Zenon DEF Start
<1> DEFINE r == [NotCalled EXCEPT !.pc = pc, !.op = op, !.expire = expire, !.todo = todo]
<1>3. NotCalled \in CallRecord /\ NotCalled.now = 0 /\ NotCalled.item = Empty
      /\ NotCalled.value = 0 /\ ~NotCalled.exists /\ NotCalled.handle = NoFile
  BY Contents DEF NotCalled, CallRecord, NoFile, Op, Name
<1>4. pc \in {"apply", "clear", "open"} /\ todo \in SUBSET Name
  BY <1>2
<1>5. r \in CallRecord
  BY <1>1, <1>3, <1>4 DEF CallRecord
<1>6. /\ r.pc = pc /\ r.op = op /\ r.expire = expire /\ r.todo = todo
      /\ r.now = 0 /\ r.item = Empty /\ r.value = 0 /\ ~r.exists /\ r.handle = NoFile
  BY <1>3 DEF CallRecord
<1>7. Becomes(c, r)
  BY <1>2, <1>5 DEF Becomes
<1> HIDE DEF r
<1> QED
  BY <1>2, <1>4, <1>6, <1>7

(* __getitem__ opens what the key stands for. *)
LEMMA OpenShape ==
  ASSUME DiskInv, NEW c \in Call, Open(c)
  PROVE  \E r : /\ Becomes(c, r) /\ r.op = call[c].op /\ r.expire = call[c].expire
               /\ r.pc = (IF name["key"] = NoFile THEN "apply" ELSE "read")
               /\ r.handle = name["key"] /\ r.exists = call[c].exists
               /\ r.item = call[c].item /\ r.now = call[c].now /\ r.value = call[c].value
<1> DEFINE r == [call[c] EXCEPT !.pc = IF name["key"] = NoFile THEN "apply" ELSE "read",
                                 !.handle = name["key"]]
<1>1. call[c] \in CallRecord
  BY DEF DiskInv, DiskTypeOK
<1>2. call' = [call EXCEPT ![c] = r]
  BY DEF Open, DiskInv, DiskTypeOK
<1>3. name["key"] \in Nat
  BY DEF DiskInv, DiskTypeOK, Name
<1>4. r \in CallRecord
  BY <1>1, <1>3 DEF CallRecord
<1>5. /\ r.op = call[c].op /\ r.expire = call[c].expire
      /\ r.pc = (IF name["key"] = NoFile THEN "apply" ELSE "read")
      /\ r.handle = name["key"] /\ r.exists = call[c].exists
      /\ r.item = call[c].item /\ r.now = call[c].now /\ r.value = call[c].value
  BY <1>1, <1>3 DEF CallRecord
<1> HIDE DEF r
<1> QED
  BY <1>2, <1>4, <1>5 DEF Becomes

(* The item is what the file has. *)
LEMMA LoadShape ==
  ASSUME DiskInv, NEW c \in Call, Load(c)
  PROVE  \E r : /\ Becomes(c, r) /\ r.op = call[c].op /\ r.expire = call[c].expire
               /\ r.pc = (IF file[call[c].handle] = Empty THEN "failed" ELSE "apply")
               /\ r.handle = call[c].handle /\ r.exists = call[c].exists
               /\ r.item = file[call[c].handle] /\ r.now = call[c].now /\ r.value = call[c].value
<1> DEFINE r == [call[c] EXCEPT !.pc = IF file[call[c].handle] = Empty THEN "failed" ELSE "apply",
                                 !.item = file[call[c].handle]]
<1>1. call[c] \in CallRecord
  BY DEF DiskInv, DiskTypeOK
<1>2. call' = [call EXCEPT ![c] = r]
  BY DEF Load, DiskInv, DiskTypeOK
<1>3. file[call[c].handle] \in Content
  BY DEF DiskInv, DiskTypeOK, StepsMatch, Load, At
<1>4. r \in CallRecord
  BY <1>1, <1>3 DEF CallRecord
<1>5. /\ r.op = call[c].op /\ r.expire = call[c].expire
      /\ r.pc = (IF file[call[c].handle] = Empty THEN "failed" ELSE "apply")
      /\ r.handle = call[c].handle /\ r.exists = call[c].exists
      /\ r.item = file[call[c].handle] /\ r.now = call[c].now /\ r.value = call[c].value
  BY <1>1, <1>3 DEF CallRecord
<1> HIDE DEF r
<1> QED
  BY <1>2, <1>4, <1>5 DEF Becomes

(* safe_apply opens its file, if it is there. *)
LEMMA OpenToApplyShape ==
  ASSUME DiskInv, NEW c \in Call, OpenToApply(c)
  PROVE  \E r : /\ Becomes(c, r) /\ r.op = call[c].op /\ r.expire = call[c].expire
               /\ r.pc = (IF name[Target(c)] = NoFile THEN "create" ELSE "locked")
               /\ r.handle = name[Target(c)] /\ r.exists = (name[Target(c)] # NoFile)
               /\ r.item = call[c].item /\ r.now = call[c].now /\ r.value = call[c].value
<1> DEFINE r == [call[c] EXCEPT !.pc = IF name[Target(c)] = NoFile THEN "create" ELSE "locked",
                                 !.handle = name[Target(c)],
                                 !.exists = name[Target(c)] # NoFile]
<1>1. call[c] \in CallRecord
  BY DEF DiskInv, DiskTypeOK
<1>2. call' = [call EXCEPT ![c] = r]
  BY DEF OpenToApply, DiskInv, DiskTypeOK
<1>3. name[Target(c)] \in Nat
  BY DEF DiskInv, DiskTypeOK, Target, Name
<1>4. r \in CallRecord
  BY <1>1, <1>3 DEF CallRecord
<1>5. /\ r.op = call[c].op /\ r.expire = call[c].expire
      /\ r.pc = (IF name[Target(c)] = NoFile THEN "create" ELSE "locked")
      /\ r.handle = name[Target(c)] /\ r.exists = (name[Target(c)] # NoFile)
      /\ r.item = call[c].item /\ r.now = call[c].now /\ r.value = call[c].value
  BY <1>1, <1>3 DEF CallRecord
<1> HIDE DEF r
<1> QED
  BY <1>2, <1>4, <1>5 DEF Becomes

(* safe_apply makes its file, if it is still not there. *)
LEMMA CreateShape ==
  ASSUME DiskInv, NEW c \in Call, Create(c)
  PROVE  \E r : /\ Becomes(c, r) /\ r.op = call[c].op /\ r.expire = call[c].expire
               /\ r.pc = "locked"
               /\ r.handle = Opened(Target(c)) /\ r.exists = call[c].exists
               /\ r.item = call[c].item /\ r.now = call[c].now /\ r.value = call[c].value
<1> DEFINE r == [call[c] EXCEPT !.pc = "locked", !.handle = Opened(Target(c))]
<1>1. call[c] \in CallRecord
  BY DEF DiskInv, DiskTypeOK
<1>2. call' = [call EXCEPT ![c] = r]
  BY DEF Create, DiskInv, DiskTypeOK
<1>3. Opened(Target(c)) \in Nat
  BY LenProperties DEF DiskInv, DiskTypeOK, Target, Name, Opened
<1>4. r \in CallRecord
  BY <1>1, <1>3 DEF CallRecord
<1>5. /\ r.op = call[c].op /\ r.expire = call[c].expire
      /\ r.pc = "locked"
      /\ r.handle = Opened(Target(c)) /\ r.exists = call[c].exists
      /\ r.item = call[c].item /\ r.now = call[c].now /\ r.value = call[c].value
  BY <1>1, <1>3 DEF CallRecord
<1> HIDE DEF r
<1> QED
  BY <1>2, <1>4, <1>5 DEF Becomes

(* What safe_apply reads. *)
Read(c) == IF call[c].exists THEN file[call[c].handle] ELSE <<0, 0>>

(* safe_apply goes on from its file, or fails. *)
LEMMA ApplyShape ==
  ASSUME DiskInv, NEW c \in Call, Apply(c)
  PROVE  \E r : /\ Becomes(c, r) /\ r.op = call[c].op /\ r.expire = call[c].expire
               /\ r.handle = call[c].handle /\ r.exists = call[c].exists
               /\ r.item = call[c].item /\ r.now = call[c].now /\ r.value = call[c].value
               /\ \/ Read(c) = Empty /\ r.pc = "failed" /\ file' = file
                  \/ /\ Read(c) # Empty
                     /\ file' = [file EXCEPT ![call[c].handle] = Applied(c, Read(c))]
                     /\ r.pc = (IF Is(c, "increment") \/ call[c].now # 0
                                THEN "done" ELSE "decide")
<1>1. call[c] \in CallRecord
  BY DEF DiskInv, DiskTypeOK
<1>2. PICK pc \in {"failed", "done", "decide"} :
        /\ call' = [call EXCEPT ![c].pc = pc]
        /\ \/ Read(c) = Empty /\ pc = "failed" /\ file' = file
           \/ /\ Read(c) # Empty
              /\ file' = [file EXCEPT ![call[c].handle] = Applied(c, Read(c))]
              /\ pc = (IF Is(c, "increment") \/ call[c].now # 0 THEN "done" ELSE "decide")
  BY DEF Apply, Goto, Read
<1> DEFINE r == [call[c] EXCEPT !.pc = pc]
<1>3. call' = [call EXCEPT ![c] = r]
  BY <1>2 DEF DiskInv, DiskTypeOK
<1>4. r \in CallRecord
  BY <1>1, <1>2 DEF CallRecord
<1>5. /\ r.op = call[c].op /\ r.expire = call[c].expire
      /\ r.pc = pc /\ r.handle = call[c].handle /\ r.exists = call[c].exists
      /\ r.item = call[c].item /\ r.now = call[c].now /\ r.value = call[c].value
  BY <1>1, <1>2 DEF CallRecord
<1>6. Becomes(c, r)
  BY <1>3, <1>4 DEF Becomes
<1> HIDE DEF r
<1> QED
  BY <1>2, <1>5, <1>6

(* __call__ deletes, returns what it has read, or computes. *)
LEMMA DecideShape ==
  ASSUME DiskInv, NEW c \in Call, Decide(c)
  PROVE  \E r : /\ Becomes(c, r) /\ r.op = call[c].op /\ r.expire = call[c].expire
               /\ r.handle = call[c].handle /\ r.exists = call[c].exists
               /\ r.item = call[c].item
               /\ \/ /\ Is(c, "delete") /\ r.now = call[c].now /\ r.value = call[c].value
                     /\ r.pc = (IF call[c].item = Empty THEN "done" ELSE "remove")
                  \/ /\ Is(c, "get") /\ Fresh(c) /\ r.pc = "done" /\ r.now = clock
                     /\ r.value = call[c].item[2]
                  \/ /\ Is(c, "get") /\ r.pc = "compute" /\ r.now = clock
                     /\ r.value = call[c].value
<1>1. call[c] \in CallRecord /\ clock \in Nat
  BY DEF DiskInv, DiskTypeOK
<1>2. CASE Is(c, "delete") /\ Goto(c, IF call[c].item = Empty THEN "done" ELSE "remove")
  <2> DEFINE r == [call[c] EXCEPT !.pc = IF call[c].item = Empty THEN "done" ELSE "remove"]
  <2>1. Becomes(c, r)
    BY <1>1, <1>2 DEF Becomes, Goto, DiskInv, DiskTypeOK, CallRecord
  <2>2. /\ r.op = call[c].op /\ r.expire = call[c].expire
        /\ r.pc = (IF call[c].item = Empty THEN "done" ELSE "remove")
        /\ r.handle = call[c].handle /\ r.exists = call[c].exists
        /\ r.item = call[c].item /\ r.now = call[c].now /\ r.value = call[c].value
    BY <1>1 DEF CallRecord
  <2> HIDE DEF r
  <2> QED
    BY <1>2, <2>1, <2>2
<1>3. CASE /\ Is(c, "get") /\ Fresh(c)
           /\ call' = [call EXCEPT ![c].pc = "done", ![c].now = clock,
                                   ![c].value = call[c].item[2]]
  <2>1. call[c].item[2] \in Nat
    BY <1>1, <1>3, Contents DEF Fresh, CallRecord
  <2> DEFINE r == [call[c] EXCEPT !.pc = "done", !.now = clock, !.value = call[c].item[2]]
  <2>2. call' = [call EXCEPT ![c] = r]
    BY <1>3 DEF DiskInv, DiskTypeOK
  <2>3. r \in CallRecord
    BY <1>1, <2>1 DEF CallRecord
  <2>4. /\ r.op = call[c].op /\ r.expire = call[c].expire
        /\ r.pc = "done" /\ r.handle = call[c].handle /\ r.exists = call[c].exists
        /\ r.item = call[c].item /\ r.now = clock /\ r.value = call[c].item[2]
    BY <1>1 DEF CallRecord
  <2>5. Becomes(c, r)
    BY <2>2, <2>3 DEF Becomes
  <2> HIDE DEF r
  <2> QED
    BY <1>3, <2>4, <2>5
<1>4. CASE /\ Is(c, "get")
           /\ call' = [call EXCEPT ![c].pc = "compute", ![c].now = clock]
  <2> DEFINE r == [call[c] EXCEPT !.pc = "compute", !.now = clock]
  <2>1. call' = [call EXCEPT ![c] = r]
    BY <1>4 DEF DiskInv, DiskTypeOK
  <2>2. r \in CallRecord
    BY <1>1 DEF CallRecord
  <2>3. /\ r.op = call[c].op /\ r.expire = call[c].expire
        /\ r.pc = "compute" /\ r.handle = call[c].handle /\ r.exists = call[c].exists
        /\ r.item = call[c].item /\ r.now = clock /\ r.value = call[c].value
    BY <1>1 DEF CallRecord
  <2>4. Becomes(c, r)
    BY <2>1, <2>2 DEF Becomes
  <2> HIDE DEF r
  <2> QED
    BY <1>4, <2>3, <2>4
<1> QED
  BY <1>2, <1>3, <1>4 DEF Decide

(* The value is computed now. *)
LEMMA ComputeShape ==
  ASSUME DiskInv, NEW c \in Call, Compute(c)
  PROVE  \E r : /\ Becomes(c, r) /\ r.op = call[c].op /\ r.expire = call[c].expire
               /\ r.pc = "store"
               /\ r.handle = call[c].handle /\ r.exists = call[c].exists
               /\ r.item = call[c].item /\ r.now = call[c].now /\ r.value = clock
<1> DEFINE r == [call[c] EXCEPT !.pc = "store", !.value = clock]
<1>1. call[c] \in CallRecord
  BY DEF DiskInv, DiskTypeOK
<1>2. call' = [call EXCEPT ![c] = r]
  BY DEF Compute, DiskInv, DiskTypeOK
<1>3. clock \in Nat
  BY DEF DiskInv, DiskTypeOK
<1>4. r \in CallRecord
  BY <1>1, <1>3 DEF CallRecord
<1>5. /\ r.op = call[c].op /\ r.expire = call[c].expire
      /\ r.pc = "store"
      /\ r.handle = call[c].handle /\ r.exists = call[c].exists
      /\ r.item = call[c].item /\ r.now = call[c].now /\ r.value = clock
  BY <1>1, <1>3 DEF CallRecord
<1> HIDE DEF r
<1> QED
  BY <1>2, <1>4, <1>5 DEF Becomes

(* __setitem__ opens the file of the key, or makes it. *)
LEMMA OpenToStoreShape ==
  ASSUME DiskInv, NEW c \in Call, OpenToStore(c)
  PROVE  \E r : /\ Becomes(c, r) /\ r.op = call[c].op /\ r.expire = call[c].expire
               /\ r.pc = "write"
               /\ r.handle = Opened("key") /\ r.exists = call[c].exists
               /\ r.item = call[c].item /\ r.now = call[c].now /\ r.value = call[c].value
<1> DEFINE r == [call[c] EXCEPT !.pc = "write", !.handle = Opened("key")]
<1>1. call[c] \in CallRecord
  BY DEF DiskInv, DiskTypeOK
<1>2. call' = [call EXCEPT ![c] = r]
  BY DEF OpenToStore, DiskInv, DiskTypeOK
<1>3. Opened("key") \in Nat
  BY LenProperties DEF DiskInv, DiskTypeOK, Name, Opened
<1>4. r \in CallRecord
  BY <1>1, <1>3 DEF CallRecord
<1>5. /\ r.op = call[c].op /\ r.expire = call[c].expire
      /\ r.pc = "write"
      /\ r.handle = Opened("key") /\ r.exists = call[c].exists
      /\ r.item = call[c].item /\ r.now = call[c].now /\ r.value = call[c].value
  BY <1>1, <1>3 DEF CallRecord
<1> HIDE DEF r
<1> QED
  BY <1>2, <1>4, <1>5 DEF Becomes

(* The value is written. *)
LEMMA DumpShape ==
  ASSUME DiskInv, NEW c \in Call, Dump(c)
  PROVE  \E r : /\ Becomes(c, r) /\ r.op = call[c].op /\ r.expire = call[c].expire
               /\ r.pc = "apply"
               /\ r.handle = call[c].handle /\ r.exists = call[c].exists
               /\ r.item = call[c].item /\ r.now = call[c].now /\ r.value = call[c].value
<1> DEFINE r == [call[c] EXCEPT !.pc = "apply"]
<1>1. call[c] \in CallRecord
  BY DEF DiskInv, DiskTypeOK
<1>2. call' = [call EXCEPT ![c] = r]
  BY DEF Dump, Goto, DiskInv, DiskTypeOK
<1>3. r \in CallRecord
  BY <1>1 DEF CallRecord
<1>4. /\ r.op = call[c].op /\ r.expire = call[c].expire
      /\ r.pc = "apply"
      /\ r.handle = call[c].handle /\ r.exists = call[c].exists
      /\ r.item = call[c].item /\ r.now = call[c].now /\ r.value = call[c].value
  BY <1>1 DEF CallRecord
<1> HIDE DEF r
<1> QED
  BY <1>2, <1>3, <1>4 DEF Becomes

(* __delitem__ removes the file of the key. *)
LEMMA DeleteShape ==
  ASSUME DiskInv, NEW c \in Call, Delete(c)
  PROVE  \E r : /\ Becomes(c, r) /\ r.op = call[c].op /\ r.expire = call[c].expire
               /\ r.pc = (IF name["key"] = NoFile THEN "failed" ELSE "done")
               /\ r.handle = call[c].handle /\ r.exists = call[c].exists
               /\ r.item = call[c].item /\ r.now = call[c].now /\ r.value = call[c].value
<1> DEFINE r == [call[c] EXCEPT !.pc = IF name["key"] = NoFile THEN "failed" ELSE "done"]
<1>1. call[c] \in CallRecord
  BY DEF DiskInv, DiskTypeOK
<1>2. call' = [call EXCEPT ![c] = r]
  BY DEF Delete, Goto, DiskInv, DiskTypeOK
<1>3. r \in CallRecord
  BY <1>1 DEF CallRecord
<1>4. /\ r.op = call[c].op /\ r.expire = call[c].expire
      /\ r.pc = (IF name["key"] = NoFile THEN "failed" ELSE "done")
      /\ r.handle = call[c].handle /\ r.exists = call[c].exists
      /\ r.item = call[c].item /\ r.now = call[c].now /\ r.value = call[c].value
  BY <1>1 DEF CallRecord
<1> HIDE DEF r
<1> QED
  BY <1>2, <1>3, <1>4 DEF Becomes

(* clear removes one file after the other. *)
LEMMA ClearShape ==
  ASSUME DiskInv, NEW c \in Call, Clear(c)
  PROVE  \E r : /\ Becomes(c, r) /\ r.op = call[c].op /\ r.expire = call[c].expire
               /\ r.pc \in {"done", "clear"}
               /\ r.handle = call[c].handle /\ r.exists = call[c].exists
               /\ r.item = call[c].item /\ r.now = call[c].now /\ r.value = call[c].value
<1> DEFINE r == [call[c] EXCEPT !.todo = call'[c].todo, !.pc = call'[c].pc]
<1>1. call[c] \in CallRecord
  BY DEF DiskInv, DiskTypeOK
<1>2. call' = [call EXCEPT ![c] = r]
  BY DEF Clear, DiskInv, DiskTypeOK
<1>3. call'[c].pc \in {"done", "clear"} /\ call'[c].todo \in SUBSET Name
  BY DEF DiskInv, DiskTypeOK, CallRecord, Clear
<1>4. r \in CallRecord
  BY <1>1, <1>3 DEF CallRecord
<1>5. /\ r.op = call[c].op /\ r.expire = call[c].expire
      /\ r.pc \in {"done", "clear"}
      /\ r.handle = call[c].handle /\ r.exists = call[c].exists
      /\ r.item = call[c].item /\ r.now = call[c].now /\ r.value = call[c].value
  BY <1>1, <1>3 DEF CallRecord
<1> HIDE DEF r
<1> QED
  BY <1>2, <1>4, <1>5 DEF Becomes

-----------------------------------------------------------------------------
(* The types and files after a step: no file is of the key and of the       *)
(* statistics when the step opens or names a file of the name it had, or a  *)
(* new one.                                                                 *)
LEMMA DiskKept ==
  ASSUME DiskInv, NEW c \in Call, NEW r, Becomes(c, r), UNCHANGED <<usage, clock>>,
         Matches(r), NEW m \in Name,
         file' \in Seq(Content), Len(file') >= Len(file), name' \in [Name -> 0..Len(file')],
         r.pc \in {"read", "locked", "write"} => r.handle \in 1..Len(file'),
         \A n \in Name, i \in 1..Len(file') :
           name'[n] = i \/ (Opens(r, n) /\ r.handle = i) =>
             FileOf(i, n) \/ (i = Len(file) + 1 /\ n = m)
  PROVE  DiskInv'
<1>1. /\ call' \in [Call -> CallRecord]
      /\ \A d \in Call : call'[d] = IF d = c THEN r ELSE call[d]
  BY Becoming DEF DiskInv
<1>2. Len(file) \in Nat /\ Len(file') \in Nat
  BY LenProperties DEF DiskInv, DiskTypeOK
<1>3. DiskTypeOK'
  BY <1>1 DEF DiskInv, DiskTypeOK
<1>4. \A x : Matches(x)' <=> Matches(x)
  BY DEF Matches
<1>5. StepsMatch'
  BY <1>1, <1>2, <1>4 DEF DiskInv, StepsMatch
<1>6. \A n \in Name, i \in 1..Len(file') :
        FileOf(i, n)' => FileOf(i, n) \/ (i = Len(file) + 1 /\ n = m)
  BY <1>1 DEF FileOf
<1>7. \A n \in Name : ~FileOf(Len(file) + 1, n)
  <2>1. \A n \in Name : name[n] # Len(file) + 1
    BY <1>2 DEF DiskInv, DiskTypeOK
  <2>2. \A d \in Call, n \in Name : Opens(call[d], n) => call[d].handle \in 1..Len(file)
    BY DEF DiskInv, StepsMatch, Opens
  <2> QED
    BY <1>2, <2>1, <2>2 DEF FileOf
<1>8. FilesApart'
  <2> SUFFICES ASSUME NEW i \in 1..Len(file'), FileOf(i, "key")', FileOf(i, "statistics")'
               PROVE  FALSE
    BY DEF FilesApart
  <2>1. "key" \in Name /\ "statistics" \in Name
    BY DEF Name
  <2>2. \/ FileOf(i, "key") /\ FileOf(i, "statistics")
        \/ i = Len(file) + 1
    BY <1>6, <2>1
  <2>3. CASE i # Len(file) + 1
    <3>1. FileOf(i, "key") /\ FileOf(i, "statistics")
      BY <2>2, <2>3
    <3>2. i \in 1..Len(file)
      <4>1. CASE name["key"] = i
        BY <1>2, <2>1, <4>1 DEF DiskInv, DiskTypeOK
      <4>2. CASE name["key"] # i
        BY <3>1, <4>2 DEF FileOf, DiskInv, StepsMatch, Opens
      <4> QED
        BY <4>1, <4>2
    <3> QED
      BY <3>1, <3>2 DEF DiskInv, FilesApart
  <2>4. CASE i = Len(file) + 1
    BY <1>6, <1>7, <2>1, <2>4
  <2> QED
    BY <2>3, <2>4
<1> QED
  BY <1>3, <1>5, <1>8 DEF DiskInv

(* Nothing is open at the start. *)
LEMMA DiskStarts == DiskInit => DiskInv
<1> SUFFICES ASSUME DiskInit PROVE DiskInv
  OBVIOUS
<1>1. NotCalled \in CallRecord /\ NotCalled.pc = "idle"
  BY Contents DEF NotCalled, CallRecord, NoFile, Op, Name
<1>2. /\ file \in Seq(Content) /\ name \in [Name -> 0..Len(file)]
      /\ \A i \in 1..Len(file) : ~(name["key"] = i /\ name["statistics"] = i)
  <2>1. CASE usage.warm
    BY <2>1, Contents DEF DiskInit, Name
  <2>2. CASE ~usage.warm
    BY <2>2 DEF DiskInit, Name, NoFile
  <2> QED
    BY <2>1, <2>2
<1>3. DiskTypeOK
  BY <1>1, <1>2, UsagesAssumption DEF DiskInit, DiskTypeOK
<1>4. StepsMatch
  BY <1>1 DEF DiskInit, StepsMatch
<1>5. \A i, n : FileOf(i, n) => name[n] = i
  BY <1>1 DEF DiskInit, FileOf, Opens
<1>6. FilesApart
  BY <1>2, <1>5 DEF FilesApart
<1> QED
  BY <1>3, <1>4, <1>6 DEF DiskInv

(* A step that leaves the files and their names alone. *)
LEMMA CallKept ==
  ASSUME DiskInv, NEW c \in Call, NEW r, Becomes(c, r), UNCHANGED <<usage, clock, file, name>>,
         Matches(r),
         r.pc \in {"read", "locked", "write"} => r.handle \in 1..Len(file),
         \A n \in Name, i \in 1..Len(file) :
           Opens(r, n) /\ r.handle = i => FileOf(i, n)
  PROVE  DiskInv'
<1>1. /\ file' \in Seq(Content) /\ Len(file') >= Len(file)
      /\ name' \in [Name -> 0..Len(file')]
  BY LenProperties DEF DiskInv, DiskTypeOK
<1>2. \A n \in Name, i \in 1..Len(file') :
        name'[n] = i \/ (Opens(r, n) /\ r.handle = i) =>
          FileOf(i, n) \/ (i = Len(file) + 1 /\ n = "key")
  BY DEF FileOf
<1>3. r.pc \in {"read", "locked", "write"} => r.handle \in 1..Len(file')
  OBVIOUS
<1>4. UNCHANGED <<usage, clock>> /\ "key" \in Name
  BY DEF Name
<1> QED
  BY <1>1, <1>2, <1>3, <1>4, DiskKept

(* open(mode='wb'): the file of the name, or one more. *)
LEMMA OpenedFile ==
  ASSUME DiskInv, NEW n \in Name, OpenToWrite(n)
  PROVE  /\ file' \in Seq(Content) /\ Len(file') >= Len(file) /\ name' \in [Name -> 0..Len(file')]
         /\ Opened(n) \in 1..Len(file') /\ name'[n] = Opened(n) /\ file'[Opened(n)] = Empty
         /\ Opened(n) = name[n] \/ Opened(n) = Len(file) + 1
         /\ \A k \in Name : k # n => name'[k] = name[k]
         /\ \A i \in 1..Len(file) : i # Opened(n) => file'[i] = file[i]
         /\ \A i \in 1..Len(file') : i # Opened(n) => i \in 1..Len(file)
<1>1. /\ file \in Seq(Content) /\ name \in [Name -> 0..Len(file)] /\ Len(file) \in Nat
      /\ Empty \in Content
  BY LenProperties, Contents DEF DiskInv, DiskTypeOK
<1>2. CASE name[n] = NoFile
  <2>1. /\ file' = Append(file, Empty) /\ name' = [name EXCEPT ![n] = Len(file) + 1]
        /\ Opened(n) = Len(file) + 1
    BY <1>2 DEF OpenToWrite, Opened
  <2>2. /\ file' \in Seq(Content) /\ Len(file') = Len(file) + 1
        /\ file'[Len(file) + 1] = Empty
        /\ \A i \in 1..Len(file) : file'[i] = file[i]
    BY <1>1, <2>1, AppendProperties
  <2> QED
    BY <1>1, <2>1, <2>2
<1>3. CASE name[n] # NoFile
  <2>1. /\ file' = [file EXCEPT ![name[n]] = Empty] /\ name' = name /\ Opened(n) = name[n]
    BY <1>3 DEF OpenToWrite, Opened
  <2>2. name[n] \in 1..Len(file)
    BY <1>1, <1>3 DEF NoFile
  <2>3. file' \in Seq(Content) /\ Len(file') = Len(file)
    BY <1>1, <2>1, <2>2, ExceptSeq
  <2> QED
    BY <1>1, <2>1, <2>2, <2>3
<1> QED
  BY <1>2, <1>3

(* A step of a call keeps the types and the files apart. *)
LEMMA DiskInvStep ==
  ASSUME DiskInv, NEW c \in Call,
         (\E op \in usage.ops, expire \in Expire : Start(c, op, expire)) \/ CallStep(c)
  PROVE  DiskInv'
<1>1. /\ call[c] \in CallRecord
      /\ call[c] = NotCalled \/ Matches(call[c])
      /\ call[c].pc \in {"read", "locked", "write"} => call[c].handle \in 1..Len(file)
  BY DEF DiskInv, DiskTypeOK, StepsMatch
<1>2. /\ file \in Seq(Content) /\ Len(file) \in Nat /\ name \in [Name -> 0..Len(file)]
      /\ usage.ops \in SUBSET Op /\ clock \in Nat \ {0}
  BY LenProperties DEF DiskInv, DiskTypeOK, Usage
<1>3. call[c].pc # "idle" => Matches(call[c])
  BY <1>1 DEF NotCalled
<1>4. Target(c) \in Name /\ "key" \in Name
  BY DEF Target, Name
<1>5. ASSUME NEW op \in usage.ops, NEW expire \in Expire, Start(c, op, expire)
      PROVE  DiskInv'
  <2>1. PICK r : /\ Becomes(c, r) /\ r.op = op /\ r.now = 0 /\ ~r.exists
                 /\ r.pc = CASE op = "increment" -> "apply" [] op = "clear" -> "clear"
                             [] OTHER -> "open"
    BY <1>5, StartShape
  <2>2. Matches(r)
    BY <1>2, <2>1 DEF Matches, Op
  <2>3. UNCHANGED <<usage, clock, file, name>>
    BY <1>5 DEF Start
  <2> QED
    BY <2>1, <2>2, <2>3, CallKept DEF Opens
<1>6. CASE Open(c)
  <2>1. PICK r : /\ Becomes(c, r) /\ r.op = call[c].op /\ r.now = call[c].now
                 /\ r.pc = (IF name["key"] = NoFile THEN "apply" ELSE "read")
                 /\ r.handle = name["key"]
    BY <1>6, OpenShape
  <2>2. Matches(r)
    BY <1>3, <1>6, <2>1 DEF Matches, Open, At
  <2>3. UNCHANGED <<usage, clock, file, name>>
    BY <1>6 DEF Open
  <2>4. r.pc = "read" => r.handle \in 1..Len(file)
    BY <1>2, <1>4, <2>1 DEF NoFile
  <2>5. \A n \in Name, i \in 1..Len(file) : Opens(r, n) /\ r.handle = i => FileOf(i, n)
    BY <2>1 DEF Opens, FileOf
  <2> QED
    BY <2>1, <2>2, <2>3, <2>4, <2>5, CallKept
<1>7. CASE Load(c)
  <2>1. PICK r : /\ Becomes(c, r) /\ r.op = call[c].op /\ r.now = call[c].now
                 /\ r.pc = (IF file[call[c].handle] = Empty THEN "failed" ELSE "apply")
    BY <1>7, LoadShape
  <2>2. Matches(r)
    BY <1>3, <1>7, <2>1 DEF Matches, Load, At
  <2>3. UNCHANGED <<usage, clock, file, name>>
    BY <1>7 DEF Load
  <2> QED
    BY <2>1, <2>2, <2>3, CallKept DEF Opens
<1>8. CASE OpenToApply(c)
  <2>1. PICK r : /\ Becomes(c, r) /\ r.op = call[c].op /\ r.now = call[c].now
                 /\ r.pc = (IF name[Target(c)] = NoFile THEN "create" ELSE "locked")
                 /\ r.handle = name[Target(c)] /\ r.exists = (name[Target(c)] # NoFile)
    BY <1>8, OpenToApplyShape
  <2>2. Matches(r)
    BY <1>3, <1>8, <2>1 DEF Matches, OpenToApply, At
  <2>3. UNCHANGED <<usage, clock, file, name>>
    BY <1>8 DEF OpenToApply
  <2>4. r.pc = "locked" => r.handle \in 1..Len(file)
    BY <1>2, <1>4, <2>1 DEF NoFile
  <2>5. \A n \in Name : Opens(r, n) => n = Target(c)
    BY <2>1 DEF Opens, Target, Is
  <2>6. \A n \in Name, i \in 1..Len(file) : Opens(r, n) /\ r.handle = i => FileOf(i, n)
    BY <2>1, <2>5 DEF FileOf
  <2>7. r.pc \in {"create", "locked"}
    BY <2>1
  <2> QED
    BY <2>1, <2>2, <2>3, <2>4, <2>6, <2>7, CallKept
<1>9. CASE Create(c)
  <2>1. PICK r : /\ Becomes(c, r) /\ r.op = call[c].op /\ r.now = call[c].now
                 /\ r.pc = "locked" /\ r.handle = Opened(Target(c))
                 /\ r.exists = call[c].exists
    BY <1>9, CreateShape
  <2>2. Matches(r)
    BY <1>3, <1>9, <2>1 DEF Matches, Create, At
  <2>3. UNCHANGED <<usage, clock>> /\ OpenToWrite(Target(c))
    BY <1>9 DEF Create
  <2>4. \A n \in Name : Opens(r, n) => n = Target(c)
    BY <2>1 DEF Opens, Target, Is
  <2>5. /\ file' \in Seq(Content) /\ Len(file') >= Len(file) /\ name' \in [Name -> 0..Len(file')]
        /\ r.handle \in 1..Len(file')
    BY <1>4, <2>1, <2>3, OpenedFile
  <2>6. \A n \in Name, i \in 1..Len(file') :
          name'[n] = i \/ (Opens(r, n) /\ r.handle = i) =>
            FileOf(i, n) \/ (i = Len(file) + 1 /\ n = Target(c))
    <3>1. /\ name'[Target(c)] = Opened(Target(c))
          /\ Opened(Target(c)) = name[Target(c)] \/ Opened(Target(c)) = Len(file) + 1
          /\ \A k \in Name : k # Target(c) => name'[k] = name[k]
      BY <1>4, <2>3, OpenedFile
    <3> QED
      BY <2>1, <2>4, <3>1 DEF FileOf
  <2> QED
    BY <1>4, <2>1, <2>2, <2>3, <2>5, <2>6, DiskKept
<1>10. CASE Apply(c)
  <2>1. PICK r : /\ Becomes(c, r) /\ r.op = call[c].op /\ r.now = call[c].now
                 /\ \/ Read(c) = Empty /\ r.pc = "failed" /\ file' = file
                    \/ /\ Read(c) # Empty
                       /\ file' = [file EXCEPT ![call[c].handle] = Applied(c, Read(c))]
                       /\ r.pc = (IF Is(c, "increment") \/ call[c].now # 0
                                  THEN "done" ELSE "decide")
    BY <1>10, ApplyShape
  <2>2. At(c, "locked") /\ call[c].handle \in 1..Len(file)
    BY <1>1, <1>10 DEF Apply, At
  <2>3. r.pc \in {"failed", "done", "decide"} /\ (r.pc = "decide" => call[c].op # "increment")
    BY <2>1 DEF Is
  <2>4. Matches(r)
    BY <1>2, <1>3, <2>1, <2>2, <2>3 DEF Matches, At, Op
  <2>5. UNCHANGED <<usage, clock, name>>
    BY <1>10 DEF Apply
  <2>6. Read(c) # Empty => Applied(c, Read(c)) \in Content
    <3>1. Read(c) \in Content
      BY <1>2, <2>2, Contents DEF Read
    <3> SUFFICES ASSUME Read(c) # Empty PROVE Applied(c, Read(c)) \in Content
      OBVIOUS
    <3>2. Read(c)[1] \in Nat /\ Read(c)[2] \in Nat
      BY <3>1, Contents
    <3>3. /\ <<clock, Read(c)[2] + 1>> \in Content /\ <<Read(c)[1] + 1, Read(c)[2]>> \in Content
          /\ <<Read(c)[1], Read(c)[2] + 1>> \in Content
      BY <1>2, <3>2, Contents
    <3> QED
      BY <3>3 DEF Applied
  <2>7. file' \in Seq(Content) /\ Len(file') = Len(file)
    BY <1>2, <2>1, <2>2, <2>6, ExceptSeq
  <2>8. \A n \in Name, i \in 1..Len(file') :
          name'[n] = i \/ (Opens(r, n) /\ r.handle = i) =>
            FileOf(i, n) \/ (i = Len(file) + 1 /\ n = "key")
    BY <2>3, <2>5 DEF Opens, FileOf
  <2>9. Len(file') >= Len(file) /\ name' \in [Name -> 0..Len(file')]
        /\ r.pc \notin {"read", "locked", "write"}
    BY <1>2, <2>3, <2>5, <2>7
  <2> QED
    BY <1>4, <2>1, <2>4, <2>5, <2>7, <2>8, <2>9, DiskKept
<1>11. CASE Decide(c)
  <2>1. PICK r : /\ Becomes(c, r) /\ r.op = call[c].op /\ r.item = call[c].item
                 /\ \/ /\ Is(c, "delete") /\ r.now = call[c].now
                       /\ r.pc = (IF call[c].item = Empty THEN "done" ELSE "remove")
                    \/ Is(c, "get") /\ r.pc = "done"
                    \/ Is(c, "get") /\ r.pc = "compute" /\ r.now = clock
    BY <1>11, DecideShape
  <2>2. Matches(r)
    BY <1>2, <1>3, <1>11, <2>1 DEF Matches, Decide, At, Is
  <2>3. UNCHANGED <<usage, clock, file, name>>
    BY <1>11 DEF Decide
  <2>4. r.pc \in {"done", "remove", "compute"}
    BY <2>1
  <2> QED
    BY <2>1, <2>2, <2>3, <2>4, CallKept DEF Opens
<1>12. CASE Compute(c)
  <2>1. PICK r : /\ Becomes(c, r) /\ r.op = call[c].op /\ r.now = call[c].now
                 /\ r.pc = "store"
    BY <1>12, ComputeShape
  <2>2. Matches(r)
    BY <1>3, <1>12, <2>1 DEF Matches, Compute, At
  <2>3. UNCHANGED <<usage, clock, file, name>>
    BY <1>12 DEF Compute
  <2> QED
    BY <2>1, <2>2, <2>3, CallKept DEF Opens
<1>13. CASE OpenToStore(c)
  <2>1. PICK r : /\ Becomes(c, r) /\ r.op = call[c].op /\ r.now = call[c].now
                 /\ r.pc = "write" /\ r.handle = Opened("key")
    BY <1>13, OpenToStoreShape
  <2>2. Matches(r)
    BY <1>3, <1>13, <2>1 DEF Matches, OpenToStore, At
  <2>3. UNCHANGED <<usage, clock>> /\ OpenToWrite("key")
    BY <1>13 DEF OpenToStore
  <2>4. \A n \in Name : Opens(r, n) => n = "key"
    BY <2>1 DEF Opens
  <2>5. /\ file' \in Seq(Content) /\ Len(file') >= Len(file) /\ name' \in [Name -> 0..Len(file')]
        /\ r.handle \in 1..Len(file')
    BY <1>4, <2>1, <2>3, OpenedFile
  <2>6. \A n \in Name, i \in 1..Len(file') :
          name'[n] = i \/ (Opens(r, n) /\ r.handle = i) =>
            FileOf(i, n) \/ (i = Len(file) + 1 /\ n = "key")
    <3>1. /\ name'["key"] = Opened("key")
          /\ Opened("key") = name["key"] \/ Opened("key") = Len(file) + 1
          /\ \A k \in Name : k # "key" => name'[k] = name[k]
      BY <1>4, <2>3, OpenedFile
    <3> QED
      BY <2>1, <2>4, <3>1 DEF FileOf
  <2> QED
    BY <1>4, <2>1, <2>2, <2>3, <2>5, <2>6, DiskKept
<1>14. CASE Dump(c)
  <2>1. PICK r : /\ Becomes(c, r) /\ r.op = call[c].op /\ r.now = call[c].now
                 /\ r.pc = "apply"
    BY <1>14, DumpShape
  <2>2. call[c].pc = "write" /\ call[c].handle \in 1..Len(file)
    BY <1>1, <1>14 DEF Dump, At
  <2>3. Matches(r)
    BY <1>3, <2>1, <2>2 DEF Matches
  <2>4. /\ UNCHANGED <<usage, clock, name>>
        /\ file' = [file EXCEPT ![call[c].handle] = <<call[c].now, call[c].value>>]
    BY <1>14 DEF Dump
  <2>5. <<call[c].now, call[c].value>> \in Content
    BY <1>1, Contents DEF CallRecord
  <2>6. file' \in Seq(Content) /\ Len(file') = Len(file)
    BY <1>2, <2>2, <2>4, <2>5, ExceptSeq
  <2>7. \A n \in Name, i \in 1..Len(file') :
          name'[n] = i \/ (Opens(r, n) /\ r.handle = i) =>
            FileOf(i, n) \/ (i = Len(file) + 1 /\ n = "key")
    BY <2>1, <2>4 DEF Opens, FileOf
  <2>8. Len(file') >= Len(file) /\ name' \in [Name -> 0..Len(file')]
    BY <1>2, <2>4, <2>6
  <2>9. r.pc \notin {"read", "locked", "write"}
    BY <2>1
  <2> QED
    BY <1>4, <2>1, <2>3, <2>4, <2>6, <2>7, <2>8, <2>9, DiskKept
<1>15. CASE Delete(c)
  <2>1. PICK r : /\ Becomes(c, r) /\ r.op = call[c].op /\ r.now = call[c].now
                 /\ r.pc = (IF name["key"] = NoFile THEN "failed" ELSE "done")
    BY <1>15, DeleteShape
  <2>2. Matches(r)
    BY <1>3, <1>15, <2>1 DEF Matches, Delete, At
  <2>3. UNCHANGED <<usage, clock, file>> /\ name' = [name EXCEPT !["key"] = NoFile]
    BY <1>15 DEF Delete, Remove
  <2>4. name' \in [Name -> 0..Len(file')] /\ Len(file') >= Len(file)
    BY <1>2, <1>4, <2>3 DEF NoFile
  <2>5. \A n \in Name, i \in 1..Len(file') :
          name'[n] = i \/ (Opens(r, n) /\ r.handle = i) =>
            FileOf(i, n) \/ (i = Len(file) + 1 /\ n = "key")
    BY <1>2, <2>1, <2>3 DEF Opens, FileOf, NoFile
  <2> QED
    BY <1>2, <1>4, <2>1, <2>2, <2>3, <2>4, <2>5, DiskKept
<1>16. CASE Clear(c)
  <2>1. PICK r : /\ Becomes(c, r) /\ r.op = call[c].op /\ r.now = call[c].now
                 /\ r.pc \in {"done", "clear"}
    BY <1>16, ClearShape
  <2>2. Matches(r)
    BY <1>3, <1>16, <2>1 DEF Matches, Clear, At
  <2>3. PICK n \in call[c].todo : Remove(n)
    BY <1>16 DEF Clear
  <2>4. UNCHANGED <<usage, clock, file>> /\ n \in Name /\ name' = [name EXCEPT ![n] = NoFile]
    BY <1>1, <1>16, <2>3 DEF Clear, Remove, CallRecord
  <2>5. name' \in [Name -> 0..Len(file')] /\ Len(file') >= Len(file)
    BY <1>2, <2>4 DEF NoFile
  <2>6. \A k \in Name, i \in 1..Len(file') :
          name'[k] = i \/ (Opens(r, k) /\ r.handle = i) =>
            FileOf(i, k) \/ (i = Len(file) + 1 /\ k = "key")
    BY <1>2, <2>1, <2>4 DEF Opens, FileOf, NoFile
  <2> QED
    BY <1>2, <1>4, <2>1, <2>2, <2>4, <2>5, <2>6, DiskKept
<1> QED
  BY <1>5, <1>6, <1>7, <1>8, <1>9, <1>10, <1>11, <1>12, <1>13, <1>14, <1>15, <1>16 DEF CallStep

(* The death of the process closes what the calls had open. *)
LEMMA DiskInvCrash ==
  ASSUME DiskInv, DiskCrash
  PROVE  /\ DiskInv'
         /\ \A c \in Call : call'[c] = call[c] \/ call'[c].pc = "dead"
         /\ \E c \in Call : call'[c].pc = "dead"
<1>1. /\ usage' = [usage EXCEPT !.crashes = @ - 1] /\ usage.crashes > 0
      /\ call' = [c \in Call |-> IF Calling(c) THEN [call[c] EXCEPT !.pc = "dead"] ELSE call[c]]
      /\ UNCHANGED <<clock, file, name>>
  BY DEF DiskCrash
<1>2. \A c \in Call :
        \/ call'[c] = call[c]
        \/ /\ Calling(c) /\ call'[c] = [call[c] EXCEPT !.pc = "dead"]
  BY <1>1
<1>3. usage' \in Usage /\ usage'.ops = usage.ops
  BY <1>1 DEF DiskInv, DiskTypeOK, Usage
<1>4. \A c \in Call : call[c] \in CallRecord
  BY DEF DiskInv, DiskTypeOK
<1>5. \A c \in Call :
        call'[c] # call[c] =>
          /\ call'[c] \in CallRecord /\ call'[c].pc = "dead" /\ call'[c].op = call[c].op
          /\ call'[c].now = call[c].now /\ Calling(c)
  <2> SUFFICES ASSUME NEW c \in Call, NEW r, r = [call[c] EXCEPT !.pc = "dead"]
               PROVE  /\ r \in CallRecord /\ r.pc = "dead" /\ r.op = call[c].op
                      /\ r.now = call[c].now
    BY <1>2
  <2> QED
    BY <1>4 DEF CallRecord
<1>6. DiskTypeOK'
  BY <1>1, <1>3, <1>4, <1>5 DEF DiskInv, DiskTypeOK
<1>7. StepsMatch'
  <2> SUFFICES ASSUME NEW c \in Call
               PROVE  /\ call'[c] = NotCalled \/ Matches(call[c])'
                      /\ call'[c].pc \in {"read", "locked", "write"} =>
                           call'[c].handle \in 1..Len(file')
    BY DEF StepsMatch
  <2>1. CASE call'[c] = call[c]
    BY <1>1, <1>3, <2>1 DEF DiskInv, StepsMatch, Matches
  <2>2. CASE call'[c] # call[c]
    <3>1. Matches(call[c])
      BY <1>5, <2>2 DEF DiskInv, StepsMatch, Calling, NotCalled
    <3> QED
      BY <1>3, <1>5, <2>2, <3>1 DEF Matches
  <2> QED
    BY <2>1, <2>2
<1>8. \A i, n : FileOf(i, n)' => FileOf(i, n)
  BY <1>1, <1>5 DEF FileOf, Opens
<1>9. FilesApart'
  BY <1>1, <1>8 DEF FilesApart, DiskInv
<1>10. \E c \in Call : call'[c].pc = "dead"
  <2>1. PICK c \in Call : Calling(c)
    BY DEF DiskCrash
  <2>2. call'[c] = [call[c] EXCEPT !.pc = "dead"]
    BY <1>1, <2>1
  <2> QED
    BY <1>4, <2>2 DEF CallRecord
<1> QED
  BY <1>5, <1>6, <1>7, <1>9, <1>10 DEF DiskInv

(* Time passes. *)
LEMMA DiskInvTick ==
  ASSUME DiskInv, Tick
  PROVE  DiskInv'
<1>1. clock' = clock + 1 /\ UNCHANGED <<usage, file, name, call>>
  BY DEF Tick
<1>2. DiskTypeOK'
  BY <1>1 DEF DiskInv, DiskTypeOK
<1>3. StepsMatch' /\ FilesApart'
  BY <1>1 DEF DiskInv, StepsMatch, Matches, FilesApart, FileOf, Opens
<1> QED
  BY <1>2, <1>3 DEF DiskInv

(* The types and the files apart are kept by every step. *)
LEMMA DiskInvKept == DiskInv /\ [DiskNext]_diskVars => DiskInv'
<1>1. CASE UNCHANGED diskVars
  BY <1>1 DEF diskVars, DiskInv, DiskTypeOK, StepsMatch, Matches, FilesApart, FileOf, Opens
<1> QED
  BY <1>1, DiskInvStep, DiskInvCrash, DiskInvTick DEF DiskNext

-----------------------------------------------------------------------------
(* DiskCache keeps the types, and no file is ever of the key and of the     *)
(* statistics: safe_apply and __setitem__ never write a number of the one   *)
(* into the other.                                                          *)
THEOREM FilesStayApart == DiskSpec => []DiskInv
BY DiskStarts, DiskInvKept, PTL DEF DiskSpec

-----------------------------------------------------------------------------
(* An empty file after a step was empty before it and its writer is another *)
(* call, or the step has opened it for writing.                             *)
LEMMA EmptyKept ==
  ASSUME DiskInv, EmptyInv, NEW c \in Call, NEW r, Becomes(c, r), ~At(c, "dead"),
         \A i \in 1..Len(file') :
           file'[i] = Empty =>
             \/ (r.pc = "write" \/ (r.pc = "locked" /\ ~r.exists)) /\ r.handle = i
             \/ i \in 1..Len(file) /\ file[i] = Empty /\ (~Writing(c) \/ call[c].handle # i)
  PROVE  EmptyInv'
<1> SUFFICES ASSUME (\A d \in Call : ~At(d, "dead"))', NEW i \in 1..Len(file'), file'[i] = Empty
             PROVE  \E d \in Call : Writing(d)' /\ call'[d].handle = i
  BY DEF EmptyInv
<1>1. \A d \in Call : call'[d] = IF d = c THEN r ELSE call[d]
  BY Becoming DEF DiskInv
<1>2. CASE (r.pc = "write" \/ (r.pc = "locked" /\ ~r.exists)) /\ r.handle = i
  BY <1>1, <1>2 DEF Writing, At
<1>3. CASE i \in 1..Len(file) /\ file[i] = Empty /\ (~Writing(c) \/ call[c].handle # i)
  <2>1. \A d \in Call : ~At(d, "dead")
    BY <1>1 DEF At
  <2>2. PICK d \in Call : Writing(d) /\ call[d].handle = i
    BY <1>3, <2>1 DEF EmptyInv
  <2>3. d # c
    BY <1>3, <2>2
  <2> QED
    BY <1>1, <2>2, <2>3 DEF Writing, At
<1> QED
  BY <1>2, <1>3

(* A step of a call empties no file but to write it. *)
LEMMA EmptyStep ==
  ASSUME DiskInv, EmptyInv, NEW c \in Call,
         (\E op \in usage.ops, expire \in Expire : Start(c, op, expire)) \/ CallStep(c)
  PROVE  EmptyInv'
<1>1. /\ call[c] \in CallRecord
      /\ call[c] = NotCalled \/ Matches(call[c])
      /\ call[c].pc \in {"read", "locked", "write"} => call[c].handle \in 1..Len(file)
      /\ file \in Seq(Content)
  BY DEF DiskInv, DiskTypeOK, StepsMatch
<1>2. ASSUME NEW r, Becomes(c, r), file' = file, ~At(c, "dead"), ~Writing(c)
      PROVE  EmptyInv'
  BY <1>2, EmptyKept
<1>3. Target(c) \in Name /\ "key" \in Name
  BY DEF Target, Name
<1>4. ASSUME NEW op \in usage.ops, NEW expire \in Expire, Start(c, op, expire)
      PROVE  EmptyInv'
  <2>1. PICK r : Becomes(c, r)
    BY <1>4, StartShape
  <2>2. file' = file /\ At(c, "idle")
    BY <1>4 DEF Start
  <2> QED
    BY <1>2, <2>1, <2>2 DEF At, Writing
<1>5. CASE Open(c)
  <2>1. PICK r : Becomes(c, r)
    BY <1>5, OpenShape
  <2> QED
    BY <1>2, <1>5, <2>1 DEF At, Writing, Open
<1>6. CASE Load(c)
  <2>1. PICK r : Becomes(c, r)
    BY <1>6, LoadShape
  <2>2. file' = file /\ At(c, "read")
    BY <1>6 DEF Load
  <2> QED
    BY <1>2, <2>1, <2>2 DEF At, Writing
<1>7. CASE OpenToApply(c)
  <2>1. PICK r : Becomes(c, r)
    BY <1>7, OpenToApplyShape
  <2> QED
    BY <1>2, <1>7, <2>1 DEF At, Writing, OpenToApply
<1>8. CASE Create(c)
  <2>1. PICK r : /\ Becomes(c, r) /\ r.pc = "locked" /\ r.handle = Opened(Target(c))
                 /\ r.exists = call[c].exists
    BY <1>8, CreateShape
  <2>2. At(c, "create") /\ OpenToWrite(Target(c))
    BY <1>8 DEF Create
  <2>3. ~r.exists
    BY <1>1, <2>1, <2>2 DEF Matches, At, NotCalled
  <2>4. \A i \in 1..Len(file') :
          i # Opened(Target(c)) => i \in 1..Len(file) /\ file'[i] = file[i]
    BY <1>3, <2>2, OpenedFile
  <2> QED
    BY <2>1, <2>2, <2>3, <2>4, EmptyKept DEF At, Writing
<1>9. CASE Apply(c)
  <2>1. PICK r : /\ Becomes(c, r)
                 /\ \/ Read(c) = Empty /\ file' = file
                    \/ /\ Read(c) # Empty
                       /\ file' = [file EXCEPT ![call[c].handle] = Applied(c, Read(c))]
    BY <1>9, ApplyShape
  <2>2. At(c, "locked") /\ call[c].handle \in 1..Len(file)
    BY <1>1, <1>9 DEF Apply, At
  <2>3. CASE Read(c) = Empty
    <3>1. call[c].exists
      BY <2>3, Contents DEF Read
    <3> QED
      BY <1>2, <2>1, <2>2, <2>3, <3>1 DEF At, Writing
  <2>4. CASE Read(c) # Empty
    <3>1. Applied(c, Read(c)) # Empty
      BY DEF Applied, Empty
    <3>2. \A i \in 1..Len(file') :
            i \in 1..Len(file) /\ file'[i] = IF i = call[c].handle THEN Applied(c, Read(c)) ELSE file[i]
      BY <1>1, <2>1, <2>2, <2>4
    <3> QED
      BY <2>1, <2>2, <3>1, <3>2, EmptyKept DEF At
  <2> QED
    BY <2>3, <2>4
<1>10. CASE Decide(c)
  <2>1. PICK r : Becomes(c, r)
    BY <1>10, DecideShape
  <2> QED
    BY <1>2, <1>10, <2>1 DEF At, Writing, Decide
<1>11. CASE Compute(c)
  <2>1. PICK r : Becomes(c, r)
    BY <1>11, ComputeShape
  <2> QED
    BY <1>2, <1>11, <2>1 DEF At, Writing, Compute
<1>12. CASE OpenToStore(c)
  <2>1. PICK r : Becomes(c, r) /\ r.pc = "write" /\ r.handle = Opened("key")
    BY <1>12, OpenToStoreShape
  <2>2. At(c, "store") /\ OpenToWrite("key")
    BY <1>12 DEF OpenToStore
  <2>3. \A i \in 1..Len(file') :
          i # Opened("key") => i \in 1..Len(file) /\ file'[i] = file[i]
    BY <1>3, <2>2, OpenedFile
  <2> QED
    BY <2>1, <2>2, <2>3, EmptyKept DEF At, Writing
<1>13. CASE Dump(c)
  <2>1. PICK r : Becomes(c, r)
    BY <1>13, DumpShape
  <2>2. /\ At(c, "write") /\ call[c].handle \in 1..Len(file)
        /\ file' = [file EXCEPT ![call[c].handle] = <<call[c].now, call[c].value>>]
    BY <1>1, <1>13 DEF Dump, At
  <2>3. <<call[c].now, call[c].value>> # Empty
    BY DEF Empty
  <2>4. \A i \in 1..Len(file') :
          i \in 1..Len(file) /\ (file'[i] = IF i = call[c].handle THEN <<call[c].now, call[c].value>>
                                       ELSE file[i])
    BY <1>1, <2>2
  <2> QED
    BY <2>1, <2>2, <2>3, <2>4, EmptyKept DEF At
<1>14. CASE Delete(c)
  <2>1. PICK r : Becomes(c, r)
    BY <1>14, DeleteShape
  <2> QED
    BY <1>2, <1>14, <2>1 DEF At, Writing, Delete
<1>15. CASE Clear(c)
  <2>1. PICK r : Becomes(c, r)
    BY <1>15, ClearShape
  <2> QED
    BY <1>2, <1>15, <2>1 DEF At, Writing, Clear
<1> QED
  BY <1>4, <1>5, <1>6, <1>7, <1>8, <1>9, <1>10, <1>11, <1>12, <1>13, <1>14, <1>15 DEF CallStep

(* The statistics and the key are not empty at the start. *)
LEMMA EmptyStarts == DiskInit => EmptyInv
<1> SUFFICES ASSUME DiskInit, NEW i \in 1..Len(file) PROVE file[i] # Empty
  BY DEF EmptyInv
<1>1. usage.warm
  BY DEF DiskInit
<1>2. file = <<<<0, 0>>, <<0, 0>>>>
  BY <1>1 DEF DiskInit
<1> QED
  BY <1>2, Contents

(* Every step keeps the empty files in the hands of those that write them. *)
LEMMA EmptyInvKept == DiskInv /\ EmptyInv /\ [DiskNext]_diskVars => EmptyInv'
<1>1. CASE UNCHANGED diskVars
  BY <1>1 DEF diskVars, EmptyInv, Writing, At
<1>2. ASSUME DiskInv, DiskCrash PROVE EmptyInv'
  BY <1>2, DiskInvCrash DEF EmptyInv, At
<1>3. CASE EmptyInv /\ Tick
  BY <1>3 DEF Tick, EmptyInv, Writing, At
<1> QED
  BY <1>1, <1>2, <1>3, EmptyStep DEF DiskNext

(* As long as no process has died in the cache, an empty file is one that a *)
(* call is about to write: a call that fails on an empty file has met       *)
(* another one, it never finds what an earlier one has left behind.         *)
THEOREM EmptyIsAlwaysBeingWritten == DiskSpec => []EmptyIsBeingWritten
<1>1. DiskInv /\ EmptyInv => EmptyIsBeingWritten
  <2> SUFFICES ASSUME DiskInv, EmptyInv, \A c \in Call : ~At(c, "dead"),
                      NEW n \in Name, name[n] # NoFile, file[name[n]] = Empty
               PROVE  \E c \in Call : Writing(c) /\ call[c].handle = name[n]
    BY DEF EmptyIsBeingWritten
  <2>1. name[n] \in 1..Len(file)
    BY LenProperties DEF DiskInv, DiskTypeOK, NoFile
  <2> QED
    BY <2>1 DEF EmptyInv
<1> QED
  BY <1>1, DiskStarts, DiskInvKept, EmptyStarts, EmptyInvKept, PTL DEF DiskSpec

-----------------------------------------------------------------------------
(* The times after a step. *)
LEMMA TimesKept ==
  ASSUME DiskInv, TimesInv, NEW c \in Call, NEW r, Becomes(c, r), UNCHANGED <<usage, clock>>,
         "increment" \notin usage.ops, Timely(r),
         \A i \in 1..Len(file') :
           name'["key"] = i \/ (Opens(r, "key") /\ r.handle = i) \/ FileOf(i, "key") =>
             Ordered(file'[i])
  PROVE  TimesInv'
<1>1. \A d \in Call : call'[d] = IF d = c THEN r ELSE call[d]
  BY Becoming DEF DiskInv
<1>2. \A x : Timely(x)' <=> Timely(x)
  BY DEF Timely, Ordered
<1>3. \A d \in Call : Timely(call[d])'
  BY <1>1, <1>2 DEF TimesInv
<1>4. \A i \in 1..Len(file') : FileOf(i, "key")' => Ordered(file'[i])
  BY <1>1 DEF FileOf
<1> QED
  BY <1>3, <1>4 DEF TimesInv, Ordered

(* What is not done to the file of the key leaves its time as it was. *)
LEMMA TimesStep ==
  ASSUME DiskInv, TimesInv, NEW c \in Call, "increment" \notin usage.ops,
         (\E op \in usage.ops, expire \in Expire : Start(c, op, expire)) \/ CallStep(c)
  PROVE  TimesInv'
<1>1. /\ call[c] \in CallRecord /\ clock \in Nat \ {0}
      /\ call[c] = NotCalled \/ Matches(call[c])
      /\ call[c].pc \in {"read", "locked", "write"} => call[c].handle \in 1..Len(file)
      /\ file \in Seq(Content) /\ Len(file) \in Nat /\ name \in [Name -> 0..Len(file)]
  BY LenProperties DEF DiskInv, DiskTypeOK, StepsMatch
<1>2. /\ Timely(call[c])
      /\ \A i \in 1..Len(file) : FileOf(i, "key") => Ordered(file[i])
  BY DEF TimesInv
<1>3. call[c].op # "increment" /\ Target(c) = "statistics" /\ Ordered(Empty)
  BY <1>1 DEF Matches, NotCalled, Target, Is, Ordered
<1>4. "key" \in Name /\ "statistics" \in Name
  BY DEF Name
<1>5. ASSUME NEW r, Becomes(c, r), UNCHANGED <<usage, clock, file, name>>, Timely(r),
             Opens(r, "key") => r.handle = name["key"]
      PROVE  TimesInv'
  <2>1. \A i \in 1..Len(file') :
          name'["key"] = i \/ (Opens(r, "key") /\ r.handle = i) \/ FileOf(i, "key") =>
            Ordered(file'[i])
    BY <1>2, <1>5 DEF FileOf
  <2> QED
    BY <1>5, <2>1, TimesKept
<1>6. ASSUME NEW op \in usage.ops, NEW expire \in Expire, Start(c, op, expire)
      PROVE  TimesInv'
  <2>1. PICK r : /\ Becomes(c, r) /\ r.op = op /\ r.now = 0 /\ r.item = Empty
                 /\ r.pc = CASE op = "increment" -> "apply" [] op = "clear" -> "clear"
                             [] OTHER -> "open"
    BY <1>6, StartShape
  <2>2. Timely(r) /\ ~Opens(r, "key")
    BY <1>1, <1>3, <2>1 DEF Timely, Opens
  <2>3. UNCHANGED <<usage, clock, file, name>>
    BY <1>6 DEF Start
  <2> QED
    BY <1>5, <2>1, <2>2, <2>3
<1>7. CASE Open(c)
  <2>1. PICK r : /\ Becomes(c, r) /\ r.op = call[c].op /\ r.expire = call[c].expire
                 /\ r.pc \in {"apply", "read"} /\ r.handle = name["key"]
                 /\ r.item = call[c].item /\ r.now = call[c].now /\ r.value = call[c].value
    BY <1>7, OpenShape
  <2>2. Timely(r)
    BY <1>2, <1>7, <2>1 DEF Timely, Open, At
  <2>3. UNCHANGED <<usage, clock, file, name>>
    BY <1>7 DEF Open
  <2> QED
    BY <1>5, <2>1, <2>2, <2>3
<1>8. CASE Load(c)
  <2>1. PICK r : /\ Becomes(c, r) /\ r.op = call[c].op /\ r.expire = call[c].expire
                 /\ r.pc \in {"failed", "apply"} /\ r.item = file[call[c].handle]
                 /\ r.now = call[c].now /\ r.value = call[c].value
    BY <1>8, LoadShape
  <2>2. At(c, "read") /\ UNCHANGED <<usage, clock, file, name>>
    BY <1>8 DEF Load
  <2>3. FileOf(call[c].handle, "key")
    BY <2>2 DEF FileOf, Opens, At
  <2>4. Timely(r)
    BY <1>1, <1>2, <2>1, <2>2, <2>3 DEF Timely, At
  <2>5. ~Opens(r, "key")
    BY <2>1 DEF Opens
  <2> QED
    BY <1>5, <2>1, <2>2, <2>4, <2>5
<1>9. CASE OpenToApply(c)
  <2>1. PICK r : /\ Becomes(c, r) /\ r.op = call[c].op /\ r.expire = call[c].expire
                 /\ r.pc \in {"create", "locked"}
                 /\ r.item = call[c].item /\ r.now = call[c].now /\ r.value = call[c].value
    BY <1>9, OpenToApplyShape
  <2>2. Timely(r)
    BY <1>2, <1>9, <2>1 DEF Timely, OpenToApply, At
  <2>3. UNCHANGED <<usage, clock, file, name>>
    BY <1>9 DEF OpenToApply
  <2>4. ~Opens(r, "key")
    BY <1>3, <2>1 DEF Opens
  <2> QED
    BY <1>5, <2>1, <2>2, <2>3, <2>4
<1>10. CASE Create(c)
  <2>1. PICK r : /\ Becomes(c, r) /\ r.op = call[c].op /\ r.expire = call[c].expire
                 /\ r.pc = "locked"
                 /\ r.item = call[c].item /\ r.now = call[c].now /\ r.value = call[c].value
    BY <1>10, CreateShape
  <2>2. Timely(r)
    BY <1>2, <1>10, <2>1 DEF Timely, Create, At
  <2>3. OpenToWrite("statistics") /\ UNCHANGED <<usage, clock>>
    BY <1>3, <1>10 DEF Create
  <2>4. ~Opens(r, "key")
    BY <1>3, <2>1 DEF Opens
  <2>5. /\ name'["key"] = name["key"] /\ file'[Opened("statistics")] = Empty
        /\ \A i \in 1..Len(file') :
             i # Opened("statistics") => i \in 1..Len(file) /\ file'[i] = file[i]
    BY <1>4, <2>3, OpenedFile
  <2>6. \A i \in 1..Len(file') :
          name'["key"] = i \/ (Opens(r, "key") /\ r.handle = i) \/ FileOf(i, "key") =>
            Ordered(file'[i])
    BY <1>2, <1>3, <2>4, <2>5 DEF FileOf
  <2> QED
    BY <2>1, <2>2, <2>3, <2>6, TimesKept
<1>11. CASE Apply(c)
  <2>1. PICK r : /\ Becomes(c, r) /\ r.op = call[c].op /\ r.expire = call[c].expire
                 /\ r.item = call[c].item /\ r.now = call[c].now /\ r.value = call[c].value
                 /\ \/ r.pc = "failed" /\ file' = file
                    \/ /\ file' = [file EXCEPT ![call[c].handle] = Applied(c, Read(c))]
                       /\ r.pc = (IF Is(c, "increment") \/ call[c].now # 0
                                  THEN "done" ELSE "decide")
    BY <1>11, ApplyShape
  <2>2. /\ At(c, "locked") /\ call[c].handle \in 1..Len(file)
        /\ UNCHANGED <<usage, clock, name>>
    BY <1>1, <1>11 DEF Apply, At
  <2>3. Timely(r)
    BY <1>1, <1>2, <1>3, <2>1, <2>2 DEF Timely, At, Is
  <2>4. ~Opens(r, "key")
    BY <2>1 DEF Opens
  <2>5. FileOf(call[c].handle, "statistics")
    BY <1>3, <2>2 DEF FileOf, Opens, At
  <2>6. ~FileOf(call[c].handle, "key")
    BY <2>2, <2>5 DEF DiskInv, FilesApart
  <2>7. \A i \in 1..Len(file') :
          i # call[c].handle => i \in 1..Len(file) /\ file'[i] = file[i]
    BY <1>1, <2>1, <2>2
  <2>8. \A i \in 1..Len(file') :
          name'["key"] = i \/ (Opens(r, "key") /\ r.handle = i) \/ FileOf(i, "key") =>
            Ordered(file'[i])
    BY <1>2, <2>2, <2>4, <2>6, <2>7 DEF FileOf
  <2> QED
    BY <2>1, <2>2, <2>3, <2>8, TimesKept
<1>12. CASE Decide(c)
  <2>1. PICK r : /\ Becomes(c, r) /\ r.op = call[c].op /\ r.expire = call[c].expire
                 /\ r.item = call[c].item
                 /\ \/ /\ Is(c, "delete") /\ r.now = call[c].now
                       /\ r.pc \in {"done", "remove"}
                    \/ /\ Is(c, "get") /\ Fresh(c) /\ r.pc = "done" /\ r.now = clock
                       /\ r.value = call[c].item[2]
                    \/ Is(c, "get") /\ r.pc = "compute" /\ r.now = clock
    BY <1>12, DecideShape
  <2>2. UNCHANGED <<usage, clock, file, name>>
    BY <1>12 DEF Decide
  <2>3. r.pc = "done" /\ r.op = "get" => r.value > r.now - r.expire
    <3> SUFFICES ASSUME Is(c, "get"), Fresh(c), r.now = clock, r.value = call[c].item[2]
                 PROVE  r.value > r.now - r.expire
      BY <2>1 DEF Is
    <3>1. /\ call[c].item[1] \in Nat /\ call[c].item[2] \in Nat
          /\ call[c].item[1] <= call[c].item[2] /\ call[c].item[1] > clock - call[c].expire
      BY <1>1, <1>2, Contents DEF Fresh, CallRecord, Timely, Ordered
    <3> QED
      BY <1>1, <2>1, <3>1 DEF CallRecord
  <2>4. Ordered(r.item) /\ r.now <= clock /\ r.pc \in {"done", "remove", "compute"}
    BY <1>1, <1>2, <2>1 DEF Timely
  <2>5. Timely(r)
    BY <2>3, <2>4 DEF Timely
  <2>6. ~Opens(r, "key")
    BY <2>4 DEF Opens
  <2> QED
    BY <1>5, <2>1, <2>2, <2>5, <2>6
<1>13. CASE Compute(c)
  <2>1. PICK r : /\ Becomes(c, r) /\ r.op = call[c].op /\ r.expire = call[c].expire
                 /\ r.pc = "store"
                 /\ r.item = call[c].item /\ r.now = call[c].now /\ r.value = clock
    BY <1>13, ComputeShape
  <2>2. Timely(r)
    BY <1>1, <1>2, <2>1 DEF Timely, CallRecord
  <2>3. UNCHANGED <<usage, clock, file, name>>
    BY <1>13 DEF Compute
  <2>4. ~Opens(r, "key")
    BY <2>1 DEF Opens
  <2> QED
    BY <1>5, <2>1, <2>2, <2>3, <2>4
<1>14. CASE OpenToStore(c)
  <2>1. PICK r : /\ Becomes(c, r) /\ r.op = call[c].op /\ r.expire = call[c].expire
                 /\ r.pc = "write" /\ r.handle = Opened("key")
                 /\ r.item = call[c].item /\ r.now = call[c].now /\ r.value = call[c].value
    BY <1>14, OpenToStoreShape
  <2>2. OpenToWrite("key") /\ At(c, "store") /\ UNCHANGED <<usage, clock>>
    BY <1>14 DEF OpenToStore
  <2>3. Timely(r)
    BY <1>2, <2>1, <2>2 DEF Timely, At
  <2>4. /\ file'[Opened("key")] = Empty
        /\ \A i \in 1..Len(file') :
             i # Opened("key") => i \in 1..Len(file) /\ file'[i] = file[i]
        /\ name'["key"] = Opened("key")
    BY <1>4, <2>2, OpenedFile
  <2>5. \A i \in 1..Len(file') :
          name'["key"] = i \/ (Opens(r, "key") /\ r.handle = i) \/ FileOf(i, "key") =>
            Ordered(file'[i])
    BY <1>2, <1>3, <2>1, <2>4
  <2> QED
    BY <2>1, <2>2, <2>3, <2>5, TimesKept
<1>15. CASE Dump(c)
  <2>1. PICK r : /\ Becomes(c, r) /\ r.op = call[c].op /\ r.expire = call[c].expire
                 /\ r.pc = "apply"
                 /\ r.item = call[c].item /\ r.now = call[c].now /\ r.value = call[c].value
    BY <1>15, DumpShape
  <2>2. /\ At(c, "write") /\ call[c].handle \in 1..Len(file)
        /\ UNCHANGED <<usage, clock, name>>
        /\ file' = [file EXCEPT ![call[c].handle] = <<call[c].now, call[c].value>>]
    BY <1>1, <1>15 DEF Dump, At
  <2>3. Timely(r)
    BY <1>2, <2>1, <2>2 DEF Timely, At
  <2>4. ~Opens(r, "key")
    BY <2>1 DEF Opens
  <2>5. Ordered(<<call[c].now, call[c].value>>)
    BY <1>1, <1>2, <2>2 DEF Timely, Ordered, At, CallRecord
  <2>6. \A i \in 1..Len(file') :
          i \in 1..Len(file) /\ (file'[i] = IF i = call[c].handle THEN <<call[c].now, call[c].value>>
                                       ELSE file[i])
    BY <1>1, <2>2
  <2>7. \A i \in 1..Len(file') :
          name'["key"] = i \/ (Opens(r, "key") /\ r.handle = i) \/ FileOf(i, "key") =>
            Ordered(file'[i])
    BY <1>2, <2>2, <2>4, <2>5, <2>6 DEF FileOf
  <2> QED
    BY <2>1, <2>2, <2>3, <2>7, TimesKept
<1>16. CASE Delete(c)
  <2>1. PICK r : /\ Becomes(c, r) /\ r.op = call[c].op /\ r.expire = call[c].expire
                 /\ r.pc \in {"failed", "done"}
                 /\ r.item = call[c].item /\ r.now = call[c].now /\ r.value = call[c].value
    BY <1>16, DeleteShape
  <2>2. /\ At(c, "remove") /\ UNCHANGED <<usage, clock, file>>
        /\ name' = [name EXCEPT !["key"] = NoFile]
    BY <1>16 DEF Delete, Remove
  <2>3. Timely(r)
    BY <1>1, <1>2, <2>1, <2>2 DEF Timely, At, Matches, NotCalled
  <2>4. ~Opens(r, "key")
    BY <2>1 DEF Opens
  <2>5. \A i \in 1..Len(file') :
          name'["key"] = i \/ (Opens(r, "key") /\ r.handle = i) \/ FileOf(i, "key") =>
            Ordered(file'[i])
    BY <1>1, <1>2, <1>4, <2>2, <2>4 DEF NoFile
  <2> QED
    BY <2>1, <2>2, <2>3, <2>5, TimesKept
<1>17. CASE Clear(c)
  <2>1. PICK r : /\ Becomes(c, r) /\ r.op = call[c].op /\ r.expire = call[c].expire
                 /\ r.pc \in {"done", "clear"}
                 /\ r.item = call[c].item /\ r.now = call[c].now /\ r.value = call[c].value
    BY <1>17, ClearShape
  <2>2. PICK n \in Name : name' = [name EXCEPT ![n] = NoFile]
    BY <1>1, <1>17 DEF Clear, Remove, CallRecord
  <2>3. At(c, "clear") /\ UNCHANGED <<usage, clock, file>>
    BY <1>17 DEF Clear
  <2>4. Timely(r)
    BY <1>1, <1>2, <2>1, <2>3 DEF Timely, At, Matches, NotCalled
  <2>5. ~Opens(r, "key")
    BY <2>1 DEF Opens
  <2>6. \A i \in 1..Len(file') :
          name'["key"] = i \/ (Opens(r, "key") /\ r.handle = i) \/ FileOf(i, "key") =>
            Ordered(file'[i])
    BY <1>1, <1>2, <1>4, <2>2, <2>3, <2>5 DEF NoFile, FileOf
  <2> QED
    BY <2>1, <2>3, <2>4, <2>6, TimesKept
<1> QED
  BY <1>6, <1>7, <1>8, <1>9, <1>10, <1>11, <1>12, <1>13, <1>14, <1>15, <1>16, <1>17 DEF CallStep

(* The times fit at the start. *)
LEMMA TimesStart == DiskInit => TimesInv
<1> SUFFICES ASSUME DiskInit PROVE TimesInv
  OBVIOUS
<1>1. \A c \in Call : Timely(call[c])
  BY DEF DiskInit, NotCalled, Timely, Ordered
<1>2. \A i \in 1..Len(file) : Ordered(file[i])
  BY DEF DiskInit, Ordered
<1> QED
  BY <1>1, <1>2 DEF TimesInv

(* Every step keeps the times. *)
LEMMA TimesInvKept == DiskInv /\ TimesInv /\ [DiskNext]_diskVars => TimesInv'
<1>1. CASE TimesInv /\ UNCHANGED diskVars
  BY <1>1 DEF diskVars, TimesInv, FileOf, Opens, Timely, Ordered
<1>2. ASSUME DiskInv, TimesInv, DiskCrash PROVE TimesInv'
  <2>1. /\ usage' = [usage EXCEPT !.crashes = @ - 1]
        /\ call' = [c \in Call |-> IF Calling(c) THEN [call[c] EXCEPT !.pc = "dead"] ELSE call[c]]
        /\ UNCHANGED <<clock, file, name>>
    BY <1>2 DEF DiskCrash
  <2>2. usage'.ops = usage.ops
    BY <1>2, <2>1 DEF DiskInv, DiskTypeOK, Usage
  <2>3. \A c \in Call :
          /\ call[c] \in CallRecord
          /\ call'[c] = call[c] \/ call'[c] = [call[c] EXCEPT !.pc = "dead"]
    BY <1>2, <2>1 DEF DiskInv, DiskTypeOK
  <2>4. \A i : FileOf(i, "key")' => FileOf(i, "key")
    BY <2>1, <2>3 DEF FileOf, Opens, CallRecord
  <2>5. ASSUME NEW c \in Call, Timely(call[c]) PROVE Timely(call[c])'
    <3>1. CASE call'[c] = call[c]
      BY <2>1, <2>5, <3>1 DEF Timely, Ordered
    <3>2. CASE call'[c] = [call[c] EXCEPT !.pc = "dead"]
      <4>1. /\ call'[c].pc = "dead" /\ call'[c].item = call[c].item
            /\ call'[c].now = call[c].now
        BY <2>3, <3>2 DEF CallRecord
      <4> QED
        BY <2>1, <2>5, <4>1 DEF Timely, Ordered
    <3> QED
      BY <2>3, <3>1, <3>2
  <2> QED
    BY <1>2, <2>1, <2>2, <2>4, <2>5 DEF TimesInv, Ordered
<1>3. ASSUME DiskInv, TimesInv, Tick PROVE TimesInv'
  <2>1. clock' = clock + 1 /\ UNCHANGED <<usage, file, name, call>>
    BY <1>3 DEF Tick
  <2>2. \A c \in Call : call[c] \in CallRecord /\ clock \in Nat
    BY <1>3 DEF DiskInv, DiskTypeOK
  <2>3. \A c \in Call : Timely(call[c]) => Timely(call[c])'
    BY <2>1, <2>2 DEF Timely, Ordered, CallRecord
  <2> QED
    BY <1>3, <2>1, <2>3 DEF TimesInv, FileOf, Opens, Ordered
<1>4. ASSUME DiskInv, TimesInv, NEW c \in Call,
             (\E op \in usage.ops, expire \in Expire : Start(c, op, expire)) \/ CallStep(c)
      PROVE  TimesInv'
  <2>1. UNCHANGED usage
    BY <1>4 DEF Start, CallStep, Open, Load, OpenToApply, Create, Apply, Decide, Compute,
                OpenToStore, Dump, Delete, Clear
  <2>2. CASE "increment" \notin usage.ops
    BY <1>4, <2>2, TimesStep
  <2>3. CASE "increment" \in usage.ops
    BY <2>1, <2>3 DEF TimesInv
  <2> QED
    BY <2>2, <2>3
<1> QED
  BY <1>1, <1>2, <1>3, <1>4 DEF DiskNext

(* time_expire bounds the age of every value that a call returns: when it   *)
(* was not computed by the call itself, it is younger than that.            *)
THEOREM ValuesStayFresh == DiskSpec => []ValuesAreFresh
<1>1. TimesInv => ValuesAreFresh
  BY DEF TimesInv, Timely, ValuesAreFresh, At, Is
<1> QED
  BY <1>1, DiskStarts, DiskInvKept, TimesStart, TimesInvKept, PTL DEF DiskSpec

-----------------------------------------------------------------------------
(* A file has one name. *)
LEMMA OneName ==
  ASSUME DiskInv, NEW i \in 1..Len(file), NEW n \in Name, NEW m \in Name, FileOf(i, n), FileOf(i, m)
  PROVE  n = m
BY DEF DiskInv, FilesApart, Name

(* The file of a name is kept by a step that leaves the name and leaves     *)
(* something in the file.                                                   *)
LEMMA KeptKept ==
  ASSUME DiskInv, NEW n \in Name, NEW i \in Nat, Kept(n, i), NEW c \in Call, NEW r, Becomes(c, r),
         name'[n] = i, i \in 1..Len(file'), file'[i] # Empty,
         r.pc \in {"locked", "create"} /\ (n = IF r.op = "increment" THEN "key" ELSE "statistics") =>
           r.pc = "locked" /\ r.exists /\ r.handle = i
  PROVE  Kept(n, i)'
<1>1. \A d \in Call : call'[d] = IF d = c THEN r ELSE call[d]
  BY Becoming DEF DiskInv
<1>2. ASSUME NEW d \in Call
      PROVE  (/\ At(d, "locked") /\ Target(d) = n => call[d].exists /\ call[d].handle = i
              /\ At(d, "create") => Target(d) # n)'
  <2>1. CASE d = c
    BY <1>1, <2>1 DEF At, Target, Is
  <2>2. CASE d # c
    BY <1>1, <2>2 DEF Kept, At, Target, Is
  <2> QED
    BY <2>1, <2>2
<1> QED
  BY <1>2 DEF Kept

(* While nobody clears the cache, the file of the statistics is kept, and   *)
(* so is that of a key which is only incremented; nothing but safe_apply    *)
(* changes what is in it.                                                   *)
LEMMA KeptStep ==
  ASSUME DiskInv, NEW n \in Name, NEW i \in Nat, Kept(n, i), NEW c \in Call,
         "clear" \notin usage.ops, n = "statistics" \/ usage.ops = {"increment"},
         (\E op \in usage.ops, expire \in Expire : Start(c, op, expire)) \/ CallStep(c)
  PROVE  Kept(n, i)' /\ (Apply(c) \/ file'[i] = file[i])
<1>1. /\ call[c] \in CallRecord
      /\ call[c] = NotCalled \/ Matches(call[c])
      /\ call[c].pc \in {"read", "locked", "write"} => call[c].handle \in 1..Len(file)
      /\ file \in Seq(Content) /\ Len(file) \in Nat /\ name \in [Name -> 0..Len(file)]
  BY LenProperties DEF DiskInv, DiskTypeOK, StepsMatch
<1>2. /\ call[c].pc # "idle" => Matches(call[c])
      /\ call[c].pc \in {"store", "write", "remove"} => n = "statistics"
  BY <1>1 DEF Matches, NotCalled
<1>3. /\ name[n] = i /\ i \in 1..Len(file) /\ file[i] # Empty /\ FileOf(i, n)
      /\ At(c, "locked") /\ Target(c) = n => call[c].exists /\ call[c].handle = i
      /\ At(c, "create") => Target(c) # n
  BY DEF Kept, FileOf
<1>4. "key" \in Name /\ "statistics" \in Name /\ Target(c) \in Name
  BY DEF Name, Target
<1>5. ASSUME NEW r, Becomes(c, r), UNCHANGED <<file, name>>, r.pc \notin {"locked", "create"}
      PROVE  Kept(n, i)' /\ (Apply(c) \/ file'[i] = file[i])
  BY <1>3, <1>5, KeptKept
<1>6. ASSUME NEW op \in usage.ops, NEW expire \in Expire, Start(c, op, expire)
      PROVE  Kept(n, i)' /\ (Apply(c) \/ file'[i] = file[i])
  <2>1. PICK r : /\ Becomes(c, r)
                 /\ r.pc = CASE op = "increment" -> "apply" [] op = "clear" -> "clear"
                             [] OTHER -> "open"
    BY <1>6, StartShape
  <2>2. UNCHANGED <<file, name>> /\ r.pc \in {"apply", "clear", "open"}
    BY <1>6, <2>1 DEF Start
  <2> QED
    BY <1>5, <2>1, <2>2
<1>7. CASE Open(c)
  <2>1. PICK r : Becomes(c, r) /\ r.pc \in {"apply", "read"}
    BY <1>7, OpenShape
  <2>2. UNCHANGED <<file, name>>
    BY <1>7 DEF Open
  <2> QED
    BY <1>5, <2>1, <2>2
<1>8. CASE Load(c)
  <2>1. PICK r : Becomes(c, r) /\ r.pc \in {"failed", "apply"}
    BY <1>8, LoadShape
  <2>2. UNCHANGED <<file, name>>
    BY <1>8 DEF Load
  <2> QED
    BY <1>5, <2>1, <2>2
<1>9. CASE OpenToApply(c)
  <2>1. PICK r : /\ Becomes(c, r) /\ r.op = call[c].op
                 /\ r.pc = (IF name[Target(c)] = NoFile THEN "create" ELSE "locked")
                 /\ r.handle = name[Target(c)] /\ r.exists = (name[Target(c)] # NoFile)
    BY <1>9, OpenToApplyShape
  <2>2. UNCHANGED <<file, name>>
    BY <1>9 DEF OpenToApply
  <2>3. n = (IF r.op = "increment" THEN "key" ELSE "statistics") =>
          r.pc = "locked" /\ r.exists /\ r.handle = i
    <3>1. SUFFICES ASSUME n = Target(c) PROVE r.pc = "locked" /\ r.exists /\ r.handle = i
      BY <2>1 DEF Target, Is
    <3>2. i # NoFile
      BY <1>1, <1>3 DEF NoFile
    <3> QED
      BY <1>3, <2>1, <3>1, <3>2
  <2> QED
    BY <1>3, <2>1, <2>2, <2>3, KeptKept
<1>10. ASSUME NEW r, Becomes(c, r), NEW m \in Name, m # n, OpenToWrite(m),
              ~(r.pc \in {"locked", "create"}
                /\ (n = IF r.op = "increment" THEN "key" ELSE "statistics"))
       PROVE  Kept(n, i)' /\ (Apply(c) \/ file'[i] = file[i])
  <2>1. /\ Opened(m) = name[m] \/ Opened(m) = Len(file) + 1
        /\ name'[n] = name[n] /\ Len(file') >= Len(file) /\ file' \in Seq(Content)
        /\ \A j \in 1..Len(file) : j # Opened(m) => file'[j] = file[j]
    BY <1>10, OpenedFile
  <2>2. i # Opened(m)
    BY <1>1, <1>3, <1>10, <2>1, OneName DEF FileOf
  <2>3. name'[n] = i /\ i \in 1..Len(file') /\ file'[i] = file[i]
    BY <1>1, <1>3, <2>1, <2>2, LenProperties
  <2> QED
    BY <1>3, <1>10, <2>3, KeptKept
<1>11. CASE Create(c)
  <2>1. PICK r : Becomes(c, r) /\ r.op = call[c].op /\ r.pc = "locked"
    BY <1>11, CreateShape
  <2>2. Target(c) # n /\ OpenToWrite(Target(c))
    BY <1>3, <1>11 DEF Create
  <2>3. n # (IF r.op = "increment" THEN "key" ELSE "statistics")
    BY <2>1, <2>2 DEF Target, Is
  <2> QED
    BY <1>4, <1>10, <2>1, <2>2, <2>3
<1>12. CASE Apply(c)
  <2>1. PICK r : /\ Becomes(c, r)
                 /\ \/ r.pc = "failed" /\ file' = file
                    \/ /\ file' = [file EXCEPT ![call[c].handle] = Applied(c, Read(c))]
                       /\ r.pc = (IF Is(c, "increment") \/ call[c].now # 0
                                  THEN "done" ELSE "decide")
    BY <1>12, ApplyShape
  <2>2. At(c, "locked") /\ call[c].handle \in 1..Len(file) /\ UNCHANGED name
    BY <1>1, <1>12 DEF Apply, At
  <2>3. Applied(c, Read(c)) # Empty
    BY DEF Applied, Empty
  <2>4. i \in 1..Len(file') /\ file'[i] # Empty
    BY <1>1, <1>3, <2>1, <2>2, <2>3
  <2>5. r.pc \notin {"locked", "create"}
    BY <2>1
  <2> QED
    BY <1>3, <1>12, <2>1, <2>2, <2>4, <2>5, KeptKept
<1>13. CASE Decide(c)
  <2>1. PICK r : Becomes(c, r) /\ r.pc \in {"done", "remove", "compute"}
    BY <1>13, DecideShape
  <2>2. UNCHANGED <<file, name>>
    BY <1>13 DEF Decide
  <2> QED
    BY <1>5, <2>1, <2>2
<1>14. CASE Compute(c)
  <2>1. PICK r : Becomes(c, r) /\ r.pc = "store"
    BY <1>14, ComputeShape
  <2>2. UNCHANGED <<file, name>>
    BY <1>14 DEF Compute
  <2> QED
    BY <1>5, <2>1, <2>2
<1>15. CASE OpenToStore(c)
  <2>1. PICK r : Becomes(c, r) /\ r.pc = "write"
    BY <1>15, OpenToStoreShape
  <2>2. n # "key" /\ OpenToWrite("key")
    BY <1>2, <1>15 DEF OpenToStore, At
  <2> QED
    BY <1>4, <1>10, <2>1, <2>2
<1>16. CASE Dump(c)
  <2>1. PICK r : Becomes(c, r) /\ r.pc = "apply"
    BY <1>16, DumpShape
  <2>2. /\ At(c, "write") /\ call[c].handle \in 1..Len(file) /\ UNCHANGED name
        /\ file' = [file EXCEPT ![call[c].handle] = <<call[c].now, call[c].value>>]
    BY <1>1, <1>16 DEF Dump, At
  <2>3. FileOf(call[c].handle, "key") /\ n # "key"
    BY <1>2, <2>2 DEF FileOf, Opens, At
  <2>4. call[c].handle # i
    BY <1>3, <1>4, <2>2, <2>3, OneName
  <2>5. i \in 1..Len(file') /\ file'[i] = file[i]
    BY <1>1, <1>3, <2>2, <2>4
  <2> QED
    BY <1>3, <2>1, <2>2, <2>5, KeptKept
<1>17. CASE Delete(c)
  <2>1. PICK r : Becomes(c, r) /\ r.pc \in {"failed", "done"}
    BY <1>17, DeleteShape
  <2>2. n # "key" /\ UNCHANGED file /\ name' = [name EXCEPT !["key"] = NoFile]
    BY <1>2, <1>17 DEF Delete, At, Remove
  <2>3. name'[n] = i
    BY <1>1, <1>3, <2>2
  <2> QED
    BY <1>3, <2>1, <2>2, <2>3, KeptKept
<1>18. ~Clear(c)
  BY <1>2 DEF Clear, At, Matches
<1> QED
  BY <1>6, <1>7, <1>8, <1>9, <1>11, <1>12, <1>13, <1>14, <1>15, <1>16, <1>17, <1>18 DEF CallStep

(* Both files at once, and what is in them. *)
LEMMA KeptInvStep ==
  ASSUME DiskInv, KeptInv, NEW c \in Call,
         (\E op \in usage.ops, expire \in Expire : Start(c, op, expire)) \/ CallStep(c)
  PROVE  /\ UNCHANGED usage /\ KeptInv'
         /\ Warm => Apply(c) \/ file'[2] = file[2]
         /\ Warm /\ usage.ops = {"increment"} => Apply(c) \/ file'[1] = file[1]
<1>1. UNCHANGED usage
  BY DEF Start, CallStep, Open, Load, OpenToApply, Create, Apply, Decide, Compute,
         OpenToStore, Dump, Delete, Clear
<1>2. Warm' <=> Warm
  BY <1>1 DEF Warm
<1>3. "key" \in Name /\ "statistics" \in Name
  BY DEF Name
<1>4. ASSUME Warm
      PROVE  Kept("statistics", 2)' /\ (Apply(c) \/ file'[2] = file[2])
  <2>1. Kept("statistics", 2) /\ "clear" \notin usage.ops
    BY <1>4 DEF KeptInv, Warm
  <2> QED
    BY <1>3, <2>1, KeptStep
<1>5. ASSUME Warm, usage.ops = {"increment"}
      PROVE  Kept("key", 1)' /\ (Apply(c) \/ file'[1] = file[1])
  <2>1. Kept("key", 1) /\ "clear" \notin usage.ops
    BY <1>5 DEF KeptInv, Warm
  <2> QED
    BY <1>3, <1>5, <2>1, KeptStep
<1> QED
  BY <1>1, <1>2, <1>4, <1>5 DEF KeptInv

(* A call that counts itself in one step is one more of those that have.    *)
LEMMA CountOneMore ==
  ASSUME NEW S, NEW T, IsFiniteSet(S), NEW c, c \notin S, T = S \cup {c}
  PROVE  Cardinality(T) = Cardinality(S) + 1
BY FS_AddElement

(* No other step than Apply makes a call one that has counted itself, or    *)
(* one that has not.                                                        *)
LEMMA CountedKept ==
  ASSUME DiskInv, NEW c \in Call, ~Apply(c), "clear" \notin usage.ops,
         (\E op \in usage.ops, expire \in Expire : Start(c, op, expire)) \/ CallStep(c)
  PROVE  /\ \A d \in Call : Counted(d)' <=> Counted(d)
         /\ \A d \in Call : Counted(d) => call'[d].op = call[d].op
<1>1. /\ call[c] \in CallRecord /\ clock \in Nat \ {0}
      /\ call[c].pc # "idle" => Matches(call[c])
      /\ call[c].pc = "idle" => call[c].now = 0
  BY DEF DiskInv, DiskTypeOK, StepsMatch, NotCalled, Matches
<1>2. ASSUME NEW r, Becomes(c, r),
             \/ r.pc \in {"decide", "compute", "store", "write", "remove", "done"}
             \/ r.now # 0
             \/ r.pc = "failed" /\ r.item # Empty,
             Counted(c), r.op = call[c].op
      PROVE  /\ \A d \in Call : Counted(d)' <=> Counted(d)
             /\ \A d \in Call : Counted(d) => call'[d].op = call[d].op
  BY <1>2, Becoming DEF DiskInv, Counted, At
<1>3. ASSUME NEW r, Becomes(c, r),
             ~(\/ r.pc \in {"decide", "compute", "store", "write", "remove", "done"}
               \/ r.now # 0
               \/ r.pc = "failed" /\ r.item # Empty),
             ~Counted(c)
      PROVE  /\ \A d \in Call : Counted(d)' <=> Counted(d)
             /\ \A d \in Call : Counted(d) => call'[d].op = call[d].op
  BY <1>3, Becoming DEF DiskInv, Counted, At
<1>4. ASSUME NEW op \in usage.ops, NEW expire \in Expire, Start(c, op, expire)
      PROVE  /\ \A d \in Call : Counted(d)' <=> Counted(d)
             /\ \A d \in Call : Counted(d) => call'[d].op = call[d].op
  <2>1. PICK r : /\ Becomes(c, r) /\ r.now = 0
                 /\ r.pc = CASE op = "increment" -> "apply" [] op = "clear" -> "clear"
                             [] OTHER -> "open"
    BY <1>4, StartShape
  <2>2. At(c, "idle")
    BY <1>4 DEF Start
  <2>3. ~Counted(c)
    BY <1>1, <2>2 DEF Counted, At
  <2>4. r.pc \in {"apply", "clear", "open"}
    BY <2>1
  <2> QED
    BY <1>3, <2>1, <2>3, <2>4
<1>5. CASE Open(c)
  <2>1. PICK r : /\ Becomes(c, r) /\ r.op = call[c].op /\ r.now = call[c].now
                 /\ r.pc \in {"apply", "read"}
    BY <1>5, OpenShape
  <2>2. At(c, "open")
    BY <1>5 DEF Open
  <2>3. CASE Counted(c)
    BY <1>2, <2>1, <2>2, <2>3 DEF Counted, At
  <2>4. CASE ~Counted(c)
    BY <1>3, <2>1, <2>4 DEF Counted
  <2> QED
    BY <2>3, <2>4
<1>6. CASE Load(c)
  <2>1. PICK r : /\ Becomes(c, r) /\ r.op = call[c].op /\ r.now = call[c].now
                 /\ r.pc \in {"apply", "failed"} /\ (r.pc = "failed" => r.item = Empty)
    BY <1>6, LoadShape
  <2>2. At(c, "read")
    BY <1>6 DEF Load
  <2>3. CASE Counted(c)
    BY <1>2, <2>1, <2>2, <2>3 DEF Counted, At
  <2>4. CASE ~Counted(c)
    BY <1>3, <2>1, <2>4 DEF Counted
  <2> QED
    BY <2>3, <2>4
<1>7. CASE OpenToApply(c)
  <2>1. PICK r : /\ Becomes(c, r) /\ r.op = call[c].op /\ r.now = call[c].now
                 /\ r.pc \in {"create", "locked"}
    BY <1>7, OpenToApplyShape
  <2>2. At(c, "apply")
    BY <1>7 DEF OpenToApply
  <2>3. CASE Counted(c)
    BY <1>2, <2>1, <2>2, <2>3 DEF Counted, At
  <2>4. CASE ~Counted(c)
    BY <1>3, <2>1, <2>4 DEF Counted
  <2> QED
    BY <2>3, <2>4
<1>8. CASE Create(c)
  <2>1. PICK r : /\ Becomes(c, r) /\ r.op = call[c].op /\ r.now = call[c].now
                 /\ r.pc = "locked"
    BY <1>8, CreateShape
  <2>2. At(c, "create")
    BY <1>8 DEF Create
  <2>3. CASE Counted(c)
    BY <1>2, <2>1, <2>2, <2>3 DEF Counted, At
  <2>4. CASE ~Counted(c)
    BY <1>3, <2>1, <2>4 DEF Counted
  <2> QED
    BY <2>3, <2>4
<1>9. CASE Decide(c)
  <2>1. PICK r : /\ Becomes(c, r) /\ r.op = call[c].op
                 /\ r.pc \in {"done", "remove", "compute"}
    BY <1>9, DecideShape
  <2>2. Counted(c)
    BY <1>9 DEF Decide, Counted, At
  <2> QED
    BY <1>2, <2>1, <2>2
<1>10. CASE Compute(c)
  <2>1. PICK r : Becomes(c, r) /\ r.op = call[c].op /\ r.pc = "store"
    BY <1>10, ComputeShape
  <2>2. Counted(c)
    BY <1>10 DEF Compute, Counted, At
  <2> QED
    BY <1>2, <2>1, <2>2
<1>11. CASE OpenToStore(c)
  <2>1. PICK r : Becomes(c, r) /\ r.op = call[c].op /\ r.pc = "write"
    BY <1>11, OpenToStoreShape
  <2>2. Counted(c)
    BY <1>11 DEF OpenToStore, Counted, At
  <2> QED
    BY <1>2, <2>1, <2>2
<1>12. CASE Dump(c)
  <2>1. PICK r : Becomes(c, r) /\ r.op = call[c].op /\ r.now = call[c].now
    BY <1>12, DumpShape
  <2>2. Counted(c) /\ call[c].now # 0
    BY <1>1, <1>12 DEF Dump, Counted, At, Matches
  <2> QED
    BY <1>2, <2>1, <2>2
<1>13. CASE Delete(c)
  <2>1. PICK r : /\ Becomes(c, r) /\ r.op = call[c].op /\ r.item = call[c].item
                 /\ r.pc \in {"done", "failed"}
    BY <1>13, DeleteShape
  <2>2. Counted(c) /\ call[c].item # Empty
    BY <1>1, <1>13 DEF Delete, Counted, At, Matches
  <2> QED
    BY <1>2, <2>1, <2>2
<1>14. ~Clear(c)
  BY <1>1 DEF Clear, At, Matches
<1> QED
  BY <1>4, <1>5, <1>6, <1>7, <1>8, <1>9, <1>10, <1>11, <1>12, <1>13, <1>14 DEF CallStep

(* A step is of one call, which is alive. *)
LEMMA OthersKept ==
  ASSUME DiskInv, NEW c \in Call,
         (\E op \in usage.ops, expire \in Expire : Start(c, op, expire)) \/ CallStep(c)
  PROVE  ~At(c, "dead") /\ \A d \in Call : d # c => call'[d] = call[d]
<1>1. call \in [Call -> CallRecord]
  BY DEF DiskInv, DiskTypeOK
<1>2. ~At(c, "dead")
  BY DEF Start, CallStep, Open, Load, OpenToApply, Create, Apply, Decide, Compute,
         OpenToStore, Dump, Delete, Clear, At
<1>3. ASSUME NEW op \in usage.ops, NEW expire \in Expire, Start(c, op, expire)
      PROVE  \E x : call' = [call EXCEPT ![c] = x]
  BY <1>3, StartShape DEF Becomes
<1>4. ASSUME CallStep(c) PROVE \E x : call' = [call EXCEPT ![c] = x]
  <2>1. \E x : Becomes(c, x)
    BY <1>4, OpenShape, LoadShape, OpenToApplyShape, CreateShape, ApplyShape, DecideShape,
       ComputeShape, OpenToStoreShape, DumpShape, DeleteShape, ClearShape DEF CallStep
  <2> QED
    BY <2>1 DEF Becomes
<1> QED
  BY <1>1, <1>2, <1>3, <1>4

(* Each of the two files counts the calls that have counted themselves. *)
LEMMA CountsStep ==
  ASSUME DiskInv, KeptInv, CountsInv, NEW c \in Call,
         (\E op \in usage.ops, expire \in Expire : Start(c, op, expire)) \/ CallStep(c)
  PROVE  CountsInv'
<1>1. UNCHANGED usage
  BY KeptInvStep
<1> SUFFICES ASSUME Warm, (\A d \in Call : ~At(d, "dead"))'
             PROVE  /\ file'[2][1] = Cardinality(Counting')
                    /\ usage.ops = {"increment"} => file'[1][2] = Cardinality(Incrementing')
  BY <1>1 DEF CountsInv, Warm
<1>2. \A d \in Call : d # c => call'[d] = call[d]
  BY OthersKept
<1>3. /\ file[2][1] = Cardinality(Counting)
      /\ usage.ops = {"increment"} => file[1][2] = Cardinality(Incrementing)
  <2>1. \A d \in Call : ~At(d, "dead")
    BY <1>2, OthersKept DEF At
  <2> QED
    BY <2>1 DEF CountsInv
<1>4. IsFiniteSet(Counting) /\ IsFiniteSet(Incrementing)
  BY CallAssumption, FS_Subset DEF Counting, Incrementing
<1>5. CASE ~Apply(c)
  <2>1. /\ \A d \in Call : Counted(d)' <=> Counted(d)
        /\ \A d \in Call : Counted(d) => call'[d].op = call[d].op
    BY <1>5, CountedKept DEF Warm
  <2>2. Counting' = Counting /\ Incrementing' = Incrementing
    BY <2>1 DEF Counting, Incrementing, Is
  <2>3. file'[2] = file[2] /\ (usage.ops = {"increment"} => file'[1] = file[1])
    BY <1>5, KeptInvStep
  <2> QED
    BY <1>3, <2>2, <2>3
<1>6. CASE Apply(c)
  <2>1. PICK r : /\ Becomes(c, r) /\ r.op = call[c].op /\ r.now = call[c].now
                 /\ \/ Read(c) = Empty /\ r.pc = "failed" /\ r.item = call[c].item /\ file' = file
                    \/ /\ Read(c) # Empty
                       /\ file' = [file EXCEPT ![call[c].handle] = Applied(c, Read(c))]
                       /\ r.pc = (IF Is(c, "increment") \/ call[c].now # 0
                                  THEN "done" ELSE "decide")
    BY <1>6, ApplyShape
  <2>2. /\ At(c, "locked") /\ call[c].handle \in 1..Len(file) /\ Matches(call[c])
        /\ file \in Seq(Content)
    BY <1>6 DEF Apply, At, DiskInv, StepsMatch, DiskTypeOK, NotCalled
  <2>3. \A d \in Call : call'[d] = IF d = c THEN r ELSE call[d]
    BY <2>1, Becoming DEF DiskInv
  <2>4. \A d \in Call : d # c => (Counted(d)' <=> Counted(d)) /\ (Is(d, "increment")' <=> Is(d, "increment"))
    BY <2>3 DEF Counted, At, Is
  <2>5. Is(c, "increment")' <=> Is(c, "increment")
    BY <2>1, <2>3 DEF Is
  <2>6. Counted(c) <=> call[c].now # 0
    BY <2>2 DEF Counted, At
  <2>7. Read(c) # Empty => Counted(c)'
    BY <2>1, <2>3 DEF Counted, At
  <2>8. Kept("statistics", 2) /\ (usage.ops = {"increment"} => Kept("key", 1))
    BY DEF KeptInv
  <2>9. CASE ~Is(c, "increment")
    <3>1. Target(c) = "statistics" /\ usage.ops # {"increment"}
      BY <2>2, <2>9 DEF Target, Is, Matches
    <3>2. call[c].handle = 2 /\ Read(c) = file[2] /\ file[2] # Empty /\ 2 \in 1..Len(file)
      BY <2>2, <2>8, <3>1 DEF Kept, Read
    <3>3. file[2] \in Nat \X Nat
      BY <2>2, <3>2, Contents
    <3>4. file'[2] = Applied(c, file[2])
      BY <2>1, <2>2, <3>2
    <3>5. CASE call[c].now = 0
      <4>1. file'[2][1] = file[2][1] + 1
        BY <2>9, <3>4, <3>5 DEF Applied
      <4>2. c \notin Counting /\ Counting' = Counting \cup {c}
        BY <2>4, <2>5, <2>6, <2>7, <2>9, <3>2, <3>5 DEF Counting
      <4> HIDE DEF Counting
      <4>3. Cardinality(Counting') = Cardinality(Counting) + 1
        BY <1>4, <4>2, CountOneMore
      <4> QED
        BY <1>3, <3>1, <4>1, <4>3
    <3>6. CASE call[c].now # 0
      <4>1. file'[2][1] = file[2][1]
        BY <2>9, <3>4, <3>6 DEF Applied
      <4>2. Counting' = Counting
        BY <2>4, <2>5, <2>6, <2>7, <2>9, <3>2, <3>6 DEF Counting
      <4> QED
        BY <1>3, <3>1, <4>1, <4>2
    <3> QED
      BY <3>5, <3>6
  <2>10. CASE Is(c, "increment")
    <3>1. Target(c) = "key" /\ call[c].now = 0
      BY <2>2, <2>10 DEF Target, Is, Matches
    <3>2. Counting' = Counting
      BY <2>4, <2>5, <2>10 DEF Counting
    <3>3. file'[2] = file[2]
      <4>1. FileOf(call[c].handle, "key") /\ FileOf(2, "statistics") /\ 2 \in 1..Len(file)
        BY <2>2, <2>8, <2>10 DEF FileOf, Opens, At, Is, Kept
      <4>2. call[c].handle # 2
        BY <4>1, OneName DEF Name
      <4> QED
        BY <2>1, <2>2, <4>1, <4>2
    <3>4. ASSUME usage.ops = {"increment"}
          PROVE  file'[1][2] = Cardinality(Incrementing')
      <4>1. /\ call[c].handle = 1 /\ Read(c) = file[1] /\ file[1] # Empty
            /\ 1 \in 1..Len(file)
        BY <2>2, <2>8, <3>1, <3>4 DEF Kept, Read
      <4>2. file[1] \in Nat \X Nat
        BY <2>2, <4>1, Contents
      <4>3. file'[1] = Applied(c, file[1])
        BY <2>1, <2>2, <4>1
      <4>4. file'[1][2] = file[1][2] + 1
        BY <2>10, <4>2, <4>3 DEF Applied
      <4>5. c \notin Incrementing /\ Incrementing' = Incrementing \cup {c}
        BY <2>4, <2>6, <2>7, <3>1, <4>1 DEF Incrementing
      <4>6. Cardinality(Incrementing') = Cardinality(Incrementing) + 1
        BY <1>4, <4>5, CountOneMore
      <4> QED
        BY <1>3, <3>4, <4>4, <4>6
    <3> QED
      BY <1>3, <3>2, <3>3, <3>4
  <2> QED
    BY <2>9, <2>10
<1> QED
  BY <1>5, <1>6

(* Nothing is counted at the start. *)
LEMMA CountsStart == DiskInit => KeptInv /\ CountsInv
<1> SUFFICES ASSUME DiskInit, Warm PROVE KeptInv /\ CountsInv
  BY DEF KeptInv, CountsInv
<1>1. /\ file = <<<<0, 0>>, <<0, 0>>>> /\ name["key"] = 1 /\ name["statistics"] = 2
  BY DEF DiskInit, Warm
<1>2. \A c \in Call : call[c].pc = "idle" /\ call[c].now = 0
  BY DEF DiskInit, NotCalled
<1>3. KeptInv
  BY <1>1, <1>2, Contents DEF KeptInv, Kept, At
<1>4. Counting = {} /\ Incrementing = {}
  BY <1>2 DEF Counting, Incrementing, Counted, At
<1>5. Cardinality(Counting) = 0 /\ Cardinality(Incrementing) = 0
  BY <1>4, FS_EmptySet
<1> QED
  BY <1>1, <1>3, <1>5 DEF CountsInv

(* Every step keeps the files and what they count. *)
LEMMA CountsInvKept ==
  DiskInv /\ KeptInv /\ CountsInv /\ [DiskNext]_diskVars => KeptInv' /\ CountsInv'
<1>1. CASE KeptInv /\ CountsInv /\ UNCHANGED diskVars
  BY <1>1 DEF diskVars, KeptInv, CountsInv, Kept, Warm, Counting, Incrementing, Counted, At,
              Is, Target
<1>2. CASE KeptInv /\ CountsInv /\ Tick
  BY <1>2 DEF Tick, KeptInv, CountsInv, Kept, Warm, Counting, Incrementing, Counted, At,
              Is, Target
<1>3. ASSUME DiskInv, KeptInv, DiskCrash PROVE KeptInv' /\ CountsInv'
  <2>1. /\ usage' = [usage EXCEPT !.crashes = @ - 1] /\ UNCHANGED <<file, name>>
    BY <1>3 DEF DiskCrash
  <2>2. usage'.ops = usage.ops /\ usage'.warm = usage.warm
    BY <1>3, <2>1 DEF DiskInv, DiskTypeOK, Usage
  <2>3. /\ \A c \in Call : call'[c] = call[c] \/ call'[c].pc = "dead"
        /\ \E c \in Call : call'[c].pc = "dead"
    BY <1>3, DiskInvCrash
  <2>4. \A n \in Name, i \in Nat : Kept(n, i) => Kept(n, i)'
    BY <2>1, <2>3 DEF Kept, At, Target, Is
  <2>5. KeptInv'
    BY <1>3, <2>2, <2>4 DEF KeptInv, Warm, Name
  <2>6. CountsInv'
    BY <2>3 DEF CountsInv, At
  <2> QED
    BY <2>5, <2>6
<1> QED
  BY <1>1, <1>2, <1>3, KeptInvStep, CountsStep DEF DiskNext

(* A number that is incremented counts every call, and so do the hits of    *)
(* the statistics, however the calls overlap: no update is lost to the      *)
(* other process that has the file open.                                    *)
THEOREM CountsStayExact == DiskSpec => []CountsAreExact
<1>1. DiskInv /\ KeptInv /\ CountsInv => CountsAreExact
  <2> SUFFICES ASSUME DiskInv, KeptInv, CountsInv, Warm, \A c \in Call : ~At(c, "dead")
               PROVE  /\ file[name["statistics"]][1] =
                          Cardinality({c \in Call : Counted(c) /\ ~Is(c, "increment")})
                      /\ usage.ops = {"increment"} =>
                           file[name["key"]][2] = Cardinality({c \in Call : Counted(c)})
    BY DEF CountsAreExact, Warm
  <2>1. name["statistics"] = 2 /\ (usage.ops = {"increment"} => name["key"] = 1)
    BY DEF KeptInv, Kept
  <2> QED
    BY <2>1 DEF CountsInv, Counting, Incrementing
<1> QED
  BY <1>1, DiskStarts, DiskInvKept, CountsStart, CountsInvKept, PTL DEF DiskSpec
=============================================================================
