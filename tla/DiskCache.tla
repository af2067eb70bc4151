----------------------------- MODULE DiskCache -----------------------------
(* cache.disk (gluon/cache.py, CacheOnDisk): a value per file, and a file   *)
(* of statistics that every call counts itself in.                          *)
(*                                                                          *)
(* Every request has a CacheOnDisk of its own, so that the thread locks of  *)
(* file_locks keep nobody out and only the lock of the file system, taken   *)
(* after the file is open, is between two calls.  To open a file for        *)
(* writing empties it, lock or no lock.  What is done under the lock is one *)
(* step; a file that is removed lives on for those who have it open.        *)
EXTENDS Integers, Sequences, FiniteSets

CONSTANTS
  Call,      \* calls of the cache, each by a request of its own
  Expire,    \* the values of time_expire
  MaxClock,  \* bound: how far the clock goes
  Usages     \* what the calls may be, and what may happen to them

ASSUME CallAssumption == IsFiniteSet(Call)
ASSUME ExpireAssumption == Expire \subseteq Int
ASSUME ClockAssumption == MaxClock \in Nat

VARIABLES
  usage,   \* a member of Usages
  clock,
  file,    \* the content of every file, also of those removed, in order
  name,    \* the file each name stands for, NoFile when there is none
  call     \* where each call is, and its local variables

diskVars == <<usage, clock, file, name, call>>

Name == {"key", "statistics"}
NoFile == 0
Empty == <<>>

(* A value is the clock when the function was called, as in the example of  *)
(* cache.disk that caches the time; the file also has the time of the fill. *)
(* The statistics are hit_total and misses.                                 *)
Content == {Empty} \cup (Nat \X Nat)

Op == {"get", "delete", "increment", "clear"}
Usage == [calls : SUBSET Call, ops : SUBSET Op, warm : BOOLEAN, crashes : Nat]
ASSUME UsagesAssumption == Usages \subseteq Usage

NotCalled == [pc |-> "idle", op |-> "none", expire |-> 0, handle |-> NoFile,
              exists |-> FALSE, item |-> Empty, now |-> 0, value |-> 0, todo |-> {}]

DiskInit ==
  /\ usage \in Usages
  /\ clock = 1
  /\ file = IF usage.warm THEN <<<<0, 0>>, <<0, 0>>>> ELSE <<>>
  /\ name = IF usage.warm THEN [key |-> 1, statistics |-> 2]
            ELSE [n \in Name |-> NoFile]
  /\ call = [c \in Call |-> NotCalled]

At(c, pc) == call[c].pc = pc
Goto(c, pc) == call' = [call EXCEPT ![c].pc = pc]
Is(c, op) == call[c].op = op

-----------------------------------------------------------------------------
(* The files. *)

(* open(mode='wb'): the file the name stands for is emptied, or made. *)
OpenToWrite(n) ==
  IF name[n] = NoFile
  THEN file' = Append(file, Empty) /\ name' = [name EXCEPT ![n] = Len(file) + 1]
  ELSE file' = [file EXCEPT ![name[n]] = Empty] /\ UNCHANGED name
Opened(n) == IF name[n] = NoFile THEN Len(file) + 1 ELSE name[n]

Remove(n) == name' = [name EXCEPT ![n] = NoFile]

(* The name a step of safe_apply is about. *)
Target(c) == IF Is(c, "increment") THEN "key" ELSE "statistics"

-----------------------------------------------------------------------------
(* CacheOnDisk.__call__ and increment *)
Start(c, op, expire) ==
  /\ At(c, "idle") /\ c \in usage.calls
  /\ call' = [call EXCEPT ![c] = [NotCalled EXCEPT
       !.pc = CASE op = "increment" -> "apply"
                [] op = "clear" -> "clear"
                [] OTHER -> "open",
       !.op = op, !.expire = expire, !.todo = IF op = "clear" THEN Name ELSE {}]]
  /\ UNCHANGED <<usage, clock, file, name>>

(* __getitem__: without a file there is no item... *)
Open(c) ==
  /\ At(c, "open")
  /\ call' = [call EXCEPT ![c].pc = IF name["key"] = NoFile THEN "apply" ELSE "read",
                          ![c].handle = name["key"]]
  /\ UNCHANGED <<usage, clock, file, name>>

(* ...and a file that is empty raises EOFError. *)
Load(c) ==
  LET content == file[call[c].handle]
  IN /\ At(c, "read")
     /\ call' = [call EXCEPT ![c].pc = IF content = Empty THEN "failed" ELSE "apply",
                             ![c].item = content]
     /\ UNCHANGED <<usage, clock, file, name>>

(* Mutant of OpenToApply: the file that is there is opened with 'w+b'. *)
EmptyToApply(c) ==
  LET i == name[Target(c)]
  IN /\ At(c, "apply")
     /\ call' = [call EXCEPT ![c].pc = IF i = NoFile THEN "create" ELSE "locked",
                             ![c].handle = i, ![c].exists = i # NoFile]
     /\ file' = IF i = NoFile THEN file ELSE [file EXCEPT ![i] = Empty]
     /\ UNCHANGED <<usage, clock, name>>

(* safe_apply: a file that is there is opened for update... *)
OpenToApply(c) ==
  /\ At(c, "apply")
  /\ call' = [call EXCEPT
       ![c].pc = IF name[Target(c)] = NoFile THEN "create" ELSE "locked",
       ![c].handle = name[Target(c)], ![c].exists = name[Target(c)] # NoFile]
  /\ UNCHANGED <<usage, clock, file, name>>

(* ...one that was not is opened for writing... *)
Create(c) ==
  /\ At(c, "create")
  /\ OpenToWrite(Target(c))
  /\ call' = [call EXCEPT ![c].pc = "locked", ![c].handle = Opened(Target(c))]
  /\ UNCHANGED <<usage, clock>>

(* Which number is counted up: the value of the key, hit_total the first    *)
(* time, misses the second.                                                 *)
Applied(c, content) ==
  CASE Is(c, "increment") -> <<clock, content[2] + 1>>
    [] ~Is(c, "increment") /\ call[c].now = 0 -> <<content[1] + 1, content[2]>>
    [] OTHER -> <<content[1], content[2] + 1>>

(* Mutant of Apply: the default is written over what is there. *)
ApplyToDefault(c) ==
  /\ At(c, "locked")
  /\ file' = [file EXCEPT ![call[c].handle] = Applied(c, <<0, 0>>)]
  /\ Goto(c, IF Is(c, "increment") \/ call[c].now # 0 THEN "done" ELSE "decide")
  /\ UNCHANGED <<usage, clock, name>>

(* ...and under its lock it is read, unless it was not there, and written.  *)
Apply(c) ==
  LET content == IF call[c].exists THEN file[call[c].handle] ELSE <<0, 0>>
  IN /\ At(c, "locked")
     /\ \/ /\ content = Empty
           /\ Goto(c, "failed")
           /\ UNCHANGED file
        \/ /\ content # Empty
           /\ file' = [file EXCEPT ![call[c].handle] = Applied(c, content)]
           /\ Goto(c, IF Is(c, "increment") \/ call[c].now # 0 THEN "done" ELSE "decide")
     /\ UNCHANGED <<usage, clock, name>>

(* Mutant of Fresh: the age of the item is not looked at. *)
FreshForever(c) == call[c].item # Empty

Fresh(c) == call[c].item # Empty /\ call[c].item[1] > clock - call[c].expire

Decide(c) ==
  /\ At(c, "decide")
  /\ \/ /\ Is(c, "delete")
        /\ Goto(c, IF call[c].item = Empty THEN "done" ELSE "remove")
     \/ /\ Is(c, "get") /\ Fresh(c)
        /\ call' = [call EXCEPT ![c].pc = "done", ![c].now = clock,
                                ![c].value = call[c].item[2]]
     \/ /\ Is(c, "get") /\ ~Fresh(c)
        /\ call' = [call EXCEPT ![c].pc = "compute", ![c].now = clock]
  /\ UNCHANGED <<usage, clock, file, name>>

(* value = f() *)
Compute(c) ==
  /\ At(c, "compute")
  /\ call' = [call EXCEPT ![c].pc = "store", ![c].value = clock]
  /\ UNCHANGED <<usage, clock, file, name>>

(* __setitem__: open, which empties the file, ... *)
OpenToStore(c) ==
  /\ At(c, "store")
  /\ OpenToWrite("key")
  /\ call' = [call EXCEPT ![c].pc = "write", ![c].handle = Opened("key")]
  /\ UNCHANGED <<usage, clock>>

(* ...and the value, with the time from before the call of f. *)
Dump(c) ==
  /\ At(c, "write")
  /\ file' = [file EXCEPT ![call[c].handle] = <<call[c].now, call[c].value>>]
  /\ Goto(c, "apply")
  /\ UNCHANGED <<usage, clock, name>>

(* __delitem__: a KeyError when the file is gone. *)
Delete(c) ==
  /\ At(c, "remove")
  /\ Remove("key")
  /\ Goto(c, IF name["key"] = NoFile THEN "failed" ELSE "done")
  /\ UNCHANGED <<usage, clock, file>>

(* clear: the files one after the other, whatever the order. *)
Clear(c) ==
  /\ At(c, "clear")
  /\ \E n \in call[c].todo :
       /\ Remove(n)
       /\ call' = [call EXCEPT ![c].todo = @ \ {n},
                               ![c].pc = IF call[c].todo = {n} THEN "done" ELSE "clear"]
  /\ UNCHANGED <<usage, clock, file>>

CallStep(c) ==
  \/ Open(c) \/ Load(c) \/ OpenToApply(c) \/ Create(c) \/ Apply(c) \/ Decide(c)
  \/ Compute(c) \/ OpenToStore(c) \/ Dump(c) \/ Delete(c) \/ Clear(c)

-----------------------------------------------------------------------------
Tick ==
  /\ clock < MaxClock
  /\ clock' = clock + 1
  /\ UNCHANGED <<usage, file, name, call>>

Calling(c) == call[c].pc \notin {"idle", "done", "failed", "dead"}

(* The process dies with every call in it. *)
DiskCrash ==
  /\ usage.crashes > 0
  /\ \E c \in Call : Calling(c)
  /\ usage' = [usage EXCEPT !.crashes = @ - 1]
  /\ call' = [c \in Call |-> IF Calling(c) THEN [call[c] EXCEPT !.pc = "dead"] ELSE call[c]]
  /\ UNCHANGED <<clock, file, name>>

DiskNext ==
  \/ \E c \in Call :
       \/ \E op \in usage.ops, expire \in Expire : Start(c, op, expire)
       \/ CallStep(c)
  \/ Tick
  \/ DiskCrash

DiskSpec == DiskInit /\ [][DiskNext]_diskVars

-----------------------------------------------------------------------------
(* time_expire bounds the age of what a call returns: it has computed the   *)
(* value itself, or the value was computed less than so long before it      *)
(* looked at the clock, whoever has filled, emptied or removed the file in  *)
(* between.  A number that is incremented is not a time.                    *)
ValuesAreFresh ==
  "increment" \notin usage.ops =>
    \A c \in Call :
      At(c, "done") /\ Is(c, "get") =>
        call[c].value >= call[c].now \/ call[c].value > call[c].now - call[c].expire

(* "Implements a key based thread/process-safe safe storage in disk.": a    *)
(* file is empty, which makes the calls that read it fail, only while a     *)
(* call is about to write it, unless a process has died there.              *)
Writing(c) == At(c, "write") \/ (At(c, "locked") /\ ~call[c].exists)
EmptyIsBeingWritten ==
  (\A c \in Call : ~At(c, "dead")) =>
    \A n \in Name :
      name[n] # NoFile /\ file[name[n]] = Empty =>
        \E c \in Call : Writing(c) /\ call[c].handle = name[n]

(* Once its file is there, and as long as nobody clears the cache, a number *)
(* that is incremented counts every call, and so do the statistics.         *)
Counted(c) ==
  \/ call[c].pc \in {"decide", "compute", "store", "write", "remove", "done"}
  \/ call[c].now # 0
  \/ At(c, "failed") /\ call[c].item # Empty
CountsAreExact ==
  usage.warm /\ "clear" \notin usage.ops /\ (\A c \in Call : ~At(c, "dead")) =>
    /\ file[name["statistics"]][1] =
         Cardinality({c \in Call : Counted(c) /\ ~Is(c, "increment")})
    /\ usage.ops = {"increment"} =>
         file[name["key"]][2] = Cardinality({c \in Call : Counted(c)})
=============================================================================
