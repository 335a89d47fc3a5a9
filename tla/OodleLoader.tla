------------------------------ MODULE OodleLoader ------------------------------
(***************************************************************************)
(* oodle_open of oodle.cpp as its callers run it: each calling function of *)
(* bf6_core.cpp has a mutex of its own, texture_chunks of cache_api.cpp    *)
(* and the mount of source.cpp have none, so calls run side by side over   *)
(* the loader's two globals.  All name one game directory, whose library   *)
(* is "good", has no entry point ("empty") or is not there ("missing").    *)
(***************************************************************************)

CONSTANTS Threads,
          LockOf       \* the mutex of the function each thread calls, or "none"

Null == "null"

VARIABLES library,      \* what the directory holds
          pc,           \* where each thread is in oodle_open
          g_oodle,      \* the module handle
          g_decompress, \* the entry point
          looked,       \* what GetProcAddress gave a thread, before its store
          result        \* what the call of each thread returned, or "none"

vars == <<library, pc, g_oodle, g_decompress, looked, result>>

Init ==
    /\ library \in {"good", "empty", "missing"}
    /\ pc = [t \in Threads |-> "out"] /\ g_oodle = Null /\ g_decompress = Null
    /\ looked = [t \in Threads |-> Null] /\ result = [t \in Threads |-> "none"]

Goto(t, l) == pc' = [pc EXCEPT ![t] = l] /\ UNCHANGED result
Answer(t, a) == pc' = [pc EXCEPT ![t] = "out"] /\ result' = [result EXCEPT ![t] = a]

Unlocked(t) ==
    LockOf[t] = "none" \/ \A u \in Threads \ {t} : LockOf[u] = LockOf[t] => pc[u] = "out"

Loaded_Handle == g_oodle # Null
Loaded == g_decompress # Null

Open(t) ==
    /\ pc[t] = "out" /\ Unlocked(t)
    /\ IF Loaded THEN Answer(t, "true") ELSE Goto(t, "load")
    /\ UNCHANGED <<library, g_oodle, g_decompress, looked>>

\* The result of LoadLibrary goes to the global, not to a local.
Load(t) ==
    /\ pc[t] = "load" /\ Goto(t, "test")
    /\ g_oodle' = IF library = "missing" THEN Null ELSE "module"
    /\ UNCHANGED <<library, g_decompress, looked>>

Test(t) ==
    /\ pc[t] = "test"
    /\ IF g_oodle = Null THEN Answer(t, "false") ELSE Goto(t, "look")
    /\ UNCHANGED <<library, g_oodle, g_decompress, looked>>

\* GetProcAddress of a null module asks the program itself, which has no such name.
Look(t) ==
    /\ pc[t] = "look" /\ Goto(t, "store")
    /\ looked' = [looked EXCEPT ![t] =
                    IF g_oodle # Null /\ library = "good" THEN "entry" ELSE Null]
    /\ UNCHANGED <<library, g_oodle, g_decompress>>

Store(t) ==
    /\ pc[t] = "store" /\ Goto(t, "check") /\ g_decompress' = looked[t]
    /\ UNCHANGED <<library, g_oodle, looked>>

\* The failure test reads the global again; a failure unloads and clears the handle.
Check(t) ==
    /\ pc[t] = "check"
    /\ IF g_decompress # Null THEN Answer(t, "true") /\ UNCHANGED g_oodle
       ELSE Answer(t, "false") /\ g_oodle' = Null
    /\ UNCHANGED <<library, g_decompress, looked>>

\* The caller has used what its call returned.
Used(t) ==
    /\ result' = [result EXCEPT ![t] = "none"]
    /\ UNCHANGED <<library, pc, g_oodle, g_decompress, looked>>

\* A call in progress.
Run(t) == Load(t) \/ Test(t) \/ Look(t) \/ Store(t) \/ Check(t)
=============================================================================
