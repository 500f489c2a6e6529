----------------------------- MODULE CppStrings -----------------------------
(***************************************************************************)
(* readString() of the C++ reader, which also takes its bytes out of the   *)
(* queue from the operator to the process.                                 *)
(***************************************************************************)
EXTENDS JavaToCpp

stringVars == <<writeCache, write, readCache, finish, cells, producerVars>>

(***************************************************************************)
(* The terminator is found s bytes into the offer: BackUp() is entered     *)
(* with what follows it.  Which byte is a terminator depends on the data,  *)
(* so any byte may be one.                                                 *)
(***************************************************************************)
FindTerminator ==
  /\ rpc = "granted"
  /\ \E s \in 1 .. toMove : toMove' = s
  /\ rpc' = "releaseString"
  /\ UNCHANGED <<read, stringVars, want, taken, buf>>

(* updateReadPtr() in BackUp(): the string is released to the producer. *)
ReleaseString ==
  /\ rpc = "releaseString"
  /\ read' = read + toMove
  /\ want' = toMove
  /\ toMove' = 0
  /\ rpc' = "copyString"
  /\ UNCHANGED <<stringVars, taken, buf>>

(* Only now std::string is built from the pointer that Next() had returned. *)
CopyString ==
  /\ rpc = "copyString"
  /\ buf' = Load(read - want, want)
  /\ taken' = taken + want
  /\ want' = 0
  /\ rpc' = "idle"
  /\ UNCHANGED <<read, toMove, stringVars>>

StringNext == Next \/ FindTerminator \/ ReleaseString \/ CopyString

StringSpec == Init /\ [][StringNext]_vars

(***************************************************************************)
(* "the buffer remains valid only until some other method of the stream is *)
(* called": what readString returns must be what was in the buffer.        *)
(***************************************************************************)
StringIntact == \A i \in DOMAIN buf : buf[i] = i
=============================================================================
