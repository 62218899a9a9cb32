---------------------- MODULE InferenceServer_proofs ----------------------
(***************************************************************************)
(* Proofs about InferenceServer, for any set of requests, any endpoints,   *)
(* any channel capacity and any context length.                            *)
(***************************************************************************)
EXTENDS InferenceServer, TLAPS

-----------------------------------------------------------------------------
(* Typing *)

\* The variables start with their types.
LEMMA InitTypeOK == Init => TypeOK
  <1> SUFFICES ASSUME Init PROVE TypeOK
    OBVIOUS
  <1>1. EngineTypeOK
    BY DEF Init, EngineInit, EngineTypeOK, Owners, Healths, Aborts
  <1>2. /\ chan \in [Requests -> Seq(StreamItems)]
        /\ view \in [Requests -> Seq(Items)]
    BY DEF Init
  <1>3. /\ gen \in [Requests -> 0 .. CtxEnd]
        /\ limit \in [Requests -> Nat]
    BY ServerAssumption DEF Init
  <1>4. /\ stage \in [Requests -> Stages]
        /\ kind \in [Requests -> AllKinds \cup {"none"}]
        /\ code \in [Requests -> Codes]
        /\ wd \in [Requests -> Watchdogs]
    BY DEF Init, Stages, Codes, Watchdogs
  <1>5. /\ holder \in Requests \cup {NoOne}
        /\ aborted \in [Requests -> BOOLEAN]
        /\ result \in [Requests -> {"none", "ok", "err"}]
        /\ client \in [Requests -> {"connected", "gone"}]
        /\ answer \in [Requests -> {"none", "busy", "bad_request", "ok", "failed"}]
    BY DEF Init
  <1> QED
    BY <1>1, <1>2, <1>3, <1>4, <1>5 DEF TypeOK

\* A reset and a query keep the engine's types.
LEMMA ResetTyped ==
  ASSUME EngineTypeOK, ResetDialog
  PROVE  EngineTypeOK'
  BY DEF EngineTypeOK, ResetDialog, FlagAfterReset, Owners, Healths, Aborts

\* So does whatever GenieDialog_query does.
LEMMA QueryTyped ==
  ASSUME EngineTypeOK, NEW c \in Codes, NEW r \in Requests,
         \/ NextToken(c)
         \/ QuerySucceeds(c, r)
         \/ QueryAborted(c, r)
         \/ QueryFails(c, r)
  PROVE  EngineTypeOK'
  BY DEF EngineTypeOK, NextToken, QuerySucceeds, QueryAborted, QueryFails,
         CacheAfter, Owners, Healths, Aborts

\* A channel carries stream items, and what a client reads of it is the same.
LEMMA SendTyped ==
  ASSUME chan \in [Requests -> Seq(StreamItems)],
         NEW r \in Requests, NEW i \in StreamItems, Send(r, i)
  PROVE  chan' \in [Requests -> Seq(StreamItems)]
  <1>1. Append(chan[r], i) \in Seq(StreamItems)
    OBVIOUS
  <1> QED
    BY <1>1 DEF Send

\* Reading moves the channel's head to the end of the client's view.
LEMMA ReadTyped ==
  ASSUME chan \in [Requests -> Seq(StreamItems)],
         view \in [Requests -> Seq(Items)],
         NEW r \in Requests, ClientReads(r)
  PROVE  /\ chan' \in [Requests -> Seq(StreamItems)]
         /\ view' \in [Requests -> Seq(Items)]
  <1>1. /\ Head(chan[r]) \in StreamItems
        /\ Tail(chan[r]) \in Seq(StreamItems)
    BY DEF ClientReads
  <1>2. Append(view[r], Head(chan[r])) \in Seq(Items)
    BY <1>1 DEF Items
  <1> QED
    BY <1>1, <1>2 DEF ClientReads

\* A closure that is gone leaves well-typed locals.
LEMMA ForgetTyped ==
  ASSUME TypeOK, NEW r \in Requests, Forget(r)
  PROVE  /\ code' \in [Requests -> Codes]
         /\ gen' \in [Requests -> 0 .. CtxEnd]
         /\ aborted' \in [Requests -> BOOLEAN]
         /\ result' \in [Requests -> {"none", "ok", "err"}]
  BY ServerAssumption DEF TypeOK, Forget, Codes

\* Every step keeps the types, action by action.
LEMMA NextTypeOK == TypeOK /\ [Next]_vars => TypeOK'
  <1> SUFFICES ASSUME TypeOK, [Next]_vars
               PROVE  TypeOK'
    OBVIOUS
  <1> USE DEF To, Answer
  <1>1. ASSUME NEW r \in Requests, Arrive(r) PROVE TypeOK'
    <2>1. CASE RejectInvalid(r)
      BY <2>1 DEF TypeOK, RejectInvalid, requestVars, localVars, engineVars, EngineTypeOK, Stages
    <2>2. CASE AcquirePermit(r)
      BY <2>2, ServerAssumption DEF TypeOK, AcquirePermit, localVars, engineVars, EngineTypeOK, Stages
    <2>3. CASE RefuseBusy(r)
      BY <2>3 DEF TypeOK, RefuseBusy, requestVars, localVars, engineVars, EngineTypeOK, Stages
    <2> QED
      BY <1>1, <2>1, <2>2, <2>3 DEF Arrive
  <1>2. ASSUME NEW r \in Requests, Handler(r) PROVE TypeOK'
    <2>1. CASE ResetThenDispatch(r)
      <3>1. chan' \in [Requests -> Seq(StreamItems)]
        <4>1. Item("Role", 0) \in StreamItems
          BY ServerAssumption DEF Item, StreamItems
        <4> QED
          BY <2>1, <4>1, SendTyped DEF TypeOK, ResetThenDispatch
      <3> QED
        BY <2>1, <3>1, ResetTyped DEF TypeOK, ResetThenDispatch, requestVars, localVars, Stages, Watchdogs
    <2>2. CASE RejectHoldingPermit(r)
      BY <2>2 DEF TypeOK, RejectHoldingPermit, requestVars, localVars, engineVars, EngineTypeOK, Stages
    <2>3. CASE DispatchChat(r)
      BY <2>3 DEF TypeOK, DispatchChat, requestVars, localVars, engineVars, EngineTypeOK, Stages
    <2>4. CASE Reply(r)
      BY <2>4, ForgetTyped, ZenonT(60)
      DEF TypeOK, Reply, requestVars, engineVars, EngineTypeOK, Stages, Watchdogs
    <2> QED
      BY <1>2, <2>1, <2>2, <2>3, <2>4 DEF Handler
  <1>3. ASSUME NEW r \in Requests, Closure(r) PROVE TypeOK'
    <2>1. CASE BeginQuery(r)
      BY <2>1 DEF TypeOK, BeginQuery, SwapFlag, CodeFor, requestVars, EngineTypeOK, Stages, Codes
    <2>2. CASE BeginUnsendable(r)
      BY <2>2 DEF TypeOK, BeginUnsendable, Return, AfterCall, AfterOk, SwapFlag, requestVars, EngineTypeOK, Stages
    <2>3. CASE CallbackSkip(r)
      BY <2>3 DEF TypeOK, CallbackSkip, requestVars, localVars, engineVars, EngineTypeOK, Stages
    <2>4. CASE CallbackAbort(r)
      BY <2>4 DEF TypeOK, CallbackAbort, SignalAbort, Aborts, requestVars, EngineTypeOK, Stages
    <2>5. CASE CallbackForward(r)
      <3>1. Item("Content", gen[r]) \in StreamItems
        BY DEF Item, StreamItems, TypeOK
      <3>2. chan' \in [Requests -> Seq(StreamItems)]
        BY <2>5, <3>1, SendTyped DEF TypeOK, CallbackForward
      <3> QED
        BY <2>5, <3>2 DEF TypeOK, CallbackForward, requestVars, localVars, engineVars, EngineTypeOK, Stages
    <2>6. CASE ResetAfterError(r)
      BY <2>6, ResetTyped DEF TypeOK, ResetAfterError, AfterOk, requestVars, localVars, Stages
    <2>7. CASE SendLast(r)
      <3>1. chan' \in [Requests -> Seq(StreamItems)]
        <4>1. Item("Done", 0) \in StreamItems /\ Item("Error", 0) \in StreamItems
          BY ServerAssumption DEF Item, StreamItems
        <4> QED
          BY <2>7, <4>1, SendTyped DEF TypeOK, SendLast
      <3> QED
        BY <2>7, <3>1 DEF TypeOK, SendLast, AfterLast, requestVars, localVars, engineVars, EngineTypeOK, Stages
    <2>8. CASE ResetAfterAbort(r)
      BY <2>8, ResetTyped DEF TypeOK, ResetAfterAbort, requestVars, localVars, Stages
    <2>9. CASE Release(r)
      BY <2>9 DEF TypeOK, Release, requestVars, localVars, engineVars, EngineTypeOK, Stages, Watchdogs
    <2>10. CASE DropSender(r)
      BY <2>10, ForgetTyped DEF TypeOK, DropSender, requestVars, engineVars, EngineTypeOK, Stages
    <2> QED
      BY <1>3, <2>1, <2>2, <2>3, <2>4, <2>5, <2>6, <2>7, <2>8, <2>9, <2>10 DEF Closure
  <1>4. ASSUME NEW r \in Requests, Genie(r) PROVE TypeOK'
    <2> code[r] \in Codes
      BY DEF TypeOK
    <2>1. CASE EmitToken(r)
      BY <2>1, QueryTyped, ServerAssumption DEF TypeOK, EmitToken, ContextFull, requestVars, Stages
    <2>2. CASE EndOfText(r)
      BY <2>2, QueryTyped DEF TypeOK, EndOfText, Return, AfterCall, AfterOk, requestVars, Stages
    <2>3. CASE ReturnAborted(r)
      BY <2>3, QueryTyped DEF TypeOK, ReturnAborted, Return, AfterCall, AfterOk, requestVars, Stages
    <2>4. CASE ReturnFailed(r)
      BY <2>4, QueryTyped DEF TypeOK, ReturnFailed, Return, AfterCall, AfterOk, requestVars, Stages
    <2> QED
      BY <1>4, <2>1, <2>2, <2>3, <2>4 DEF Genie
  <1>5. ASSUME NEW r \in Requests, Watchdog(r) PROVE TypeOK'
    BY <1>5, ZenonT(60)
    DEF TypeOK, Watchdog, WatchdogFires, WatchdogRetires, SignalAbort, Aborts, requestVars,
        localVars, engineVars, EngineTypeOK, Watchdogs
  <1>6. ASSUME NEW r \in Requests, Client(r) PROVE TypeOK'
    <2>1. CASE Disconnect(r)
      BY <2>1 DEF TypeOK, Disconnect, requestVars, localVars, engineVars, EngineTypeOK, Watchdogs
    <2>2. CASE ClientReads(r)
      BY <2>2, ReadTyped DEF TypeOK, ClientReads, requestVars, localVars, engineVars, EngineTypeOK
    <2>3. CASE ClientSeesEnd(r)
      <3>1. Append(view[r], Item("End", 0)) \in Seq(Items)
        BY DEF TypeOK, Items, Item
      <3> QED
        BY <2>3, <3>1 DEF TypeOK, ClientSeesEnd, requestVars, localVars, engineVars, EngineTypeOK
    <2> QED
      BY <1>6, <2>1, <2>2, <2>3 DEF Client
  <1>7. CASE UNCHANGED vars
    BY <1>7 DEF TypeOK, vars, requestVars, localVars, engineVars, EngineTypeOK
  <1> QED
    BY <1>1, <1>2, <1>3, <1>4, <1>5, <1>6, <1>7 DEF Next, Step, AllSettled

\* Every variable of the server and of the engine keeps its type.
THEOREM TypeCorrect == Spec => []TypeOK
  BY InitTypeOK, NextTypeOK, PTL DEF Spec

-----------------------------------------------------------------------------
(* The permit *)

\* Every step keeps the permit with the request that occupies it.
LEMMA HolderStep == TypeOK /\ HolderInv /\ [Next]_vars => HolderInv'
  <1> SUFFICES ASSUME TypeOK, HolderInv, [Next]_vars
               PROVE  HolderInv'
    OBVIOUS
  <1> USE ServerAssumption DEF HolderInv, Occupies, To, TypeOK
  <1>1. ASSUME NEW r \in Requests, Arrive(r) PROVE HolderInv'
    BY <1>1, SMTT(40) DEF Arrive, RejectInvalid, AcquirePermit, RefuseBusy, PermitFree
  <1>2. ASSUME NEW r \in Requests, Handler(r) PROVE HolderInv'
    BY <1>2 DEF Handler, ResetThenDispatch, RejectHoldingPermit, DispatchChat, Reply
  <1>3. ASSUME NEW r \in Requests, Closure(r) PROVE HolderInv'
    BY <1>3 DEF Closure, BeginQuery, BeginUnsendable, CallbackSkip, CallbackAbort,
                CallbackForward, ResetAfterError, SendLast, ResetAfterAbort, Release,
                DropSender, Return, AfterCall, AfterOk, AfterLast
  <1>4. ASSUME NEW r \in Requests, Genie(r) PROVE HolderInv'
    BY <1>4 DEF Genie, EmitToken, EndOfText, ReturnAborted, ReturnFailed, Return,
                AfterCall, AfterOk
  <1>5. ASSUME NEW r \in Requests, Watchdog(r) \/ Client(r) PROVE HolderInv'
    BY <1>5 DEF Watchdog, WatchdogFires, WatchdogRetires, Client, Disconnect,
                ClientReads, ClientSeesEnd
  <1>6. CASE UNCHANGED vars
    BY <1>6 DEF vars
  <1> QED
    BY <1>1, <1>2, <1>3, <1>4, <1>5, <1>6 DEF Next, Step, AllSettled

\* The permit is held by exactly the request that is between try_acquire_owned
\* and the drop of `_permit` (or of `permit`, on the early return of /api/chat):
\* however requests come, go and fail, none is lost and none is duplicated.
THEOREM PermitAccounted == Spec => []HolderInv
  <1>1. Init => HolderInv
    BY ServerAssumption DEF Init, HolderInv, Occupies
  <1> QED
    BY <1>1, HolderStep, TypeCorrect, PTL DEF Spec

\* Mutual exclusion on the dialog: for any number of requests, at most one of
\* them is inside a Genie query or reset.
THEOREM Exclusion == Spec => []ExclusiveDialog
  <1>1. HolderInv => ExclusiveDialog
    BY DEF HolderInv, ExclusiveDialog, Occupies, InQuery, InReset
  <1> QED
    BY <1>1, PermitAccounted, PTL

-----------------------------------------------------------------------------
(* The KV cache and the sentence code *)

\* A step that leaves the cache alone, lets no query begin and ends none that
\* was to fill the cache.
LEMMA CacheFrame ==
  ASSUME CacheInv, RewindFindsCache,
         UNCHANGED <<chatStarted, kv, lastReset>>,
         \A s \in Requests : Priming(s) => Priming(s)',
         \A s \in Requests : InQuery(s)' => InQuery(s) /\ code'[s] = code[s]
  PROVE  CacheInv' /\ RewindFindsCache'
  BY DEF CacheInv, RewindFindsCache

\* A reset: nobody is in a query, and if it succeeds the flag goes with the cache.
LEMMA CacheReset ==
  ASSUME ResetDialog, \A s \in Requests : ~InQuery(s)'
  PROVE  CacheInv' /\ RewindFindsCache'
  BY DEF ResetDialog, FlagAfterReset, CacheInv, RewindFindsCache

\* Every step keeps chat_started and the cache in step.  Only three kinds of
\* step touch them: a query beginning, a query ending, and a reset; each needs
\* the permit to know that no other request is inside Genie at that moment.
LEMMA CacheStep ==
  TypeOK /\ HolderInv /\ CacheInv /\ RewindFindsCache /\ [Next]_vars
    => CacheInv' /\ RewindFindsCache'
  <1> SUFFICES ASSUME TypeOK, HolderInv, CacheInv, RewindFindsCache, [Next]_vars
               PROVE  CacheInv' /\ RewindFindsCache'
    OBVIOUS
  <1> DEFINE Frame ==
        /\ UNCHANGED <<chatStarted, kv, lastReset>>
        /\ \A s \in Requests : Priming(s) => Priming(s)'
        /\ \A s \in Requests : InQuery(s)' => InQuery(s) /\ code'[s] = code[s]
  <1>0. ASSUME Frame PROVE CacheInv' /\ RewindFindsCache'
    BY <1>0, CacheFrame
  <1>stage. stage \in [Requests -> Stages]
    BY DEF TypeOK
  <1> USE DEF InQuery, To
  <1>1. ASSUME NEW r \in Requests, Arrive(r) PROVE CacheInv' /\ RewindFindsCache'
    <2> Frame
      BY <1>1, <1>stage DEF Priming, Arrive, RejectInvalid, AcquirePermit, RefuseBusy, engineVars, localVars
    <2> QED
      BY <1>0
  <1>2. ASSUME NEW r \in Requests, Handler(r) PROVE CacheInv' /\ RewindFindsCache'
    <2>1. CASE ResetThenDispatch(r)
      <3> \A s \in Requests : ~InQuery(s)'
        BY <2>1, <1>stage DEF HolderInv, Occupies, ResetThenDispatch
      <3> QED
        BY <2>1, CacheReset DEF ResetThenDispatch
    <2>2. CASE RejectHoldingPermit(r) \/ DispatchChat(r)
      <3> Frame
        BY <2>2, <1>stage DEF Priming, RejectHoldingPermit, DispatchChat, engineVars, localVars
      <3> QED
        BY <1>0
    <2>3. CASE Reply(r)
      <3> Frame
        BY <2>3, <1>stage DEF TypeOK, Priming, Reply, Forget, engineVars
      <3> QED
        BY <1>0
    <2> QED
      BY <1>2, <2>1, <2>2, <2>3 DEF Handler
  <1>3. ASSUME NEW r \in Requests, Closure(r) PROVE CacheInv' /\ RewindFindsCache'
    <2>1. CASE BeginQuery(r)
      BY <2>1, <1>stage DEF TypeOK, HolderInv, Occupies, Priming, CacheInv, RewindFindsCache,
                  BeginQuery, SwapFlag, CodeFor
    <2>2. CASE BeginUnsendable(r)
      BY <2>2, <1>stage DEF TypeOK, Priming, CacheInv, RewindFindsCache, BeginUnsendable, SwapFlag,
                  Return, AfterCall
    <2>3. CASE CallbackSkip(r) \/ CallbackAbort(r) \/ CallbackForward(r)
      <3> Frame
        BY <2>3, <1>stage DEF Priming, CallbackSkip, CallbackAbort, CallbackForward, engineVars, localVars
      <3> QED
        BY <1>0
    <2>4. CASE ResetAfterError(r) \/ ResetAfterAbort(r)
      <3> \A s \in Requests : ~InQuery(s)'
        BY <2>4, <1>stage DEF HolderInv, Occupies, ResetAfterError, ResetAfterAbort, AfterOk
      <3> QED
        BY <2>4, CacheReset DEF ResetAfterError, ResetAfterAbort
    <2>5. CASE SendLast(r) \/ Release(r)
      <3> Frame
        BY <2>5, <1>stage DEF Priming, SendLast, AfterLast, Release, engineVars, localVars
      <3> QED
        BY <1>0
    <2>6. CASE DropSender(r)
      <3> Frame
        BY <2>6, <1>stage DEF TypeOK, Priming, DropSender, Forget, engineVars
      <3> QED
        BY <1>0
    <2> QED
      BY <1>3, <2>1, <2>2, <2>3, <2>4, <2>5, <2>6 DEF Closure
  <1>4. ASSUME NEW r \in Requests, Genie(r) PROVE CacheInv' /\ RewindFindsCache'
    <2>1. CASE EmitToken(r)
      <3> Frame
        BY <2>1, <1>stage DEF Priming, EmitToken, NextToken
      <3> QED
        BY <1>0
    <2>2. CASE EndOfText(r) \/ ReturnAborted(r)
      <3>1. kv' # {}
        BY <2>2 DEF EndOfText, ReturnAborted, QuerySucceeds, QueryAborted, CacheAfter
      <3> QED
        BY <3>1 DEF CacheInv, RewindFindsCache
    <2>3. CASE ReturnFailed(r)
      <3>1. \A s \in Requests : ~InQuery(s)'
        BY <2>3, <1>stage DEF HolderInv, Occupies, ReturnFailed, Return, AfterCall
      <3>2. stage'[r] = "err_reset"
        BY <2>3, <1>stage DEF ReturnFailed, Return, AfterCall
      <3> QED
        BY <3>1, <3>2 DEF CacheInv, RewindFindsCache, Priming
    <2> QED
      BY <1>4, <2>1, <2>2, <2>3 DEF Genie
  <1>5. ASSUME NEW r \in Requests, Watchdog(r) \/ Client(r)
        PROVE  CacheInv' /\ RewindFindsCache'
    <2> Frame
      BY <1>5 DEF Priming, Watchdog, WatchdogFires, WatchdogRetires, Client, Disconnect,
                  ClientReads, ClientSeesEnd, engineVars, localVars
    <2> QED
      BY <1>0
  <1>6. CASE UNCHANGED vars
    <2> Frame
      BY <1>6 DEF Priming, vars, engineVars, localVars
    <2> QED
      BY <1>0
  <1> QED
    BY <1>1, <1>2, <1>3, <1>4, <1>5, <1>6 DEF Next, Step, AllSettled

\* Rewind never reaches an empty KV cache, unless the last reset failed: however
\* queries fail, are aborted or never reach Genie, chat_started and the cache
\* stay in step.
THEOREM RewindSafe == Spec => []RewindFindsCache
  <1>1. Init => CacheInv /\ RewindFindsCache
    BY DEF Init, EngineInit, CacheInv, RewindFindsCache, Priming, InQuery
  <1>2. Spec => [](CacheInv /\ RewindFindsCache)
    BY <1>1, CacheStep, TypeCorrect, PermitAccounted, PTL DEF Spec
  <1> QED
    BY <1>2, PTL

-----------------------------------------------------------------------------
(* The end of a request *)

\* Every step keeps the end, and the answer, to requests that are over.
LEMMA EndStep == TypeOK /\ EndInv /\ [Next]_vars => EndInv'
  <1> SUFFICES ASSUME TypeOK, EndInv, [Next]_vars
               PROVE  EndInv'
    OBVIOUS
  <1>1. /\ stage \in [Requests -> Stages]
        /\ answer \in [Requests -> {"none", "busy", "bad_request", "ok", "failed"}]
        /\ view \in [Requests -> Seq(Items)]
        /\ chan \in [Requests -> Seq(StreamItems)]
    BY DEF TypeOK
  <1> USE <1>1 DEF To, Answer
  <1> DEFINE Ended(s) == StreamEnded(s) \/ answer[s] # "none"
  \* A step that shows no client an end, and leaves those that are over alone.
  <1>2. ASSUME \A s \in Requests : Ended(s)' => Ended(s),
               \A s \in Requests : stage[s] = "over" => stage'[s] = "over"
        PROVE  EndInv'
    BY <1>2 DEF EndInv
  <1>3. ASSUME NEW r \in Requests, Arrive(r) PROVE EndInv'
    BY <1>3 DEF EndInv, Arrive, RejectInvalid, AcquirePermit, RefuseBusy, StreamEnded
  <1>4. ASSUME NEW r \in Requests, Handler(r) PROVE EndInv'
    BY <1>4 DEF EndInv, Handler, ResetThenDispatch, RejectHoldingPermit, DispatchChat,
                Reply, StreamEnded
  <1>5. ASSUME NEW r \in Requests, Closure(r) \/ Genie(r) PROVE EndInv'
    <2>1. UNCHANGED <<answer, view>>
      BY <1>5 DEF Closure, BeginQuery, BeginUnsendable, CallbackSkip, CallbackAbort,
           CallbackForward, ResetAfterError, SendLast, ResetAfterAbort, Release,
           DropSender, Genie, EmitToken, EndOfText, ReturnAborted, ReturnFailed
    <2>2. \A s \in Requests : stage[s] = "over" => stage'[s] = "over"
      BY <1>5 DEF Closure, BeginQuery, BeginUnsendable, CallbackSkip, CallbackAbort,
           CallbackForward, ResetAfterError, SendLast, ResetAfterAbort, Release,
           DropSender, Genie, EmitToken, EndOfText, ReturnAborted, ReturnFailed, Return
    <2> QED
      BY <1>2, <2>1, <2>2 DEF StreamEnded
  <1>6. ASSUME NEW r \in Requests, Watchdog(r) PROVE EndInv'
    BY <1>2, <1>6 DEF Watchdog, WatchdogFires, WatchdogRetires, StreamEnded
  <1>7. ASSUME NEW r \in Requests, Disconnect(r) PROVE EndInv'
    BY <1>2, <1>7 DEF Disconnect, StreamEnded
  <1>8. ASSUME NEW r \in Requests, ClientReads(r) PROVE EndInv'
    <2>1. Head(chan[r]) \in StreamItems
      BY <1>8 DEF ClientReads
    <2>2. ~StreamEnded(r)'
      <3>1. view'[r] = Append(view[r], Head(chan[r]))
        BY <1>8 DEF ClientReads
      <3>2. Last(view'[r]) = Head(chan[r])
        BY <2>1, <3>1 DEF Last, Items
      <3> QED
        BY <2>1, <3>2 DEF StreamEnded, StreamItems
    <2> QED
      BY <1>2, <1>8, <2>2 DEF ClientReads, StreamEnded
  <1>9. ASSUME NEW r \in Requests, ClientSeesEnd(r) PROVE EndInv'
    BY <1>9 DEF EndInv, ClientSeesEnd, StreamEnded
  <1>10. CASE UNCHANGED vars
    BY <1>2, <1>10 DEF vars, StreamEnded
  <1> QED
    BY <1>3, <1>4, <1>5, <1>6, <1>7, <1>8, <1>9, <1>10 DEF Next, Step, AllSettled, Client

\* Nobody is told about the end of a request before it.
LEMMA EndsLast == Spec => []EndInv
  <1>1. Init => EndInv
    BY DEF Init, EndInv, StreamEnded
  <1> QED
    BY <1>1, EndStep, TypeCorrect, PTL DEF Spec

\* The end of a stream, or a reply, reaches a client only after its request has
\* dropped the permit: a client that asks again at once is never refused on
\* account of the request it just saw end.
THEOREM EndReleased == Spec => []EndMeansReleased
  <1>1. HolderInv /\ EndInv => EndMeansReleased
    BY DEF HolderInv, EndInv, EndMeansReleased, Occupies
  <1> QED
    BY <1>1, EndsLast, PermitAccounted, PTL

-----------------------------------------------------------------------------
(* The clean start of a /v1 query *)

\* The stage "checking" is entered by AcquirePermit alone.
LEMMA KindStep == TypeOK /\ KindInv /\ [Next]_vars => KindInv'
  <1> SUFFICES ASSUME TypeOK, KindInv, [Next]_vars
               PROVE  KindInv'
    OBVIOUS
  <1> stage \in [Requests -> Stages] /\ kind \in [Requests -> AllKinds \cup {"none"}]
    BY DEF TypeOK
  <1> USE DEF To, KindInv
  <1>1. ASSUME NEW r \in Requests, Arrive(r) PROVE KindInv'
    BY <1>1 DEF Arrive, RejectInvalid, AcquirePermit, RefuseBusy, requestVars
  <1>2. ASSUME NEW r \in Requests, Handler(r) PROVE KindInv'
    BY <1>2 DEF Handler, ResetThenDispatch, RejectHoldingPermit, DispatchChat, Reply,
                requestVars
  <1>3. ASSUME NEW r \in Requests, Closure(r) PROVE KindInv'
    BY <1>3 DEF Closure, BeginQuery, BeginUnsendable, CallbackSkip, CallbackAbort,
                CallbackForward, ResetAfterError, SendLast, ResetAfterAbort, Release,
                DropSender, Return, AfterCall, AfterOk, AfterLast, requestVars
  <1>4. ASSUME NEW r \in Requests, Genie(r) PROVE KindInv'
    BY <1>4 DEF Genie, EmitToken, EndOfText, ReturnAborted, ReturnFailed, Return,
                AfterCall, AfterOk, requestVars
  <1>5. ASSUME NEW r \in Requests, Watchdog(r) \/ Client(r) PROVE KindInv'
    BY <1>5 DEF Watchdog, WatchdogFires, WatchdogRetires, Client, Disconnect,
                ClientReads, ClientSeesEnd, requestVars
  <1>6. CASE UNCHANGED vars
    BY <1>6 DEF vars, requestVars
  <1> QED
    BY <1>1, <1>2, <1>3, <1>4, <1>5, <1>6 DEF Next, Step, AllSettled

\* A step that leaves the dialog alone, and brings nobody nearer to a query.
LEMMA CleanFrame ==
  ASSUME CleanInv,
         UNCHANGED <<chatStarted, kv, health, tainted, lastReset, kind>>,
         \A s \in Requests : stage'[s] = "queued" => stage[s] = "queued",
         \A s \in Requests : InQuery(s)' => InQuery(s) /\ code'[s] = code[s]
  PROVE  CleanInv'
  BY DEF CleanInv

\* A reset, taken while nobody is in a query: what it leaves behind is clean.
LEMMA CleanReset ==
  ASSUME ResetDialog, \A s \in Requests : ~InQuery(s)'
  PROVE  CleanInv'
  BY DEF ResetDialog, FlagAfterReset, CleanInv

\* Every step keeps what the reset of a /v1 request established until its query
\* has ended: nobody else can touch the dialog in between.
LEMMA CleanStep ==
  TypeOK /\ HolderInv /\ KindInv /\ CleanInv /\ [Next]_vars => CleanInv'
  <1> SUFFICES ASSUME TypeOK, HolderInv, KindInv, CleanInv, [Next]_vars
               PROVE  CleanInv'
    OBVIOUS
  <1> DEFINE Frame ==
        /\ UNCHANGED <<chatStarted, kv, health, tainted, lastReset, kind>>
        /\ \A s \in Requests : stage'[s] = "queued" => stage[s] = "queued"
        /\ \A s \in Requests : InQuery(s)' => InQuery(s) /\ code'[s] = code[s]
  <1>0. ASSUME Frame PROVE CleanInv'
    BY <1>0, CleanFrame
  <1>stage. stage \in [Requests -> Stages]
    BY DEF TypeOK
  <1> USE DEF InQuery, To
  <1>1. ASSUME NEW r \in Requests, Arrive(r) PROVE CleanInv'
    <2>1. CASE RejectInvalid(r) \/ RefuseBusy(r)
      <3> Frame
        BY <2>1, <1>stage DEF RejectInvalid, RefuseBusy, engineVars, requestVars, localVars
      <3> QED
        BY <1>0
    <2>2. CASE AcquirePermit(r)
      BY <2>2, <1>stage DEF TypeOK, CleanInv, AcquirePermit, engineVars, localVars
    <2> QED
      BY <1>1, <2>1, <2>2 DEF Arrive
  <1>2. ASSUME NEW r \in Requests, Handler(r) PROVE CleanInv'
    <2>1. CASE ResetThenDispatch(r)
      <3> \A s \in Requests : ~InQuery(s)'
        BY <2>1, <1>stage DEF HolderInv, Occupies, ResetThenDispatch
      <3> QED
        BY <2>1, CleanReset DEF ResetThenDispatch
    <2>2. CASE RejectHoldingPermit(r)
      <3> Frame
        BY <2>2, <1>stage DEF RejectHoldingPermit, engineVars, requestVars, localVars
      <3> QED
        BY <1>0
    <2>3. CASE DispatchChat(r)
      BY <2>3, <1>stage DEF DispatchChat, KindInv, CleanInv, OpenAI, OllamaChat,
                            engineVars, requestVars, localVars
    <2>4. CASE Reply(r)
      <3> Frame
        BY <2>4, <1>stage DEF TypeOK, Reply, Forget, engineVars, requestVars
      <3> QED
        BY <1>0
    <2> QED
      BY <1>2, <2>1, <2>2, <2>3, <2>4 DEF Handler
  <1>3. ASSUME NEW r \in Requests, Closure(r) PROVE CleanInv'
    <2>1. CASE BeginQuery(r)
      <3> \A s \in Requests \ {r} : stage'[s] # "queued" /\ ~InQuery(s)'
        BY <2>1, <1>stage DEF HolderInv, Occupies, BeginQuery
      <3> QED
        BY <2>1, <1>stage DEF TypeOK, CleanInv, BeginQuery, CodeFor, requestVars
    <2>2. CASE BeginUnsendable(r)
      <3> \A s \in Requests : stage'[s] # "queued" /\ ~InQuery(s)'
        BY <2>2, <1>stage DEF HolderInv, Occupies, BeginUnsendable, Return, AfterCall
      <3> QED
        BY DEF CleanInv
    <2>3. CASE CallbackSkip(r) \/ CallbackAbort(r) \/ CallbackForward(r)
      <3> Frame
        BY <2>3, <1>stage DEF CallbackSkip, CallbackAbort, CallbackForward, engineVars,
                              requestVars, localVars
      <3> QED
        BY <1>0
    <2>4. CASE ResetAfterError(r) \/ ResetAfterAbort(r)
      <3> \A s \in Requests : ~InQuery(s)'
        BY <2>4, <1>stage DEF HolderInv, Occupies, ResetAfterError, ResetAfterAbort, AfterOk
      <3> QED
        BY <2>4, CleanReset DEF ResetAfterError, ResetAfterAbort
    <2>5. CASE SendLast(r) \/ Release(r)
      <3> Frame
        BY <2>5, <1>stage DEF SendLast, AfterLast, Release, engineVars, requestVars, localVars
      <3> QED
        BY <1>0
    <2>6. CASE DropSender(r)
      <3> Frame
        BY <2>6, <1>stage DEF TypeOK, DropSender, Forget, engineVars, requestVars
      <3> QED
        BY <1>0
    <2> QED
      BY <1>3, <2>1, <2>2, <2>3, <2>4, <2>5, <2>6 DEF Closure
  <1>4. ASSUME NEW r \in Requests, Genie(r) PROVE CleanInv'
    <2>1. CASE EmitToken(r)
      <3> Frame
        BY <2>1, <1>stage DEF EmitToken, NextToken, requestVars
      <3> QED
        BY <1>0
    <2>2. CASE EndOfText(r) \/ ReturnAborted(r) \/ ReturnFailed(r)
      <3> \A s \in Requests : stage'[s] # "queued" /\ ~InQuery(s)'
        BY <2>2, <1>stage DEF HolderInv, Occupies, EndOfText, ReturnAborted, ReturnFailed,
                              Return, AfterCall, AfterOk
      <3> QED
        BY DEF CleanInv
    <2> QED
      BY <1>4, <2>1, <2>2 DEF Genie
  <1>5. ASSUME NEW r \in Requests, Watchdog(r) \/ Client(r) PROVE CleanInv'
    <2> Frame
      BY <1>5 DEF Watchdog, WatchdogFires, WatchdogRetires, Client, Disconnect,
                  ClientReads, ClientSeesEnd, engineVars, requestVars, localVars
    <2> QED
      BY <1>0
  <1>6. CASE UNCHANGED vars
    <2> Frame
      BY <1>6 DEF vars, engineVars, requestVars, localVars
    <2> QED
      BY <1>0
  <1> QED
    BY <1>1, <1>2, <1>3, <1>4, <1>5, <1>6 DEF Next, Step, AllSettled

\* A /v1 query starts on an empty cache of a dialog that has not failed, with
\* Complete, whatever earlier requests of any endpoint left there - unless the
\* reset before it failed.
THEOREM CleanStart == Spec => []OpenAIStartsClean
  <1>1. Init => KindInv /\ CleanInv
    BY DEF Init, KindInv, CleanInv, InQuery
  <1>2. Spec => [](KindInv /\ CleanInv)
    BY <1>1, KindStep, CleanStep, TypeCorrect, PermitAccounted, PTL DEF Spec
  <1>3. CleanInv => OpenAIStartsClean
    BY DEF CleanInv, OpenAIStartsClean
  <1> QED
    BY <1>2, <1>3, PTL

-----------------------------------------------------------------------------
(* What one request hands on to the next *)

\* A step that leaves the dialog, and how far every request has come, alone.
LEMMA HandOnFrame ==
  ASSUME HandOnInv,
         UNCHANGED <<health, tainted, lastReset>>,
         UNCHANGED <<stage, kind, aborted, result>>
  PROVE  HandOnInv'
  BY DEF HandOnInv, InQuery, Streams

\* Every step keeps the clean-up: a closure comes to its last statements after a
\* success, or after a reset, and nobody else touches the dialog in between.
LEMMA HandOnStep ==
  TypeOK /\ HolderInv /\ KindInv /\ HandOnInv /\ [Next]_vars => HandOnInv'
  <1> SUFFICES ASSUME TypeOK, HolderInv, KindInv, HandOnInv, [Next]_vars
               PROVE  HandOnInv'
    OBVIOUS
  <1>t. /\ stage \in [Requests -> Stages]
        /\ kind \in [Requests -> AllKinds \cup {"none"}]
        /\ aborted \in [Requests -> BOOLEAN]
        /\ result \in [Requests -> {"none", "ok", "err"}]
    BY DEF TypeOK
  <1>h. \A r, s \in Requests : Occupies(r) /\ Occupies(s) => r = s
    BY DEF HolderInv
  <1> USE <1>t DEF InQuery, To
  <1>1. ASSUME NEW r \in Requests, Arrive(r) PROVE HandOnInv'
    BY <1>1 DEF HandOnInv, Streams, Arrive, RejectInvalid, AcquirePermit, RefuseBusy, engineVars,
                requestVars, localVars
  <1>2. ASSUME NEW r \in Requests, Handler(r) PROVE HandOnInv'
    <2>1. CASE ResetThenDispatch(r)
      BY <2>1, <1>h DEF HandOnInv, Streams, Occupies, ResetThenDispatch, ResetDialog, requestVars,
                        localVars
    <2>2. CASE RejectHoldingPermit(r) \/ DispatchChat(r)
      BY <2>2 DEF HandOnInv, Streams, RejectHoldingPermit, DispatchChat, engineVars, requestVars,
                  localVars
    <2>3. CASE Reply(r)
      BY <2>3 DEF HandOnInv, Streams, Reply, Forget, engineVars, requestVars
    <2> QED
      BY <1>2, <2>1, <2>2, <2>3 DEF Handler
  <1>3. ASSUME NEW r \in Requests, Closure(r) PROVE HandOnInv'
    <2>1. CASE BeginQuery(r) \/ BeginUnsendable(r)
      BY <2>1, <1>h DEF HandOnInv, Streams, Occupies, BeginQuery, BeginUnsendable, Return,
                        AfterCall, requestVars
    <2>2. CASE CallbackSkip(r) \/ CallbackAbort(r) \/ CallbackForward(r)
      BY <2>2 DEF HandOnInv, Streams, CallbackSkip, CallbackAbort, CallbackForward, engineVars,
                  requestVars, localVars
    <2>3. CASE ResetAfterError(r) \/ ResetAfterAbort(r)
      BY <2>3, <1>h DEF HandOnInv, Streams, Occupies, ResetAfterError, ResetAfterAbort, AfterOk,
                        ResetDialog, requestVars, localVars
    <2>4. CASE SendLast(r) \/ Release(r)
      BY <2>4 DEF HandOnInv, Streams, SendLast, AfterLast, Release, engineVars, requestVars,
                  localVars
    <2>5. CASE DropSender(r)
      BY <2>5 DEF HandOnInv, Streams, DropSender, Forget, engineVars, requestVars
    <2> QED
      BY <1>3, <2>1, <2>2, <2>3, <2>4, <2>5 DEF Closure
  <1>4. ASSUME NEW r \in Requests, Genie(r) PROVE HandOnInv'
    <2>1. CASE EmitToken(r)
      BY <2>1 DEF HandOnInv, Streams, EmitToken, NextToken, requestVars
    <2>2. CASE EndOfText(r) \/ ReturnAborted(r)
      <3>1. health' = "ok" /\ Occupies(r)
        BY <2>2 DEF EndOfText, ReturnAborted, QuerySucceeds, QueryAborted, CanAnswer, Occupies
      <3>2. ~Streams(r) => ~aborted[r]
        BY DEF HandOnInv
      <3> QED
        BY <2>2, <3>1, <3>2, <1>h DEF HandOnInv, Streams, Occupies, EndOfText, ReturnAborted,
               Return, AfterCall, AfterOk, requestVars
    <2>3. CASE ReturnFailed(r)
      BY <2>3, <1>h DEF HandOnInv, Streams, Occupies, ReturnFailed, QueryFails, Return, AfterCall,
                        requestVars
    <2> QED
      BY <1>4, <2>1, <2>2, <2>3 DEF Genie
  <1>5. ASSUME NEW r \in Requests, Watchdog(r) \/ Client(r) PROVE HandOnInv'
    BY <1>5, HandOnFrame DEF Watchdog, WatchdogFires, WatchdogRetires, Client, Disconnect,
         ClientReads, ClientSeesEnd, engineVars, requestVars, localVars
  <1>6. CASE UNCHANGED vars
    BY <1>6, HandOnFrame DEF vars, engineVars, requestVars, localVars
  <1> QED
    BY <1>1, <1>2, <1>3, <1>4, <1>5, <1>6 DEF Next, Step, AllSettled

\* The two steps that drop the permit: the closure's last one, and the early
\* return of /api/chat, which has not queried anything.
LEMMA PermitDropped ==
  ASSUME TypeOK, HolderInv, [Next]_vars,
         NEW r \in Requests, holder = r, holder' # r
  PROVE  /\ stage[r] \in {"checking", "leaving"}
         /\ UNCHANGED engineVars
  <1> SUFFICES ASSUME NEW s \in Requests, Step(s)
               PROVE  /\ stage[r] \in {"checking", "leaving"}
                      /\ UNCHANGED engineVars
    BY DEF Next, AllSettled, vars
  <1>1. CASE RejectHoldingPermit(s) \/ Release(s)
    BY <1>1 DEF HolderInv, Occupies, RejectHoldingPermit, Release
  <1>2. CASE AcquirePermit(s)
    BY <1>2, ServerAssumption DEF AcquirePermit, PermitFree
  <1>3. CASE UNCHANGED holder
    BY <1>3
  <1> QED
    BY <1>1, <1>2, <1>3 DEF Step, Arrive, RejectInvalid, RefuseBusy, Handler, ResetThenDispatch,
         DispatchChat, Reply, Closure, BeginQuery, BeginUnsendable, CallbackSkip, CallbackAbort,
         CallbackForward, ResetAfterError, SendLast, ResetAfterAbort, DropSender, Genie,
         EmitToken, EndOfText, ReturnAborted, ReturnFailed, Watchdog, WatchdogFires,
         WatchdogRetires, Client, Disconnect, ClientReads, ClientSeesEnd

\* The clean-up invariant holds.
LEMMA HandOn == Spec => []HandOnInv
  <1>1. Init => KindInv /\ HandOnInv
    BY DEF Init, KindInv, HandOnInv, InQuery, Streams
  <1> QED
    BY <1>1, KindStep, HandOnStep, TypeCorrect, PermitAccounted, PTL DEF Spec

\* No request hands a failed dialog on to the next one, unless its reset failed.
THEOREM FailureKept == Spec => FailureNotHandedOn
  <1>1. TypeOK /\ HolderInv /\ HandOnInv /\ [Next]_vars =>
          [\A r \in Requests :
             holder = r /\ holder' # r /\ result[r] # "none" =>
               health' # "failed" \/ lastReset' = "err"]_vars
    BY PermitDropped DEF HandOnInv, engineVars
  <1> QED
    BY <1>1, HandOn, TypeCorrect, PermitAccounted, PTL DEF Spec, FailureNotHandedOn

\* Nor one that its closure aborted.
THEOREM AbortKept == Spec => AbortNotHandedOn
  <1>1. TypeOK /\ HolderInv /\ HandOnInv /\ [Next]_vars =>
          [\A r \in Requests :
             holder = r /\ holder' # r /\ aborted[r] =>
               ~tainted' \/ lastReset' = "err"]_vars
    BY PermitDropped DEF HandOnInv, engineVars
  <1> QED
    BY <1>1, HandOn, TypeCorrect, PermitAccounted, PTL DEF Spec, AbortNotHandedOn

-----------------------------------------------------------------------------
(* The watchdog's cap *)

\* A step that generates nothing and cancels no watchdog and no signal that is
\* still needed.
LEMMA CapFrame ==
  ASSUME CapInv,
         UNCHANGED <<gen, abort>>,
         \A s \in Requests : Watched(s)' => Watched(s),
         \A s \in Requests : stage'[s] = stage[s],
         \A s \in Requests : Watched(s)' /\ wd[s] = "armed" /\ wd'[s] # "armed"
                               => ~(stage[s] = "queued" \/ InQuery(s))
  PROVE  CapInv'
  BY DEF CapInv, CapHolds, InQuery

\* Every step keeps the cap.  Two matter: Genie's next token, which an armed
\* watchdog admits only before the deadline and a signal only once more, and
\* the watchdog's own, which leaves a signal behind.
LEMMA CapStep ==
  TypeOK /\ HolderInv /\ KindInv /\ CapInv /\ [Next]_vars => CapInv'
  <1> SUFFICES ASSUME TypeOK, HolderInv, KindInv, CapInv, [Next]_vars
               PROVE  CapInv'
    OBVIOUS
  <1>t. /\ stage \in [Requests -> Stages]
        /\ kind \in [Requests -> AllKinds \cup {"none"}]
        /\ client \in [Requests -> {"connected", "gone"}]
        /\ gen \in [Requests -> Nat]
        /\ wd \in [Requests -> Watchdogs]
        /\ abort \in Aborts
        /\ Deadline \in Nat
    BY ServerAssumption DEF TypeOK, EngineTypeOK
  <1>h. \A r, s \in Requests : Occupies(r) /\ Occupies(s) => r = s
    BY DEF HolderInv
  <1> USE <1>t DEF InQuery, To, Watched, CapHolds
  <1>1. ASSUME NEW r \in Requests, Arrive(r) PROVE CapInv'
    BY <1>1 DEF CapInv, Arrive, RejectInvalid, AcquirePermit, RefuseBusy, engineVars,
                requestVars, localVars, OllamaChat, OpenAI
  <1>2. ASSUME NEW r \in Requests, Handler(r) PROVE CapInv'
    <2>1. CASE ResetThenDispatch(r)
      BY <2>1, <1>h DEF CapInv, Occupies, ResetThenDispatch, ResetDialog, requestVars, localVars
    <2>2. CASE RejectHoldingPermit(r) \/ DispatchChat(r)
      BY <2>2 DEF CapInv, KindInv, OllamaChat, RejectHoldingPermit, DispatchChat, engineVars,
                  requestVars, localVars
    <2>3. CASE Reply(r)
      BY <2>3 DEF CapInv, Reply, Forget, engineVars, requestVars
    <2> QED
      BY <1>2, <2>1, <2>2, <2>3 DEF Handler
  <1>3. ASSUME NEW r \in Requests, Closure(r) PROVE CapInv'
    <2>1. CASE BeginQuery(r) \/ BeginUnsendable(r)
      BY <2>1 DEF CapInv, BeginQuery, BeginUnsendable, Return, AfterCall, AfterOk, requestVars
    <2>2. CASE CallbackSkip(r) \/ CallbackForward(r)
      BY <2>2 DEF CapInv, CallbackSkip, CallbackForward, engineVars, requestVars, localVars
    <2>3. CASE CallbackAbort(r)
      BY <2>3 DEF CapInv, CallbackAbort, SignalAbort, Aborts, requestVars
    <2>4. CASE ResetAfterError(r) \/ ResetAfterAbort(r)
      BY <2>4 DEF CapInv, ResetAfterError, ResetAfterAbort, AfterOk, ResetDialog, requestVars,
                  localVars
    <2>5. CASE SendLast(r) \/ Release(r)
      BY <2>5 DEF CapInv, SendLast, AfterLast, Release, engineVars, requestVars, localVars
    <2>6. CASE DropSender(r)
      BY <2>6 DEF CapInv, DropSender, Forget, engineVars, requestVars
    <2> QED
      BY <1>3, <2>1, <2>2, <2>3, <2>4, <2>5, <2>6 DEF Closure
  <1>4. ASSUME NEW r \in Requests, Genie(r) PROVE CapInv'
    <2>1. CASE EmitToken(r)
      BY <2>1, <1>h DEF CapInv, Occupies, EmitToken, NextToken, Aborts, requestVars
    <2>2. CASE EndOfText(r) \/ ReturnAborted(r) \/ ReturnFailed(r)
      BY <2>2, <1>h DEF CapInv, Occupies, EndOfText, ReturnAborted, ReturnFailed, QuerySucceeds,
             QueryAborted, QueryFails, Return, AfterCall, AfterOk, requestVars
    <2> QED
      BY <1>4, <2>1, <2>2 DEF Genie
  <1>5. ASSUME NEW r \in Requests, Watchdog(r) PROVE CapInv'
    <2>1. CASE WatchdogFires(r)
      BY <2>1 DEF CapInv, WatchdogFires, SignalAbort, QueryInFlight, Aborts, requestVars, localVars
    <2>2. CASE WatchdogRetires(r)
      BY <2>2, CapFrame DEF WatchdogRetires, engineVars, requestVars
    <2> QED
      BY <1>5, <2>1, <2>2 DEF Watchdog
  <1>6. ASSUME NEW r \in Requests, Client(r) PROVE CapInv'
    BY <1>6, CapFrame DEF Client, Disconnect, ClientReads, ClientSeesEnd, Streams, Streaming,
         engineVars, requestVars, localVars
  <1>7. CASE UNCHANGED vars
    BY <1>7, CapFrame DEF vars, engineVars, requestVars, localVars
  <1> QED
    BY <1>1, <1>2, <1>3, <1>4, <1>5, <1>6, <1>7 DEF Next, Step, AllSettled

\* The cap's invariant holds.
LEMMA Capped == Spec => []CapInv
  <1>1. Init => KindInv /\ CapInv
    BY ServerAssumption DEF Init, KindInv, CapInv, InQuery, Watched, CapHolds
  <1> QED
    BY <1>1, KindStep, CapStep, TypeCorrect, PermitAccounted, PTL DEF Spec

\* An inference whose watchdog has not lost its client produces no more tokens
\* than fit before the deadline, and the one that carries the abort - whichever
\* other requests come, end, disconnect and signal meanwhile.
THEOREM WatchdogCaps == Spec => []WatchedAreCapped
  <1>1. CapInv => WatchedAreCapped
    BY DEF CapInv, WatchedAreCapped
  <1> QED
    BY <1>1, Capped, PTL

-----------------------------------------------------------------------------
(* What a stream's client reads *)

\* The first item that is sent is all that was sent.
LEMMA SentFirst ==
  ASSUME NEW x \in Items
  PROVE  <<>> \o <<x>> = <<x>>
  OBVIOUS

\* A channel's new item comes last of all that was sent, and reading leaves
\* what was sent as it is.
LEMMA SentAppends ==
  ASSUME NEW v \in Seq(Items), NEW c \in Seq(Items), NEW x \in Items
  PROVE  v \o Append(c, x) = Append(v \o c, x)
  OBVIOUS

\* A client that takes the next item of its channel leaves what was sent as it is.
LEMMA SentStays ==
  ASSUME NEW v \in Seq(Items), NEW c \in Seq(Items), c # <<>>
  PROVE  Append(v, Head(c)) \o Tail(c) = v \o c
  <1>1. /\ Len(Append(v, Head(c))) = Len(v) + 1
        /\ Len(Tail(c)) = Len(c) - 1
        /\ Tail(c) \in Seq(Items) /\ Append(v, Head(c)) \in Seq(Items)
    OBVIOUS
  <1>2. ASSUME NEW i \in 1 .. Len(v) + Len(c)
        PROVE  (Append(v, Head(c)) \o Tail(c))[i] = (v \o c)[i]
    <2>1. CASE i <= Len(v)
      BY <1>1, <2>1
    <2>2. CASE i = Len(v) + 1
      BY <1>1, <2>2
    <2>3. CASE i > Len(v) + 1
      BY <1>1, <2>3
    <2> QED
      BY <2>1, <2>2, <2>3
  <1>3. /\ Append(v, Head(c)) \o Tail(c) \in Seq(Items)
        /\ v \o c \in Seq(Items)
        /\ Len(Append(v, Head(c)) \o Tail(c)) = Len(v) + Len(c)
        /\ Len(v \o c) = Len(v) + Len(c)
    BY <1>1
  <1> QED
    BY <1>2, <1>3, SMTT(40)

\* What a step that moves r alone may do to the others.
Same(s) ==
  /\ stage'[s] = stage[s] /\ kind'[s] = kind[s] /\ limit'[s] = limit[s]
  /\ client'[s] = client[s] /\ answer'[s] = answer[s]
  /\ chan'[s] = chan[s] /\ view'[s] = view[s]
  /\ gen'[s] = gen[s] /\ aborted'[s] = aborted[s]

\* A request that a step leaves alone keeps its stream.
LEMMA StreamFrame ==
  ASSUME NEW s \in Requests, StreamOf(s), Same(s)
  PROVE  StreamOf(s)'
  BY ZenonT(60) DEF StreamOf, Same, Starting, Silent, Open, Opens, Sent, Lead, Streams, InQuery,
         StreamEnded

\* Every step keeps the streams.  Each is fed by its closure, item by item, and
\* the closure's count of tokens is the number of those sent, as long as it has
\* not aborted and its client is there.
LEMMA StreamStep ==
  TypeOK /\ EndInv /\ KindInv /\ HandOnInv /\ CapInv /\ StreamInv /\ [Next]_vars => StreamInv'
  <1> SUFFICES ASSUME TypeOK, EndInv, KindInv, HandOnInv, CapInv, StreamInv, [Next]_vars
               PROVE  StreamInv'
    OBVIOUS
  <1>t. /\ stage \in [Requests -> Stages]
        /\ kind \in [Requests -> AllKinds \cup {"none"}]
        /\ limit \in [Requests -> Nat]
        /\ gen \in [Requests -> Nat]
        /\ aborted \in [Requests -> BOOLEAN]
        /\ chan \in [Requests -> Seq(StreamItems)]
        /\ client \in [Requests -> {"connected", "gone"}]
        /\ answer \in [Requests -> {"none", "busy", "bad_request", "ok", "failed"}]
        /\ view \in [Requests -> Seq(Items)]
    BY DEF TypeOK
  <1>0. ASSUME NEW r \in Requests, StreamOf(r)', \A s \in Requests \ {r} : Same(s)
        PROVE  StreamInv'
    BY <1>0, StreamFrame DEF StreamInv
  <1>same. ASSUME \A s \in Requests : Same(s) PROVE StreamInv'
    BY <1>same, StreamFrame DEF StreamInv
  <1>q. \A r \in Requests : view[r] \in Seq(Items) /\ chan[r] \in Seq(Items)
    BY <1>t DEF Items
  <1>i. /\ \A r \in Requests : Item("Content", gen[r]) \in Items
        /\ \A w \in {"Role", "Done", "Error", "End"} : Item(w, 0) \in Items
    BY ServerAssumption DEF TypeOK, Item, Items, StreamItems
  <1>l. \A r \in Requests : Lead(r) \in {0, 1}
    BY DEF Lead
  <1> USE DEF To, Answer
  <1>1. ASSUME NEW r \in Requests, Arrive(r) PROVE StreamInv'
    <2>1. \A s \in Requests \ {r} : Same(s)
      BY <1>1, <1>t DEF Same, Arrive, RejectInvalid, AcquirePermit, RefuseBusy, requestVars, localVars
    <2>2. /\ stage[r] = "new" /\ answer[r] = "none"
          /\ client[r] = "connected" /\ view[r] = <<>> /\ chan[r] = <<>>
          /\ client'[r] = "connected" /\ view'[r] = <<>> /\ chan'[r] = <<>>
      BY <1>1, <1>t DEF StreamInv, StreamOf, Starting, Silent, EndInv, Arrive, RejectInvalid,
           AcquirePermit, RefuseBusy
    <2>3. CASE RejectInvalid(r) \/ RefuseBusy(r)
      <3> Silent(r)' /\ ~Starting(r)' /\ stage'[r] # "sending_last"
        BY <2>3, <1>t DEF RejectInvalid, RefuseBusy, Silent, Starting
      <3> QED
        BY <1>0, <2>1, <2>2 DEF StreamOf
    <2>4. CASE AcquirePermit(r)
      <3>1. PICK k \in Kinds :
              /\ kind'[r] = k
              /\ stage'[r] = IF k \in OpenAI THEN "resetting"
                             ELSE IF k \in OllamaChat THEN "checking" ELSE "queued"
        BY <2>4, <1>t DEF AcquirePermit
      <3>2. gen[r] = 0 /\ gen' = gen
        BY <2>2, <2>4 DEF CapInv, AcquirePermit, localVars
      <3>3. stage'[r] = "queued" => Lead(r)' = 0
        BY <3>1 DEF Lead, OpenAI
      <3>4. Sent(r)' = <<>>
        BY <2>2 DEF Sent
      <3> QED
        BY <1>0, <2>1, <2>2, <3>1, <3>2, <3>3, <3>4 DEF StreamOf, Starting, Silent, Open, Opens
    <2> QED
      BY <1>1, <2>3, <2>4 DEF Arrive
  <1>2. ASSUME NEW r \in Requests, Handler(r) PROVE StreamInv'
    <2>1. \A s \in Requests \ {r} : Same(s)
      BY <1>2, <1>t DEF Same, Handler, ResetThenDispatch, RejectHoldingPermit, DispatchChat,
           Reply, Forget, Send, requestVars, localVars
    <2>2. CASE ResetThenDispatch(r)
      <3>1. /\ answer[r] = "none" /\ answer' = answer /\ kind[r] \in OpenAI
            /\ client[r] = "connected" /\ view[r] = <<>> /\ chan[r] = <<>>
            /\ client' = client /\ view' = view /\ kind' = kind
            /\ gen[r] = 0 /\ gen' = gen /\ stage'[r] = "queued"
        BY <2>2, <1>t DEF StreamInv, StreamOf, Starting, Silent, EndInv, CapInv, KindInv,
             ResetThenDispatch, requestVars, localVars
      <3>2. CASE Streams(r)
        <4>1. chan'[r] = <<Item("Role", 0)>>
          BY <2>2, <3>1, <3>2, <1>t DEF ResetThenDispatch, Send
        <4>2. Lead(r)' = 1
          BY <3>1, <3>2 DEF Lead, OpenAI, Streams, Streaming
        <4>3. Sent(r)' = <<Item("Role", 0)>>
          BY <1>i, <3>1, <4>1, SentFirst DEF Sent
        <4>4. ~Silent(r)' /\ Open(r)' /\ ~Starting(r)'
          BY <3>1, <3>2 DEF Silent, Open, Starting, Streams
        <4> QED
          <5>1. Opens(r, Sent(r), 1)' /\ Len(Sent(r)') = 1
            BY <4>2, <4>3 DEF Opens
          <5>2. Opens(r, Sent(r), Len(Sent(r)))'
            BY <5>1
          <5>3. Len(Sent(r)') = Lead(r)' + gen'[r] - 0 /\ stage'[r] # "callback"
            BY <3>1, <4>2, <5>1
          <5> QED
            BY <1>0, <2>1, <3>1, <4>4, <5>2, <5>3 DEF StreamOf
      <3>3. CASE ~Streams(r)
        <4> Silent(r)' /\ chan'[r] = <<>>
          BY <2>2, <3>1, <3>3 DEF ResetThenDispatch, Silent, Streams
        <4> QED
          BY <1>0, <2>1, <3>1 DEF StreamOf, Starting
      <3> QED
        BY <3>2, <3>3
    <2>3. CASE RejectHoldingPermit(r)
      <3> /\ Silent(r)' /\ ~Starting(r)' /\ stage'[r] = "over"
          /\ view'[r] = <<>> /\ chan'[r] = <<>>
        BY <2>3, <1>t DEF RejectHoldingPermit, Silent, Starting, StreamInv, StreamOf
      <3> QED
        BY <1>0, <2>1 DEF StreamOf
    <2>4. CASE DispatchChat(r)
      <3>1. /\ kind[r] \in OllamaChat /\ kind' = kind
            /\ view[r] = <<>> /\ chan[r] = <<>> /\ view' = view /\ chan' = chan
            /\ gen[r] = 0 /\ gen' = gen /\ stage'[r] = "queued"
        BY <2>4, <1>t DEF StreamInv, StreamOf, Starting, Silent, CapInv, KindInv, DispatchChat,
             requestVars, localVars
      <3>2. Lead(r)' = 0 /\ Sent(r)' = <<>>
        BY <3>1 DEF Lead, OllamaChat, Sent
      <3> QED
        BY <1>0, <2>1, <3>1, <3>2 DEF StreamOf, Starting, Open, Opens
    <2>5. CASE Reply(r)
      <3>1. /\ Silent(r) /\ Silent(r)' /\ ~Starting(r)' /\ stage'[r] = "over"
            /\ view' = view /\ chan' = chan
        BY <2>5, <1>t DEF Reply, Silent, Starting, Streams, requestVars
      <3> QED
        BY <1>0, <2>1, <3>1 DEF StreamOf, StreamInv
    <2> QED
      BY <1>2, <2>2, <2>3, <2>4, <2>5 DEF Handler
  <1>3. ASSUME NEW r \in Requests, Closure(r) \/ Genie(r) PROVE StreamInv'
    <2>0. UNCHANGED <<kind, limit, client, answer, view>>
      BY <1>3 DEF Closure, BeginQuery, BeginUnsendable, CallbackSkip, CallbackAbort,
           CallbackForward, ResetAfterError, SendLast, ResetAfterAbort, Release, DropSender,
           Genie, EmitToken, EndOfText, ReturnAborted, ReturnFailed, requestVars
    <2>1. \A s \in Requests \ {r} : Same(s)
      BY <1>3, <2>0, <1>t DEF Same, Closure, BeginQuery, BeginUnsendable, CallbackSkip,
           CallbackAbort, CallbackForward, ResetAfterError, SendLast, ResetAfterAbort, Release,
           DropSender, Genie, EmitToken, EndOfText, ReturnAborted, ReturnFailed, Return, Forget,
           Send, localVars
    <2>2. /\ ~Starting(r) /\ ~Starting(r)'
          /\ StreamOf(r) /\ Lead(r)' = Lead(r) /\ Lead(r) \in {0, 1}
          /\ (Streams(r)' <=> Streams(r)) /\ (Silent(r)' <=> Silent(r))
          /\ (StreamEnded(r)' <=> StreamEnded(r))
          /\ Sent(r) \in Seq(Items)
          /\ stage[r] # "over" => ~StreamEnded(r)
      BY <1>3, <2>0, <1>t, <1>q, <1>l
      DEF StreamInv, Lead, Streams, Silent, Starting, StreamEnded, Sent, EndInv, Closure,
          BeginQuery, BeginUnsendable, CallbackSkip, CallbackAbort, CallbackForward,
          ResetAfterError, SendLast, ResetAfterAbort, Release, DropSender, Genie, EmitToken,
          EndOfText, ReturnAborted, ReturnFailed, Return, AfterCall, AfterOk, AfterLast
    <2>3. CASE Silent(r)
      <3>1. chan'[r] = <<>> /\ view'[r] = <<>>
        <4>1. chan[r] = <<>> /\ view[r] = <<>>
          BY <2>2, <2>3 DEF StreamOf
        <4>2. ~CallbackForward(r)
          BY <2>2, <2>3 DEF CallbackForward, ReceiverDropped, Silent, HandOnInv, EndInv
        <4>3. SendLast(r) => chan' = chan
          BY <2>2, <2>3 DEF SendLast, ReceiverDropped, Silent, StreamOf, EndInv
        <4> QED
          BY <1>3, <2>0, <4>1, <4>2, <4>3
          DEF Closure, BeginQuery, BeginUnsendable, CallbackSkip, CallbackAbort,
              ResetAfterError, ResetAfterAbort, Release, DropSender, Genie, EmitToken,
              EndOfText, ReturnAborted, ReturnFailed, localVars
      <3>2. stage'[r] = "sending_last" => Streams(r)'
        BY <1>3, <2>2, <1>t
        DEF Closure, BeginQuery, BeginUnsendable, CallbackSkip, CallbackAbort, CallbackForward,
            ResetAfterError, SendLast, AfterLast, ResetAfterAbort, Release, DropSender, Genie,
            EmitToken, EndOfText, ReturnAborted, ReturnFailed, Return, AfterCall, AfterOk
      <3> QED
        BY <1>0, <2>1, <2>2, <2>3, <3>1, <3>2 DEF StreamOf
    <2>4. CASE ~Silent(r) /\ ~CallbackForward(r) /\ ~SendLast(r)
      <3>1. chan' = chan
        BY <1>3, <2>4
        DEF Closure, BeginQuery, BeginUnsendable, CallbackSkip, CallbackAbort,
            ResetAfterError, ResetAfterAbort, Release, DropSender, Genie, EmitToken,
            EndOfText, ReturnAborted, ReturnFailed, localVars
      <3>2. Sent(r)' = Sent(r)
        BY <2>0, <3>1 DEF Sent
      <3>3. \A k : Opens(r, Sent(r), k)' <=> Opens(r, Sent(r), k)
        BY <2>0, <2>2, <3>2 DEF Opens
      <3>4. CASE Open(r)
        <4>1. Open(r)'
          BY <1>3, <2>2, <2>4, <3>4, <1>t
          DEF Open, Silent, Closure, BeginQuery, BeginUnsendable, CallbackSkip, CallbackAbort,
              ResetAfterError, ResetAfterAbort, Release,
              DropSender, Genie, EmitToken, EndOfText, ReturnAborted, ReturnFailed, Return,
              AfterCall, AfterOk
        <4>2. /\ Opens(r, Sent(r), Len(Sent(r)))
              /\ ~aborted[r] /\ (stage[r] = "queued" \/ InQuery(r)) =>
                   Len(Sent(r)) = Lead(r) + gen[r] - (IF stage[r] = "callback" THEN 1 ELSE 0)
          BY <2>2, <2>4, <3>4 DEF StreamOf
        <4>3. ~aborted'[r] /\ (stage'[r] = "queued" \/ InQuery(r)') =>
                /\ ~aborted[r] /\ (stage[r] = "queued" \/ InQuery(r))
                /\ gen'[r] - (IF stage'[r] = "callback" THEN 1 ELSE 0)
                     = gen[r] - (IF stage[r] = "callback" THEN 1 ELSE 0)
          BY <1>3, <2>4, <1>t
          DEF InQuery, Silent, Closure, BeginQuery, BeginUnsendable, CallbackSkip, CallbackAbort,
              ResetAfterError, ResetAfterAbort, Release, DropSender, Genie, EmitToken, EndOfText,
              ReturnAborted, ReturnFailed, Return, AfterCall, AfterOk, localVars
        <4>4. Opens(r, Sent(r), Len(Sent(r)))'
          BY <3>2, <3>3, <4>2
        <4>5. ~aborted'[r] /\ (stage'[r] = "queued" \/ InQuery(r)') =>
                Len(Sent(r)') = Lead(r)' + gen'[r] - (IF stage'[r] = "callback" THEN 1 ELSE 0)
          BY <1>t, <2>2, <3>2, <4>2, <4>3
        <4>6. stage'[r] = "sending_last" => Streams(r)'
          BY <2>2, <2>4 DEF Silent
        <4> QED
          BY <1>0, <2>1, <2>2, <2>4, <4>1, <4>4, <4>5, <4>6 DEF StreamOf
      <3>5. CASE ~Open(r)
        <4>1. ~Open(r)' /\ stage'[r] # "sending_last"
          BY <1>3, <2>2, <3>5, <1>t
          DEF Open, Starting, Closure, BeginQuery, BeginUnsendable, CallbackSkip, CallbackAbort,
              CallbackForward, ResetAfterError, SendLast, AfterLast, ResetAfterAbort, Release,
              DropSender, Genie, EmitToken, EndOfText, ReturnAborted, ReturnFailed
        <4> QED
          BY <1>0, <2>1, <2>2, <2>4, <3>1, <3>2, <3>3, <3>5, <4>1 DEF StreamOf
      <3> QED
        BY <3>4, <3>5
    <2>5. CASE ~Silent(r) /\ CallbackForward(r)
      <3> DEFINE t == Append(Sent(r), Item("Content", gen[r]))
      <3>1. /\ stage[r] = "callback" /\ stage'[r] = "genie"
            /\ ~aborted[r] /\ gen' = gen /\ aborted' = aborted /\ gen[r] <= limit[r]
            /\ chan'[r] = Append(chan[r], Item("Content", gen[r]))
        BY <2>5, <1>t DEF CallbackForward, Send, OverBudget, localVars
      <3>2. Sent(r)' = t
        <4>1. view[r] \o Append(chan[r], Item("Content", gen[r])) = t
          BY <1>q, <1>i, SentAppends DEF Sent
        <4> QED
          BY <2>0, <3>1, <4>1 DEF Sent
      <3>3. /\ Opens(r, Sent(r), Len(Sent(r)))
            /\ Len(Sent(r)) = Lead(r) + gen[r] - 1
        BY <2>2, <2>5, <3>1 DEF StreamOf, Open, InQuery
      <3>4. /\ Len(t) = Lead(r) + gen[r]
            /\ t[Lead(r) + gen[r]] = Item("Content", gen[r])
            /\ \A i \in 1 .. Len(Sent(r)) : t[i] = Sent(r)[i]
        BY <1>i, <1>t, <2>2, <3>2, <3>3
      <3>5. Opens(r, Sent(r), Len(Sent(r)))'
        BY <1>t, <2>0, <2>2, <3>1, <3>2, <3>3, <3>4, SMTT(40) DEF Opens
      <3>6. Len(Sent(r)') = Lead(r)' + gen'[r] - (IF stage'[r] = "callback" THEN 1 ELSE 0)
        BY <1>t, <2>2, <3>1, <3>2, <3>4
      <3> QED
        BY <1>0, <2>1, <2>2, <2>5, <3>1, <3>5, <3>6 DEF StreamOf, Open
    <2>6. CASE ~Silent(r) /\ SendLast(r)
      <3>1. PICK w \in LastWords : chan'[r] = Append(chan[r], Item(w, 0))
        BY <2>6, <1>t DEF SendLast, Send, LastWords, Silent, ReceiverDropped
      <3> DEFINE t == Append(Sent(r), Item(w, 0))
      <3>2. Sent(r)' = t
        <4>1. view[r] \o Append(chan[r], Item(w, 0)) = t
          <5> Item(w, 0) \in Items
            BY <1>i DEF LastWords
          <5> QED
            BY <1>q, SentAppends DEF Sent
        <4> QED
          BY <2>0, <3>1, <4>1 DEF Sent
      <3>3. /\ stage[r] = "sending_last"
            /\ ~Open(r)' /\ stage'[r] # "sending_last" /\ ~StreamEnded(r)'
        BY <2>2, <2>6, <1>t DEF SendLast, AfterLast, Open
      <3>4. Opens(r, Sent(r), Len(Sent(r)))
        BY <2>2, <2>6, <3>3 DEF StreamOf, Open
      <3>5. /\ Len(t) = Len(Sent(r)) + 1
            /\ t[Len(Sent(r)) + 1] = Item(w, 0)
            /\ \A i \in 1 .. Len(Sent(r)) : t[i] = Sent(r)[i]
        BY <1>i, <2>2, <3>2 DEF LastWords
      <3>6. Opens(r, Sent(r), Len(Sent(r)) - 1)'
        BY <1>t, <2>0, <2>2, <3>2, <3>4, <3>5, SMTT(40) DEF Opens
      <3>7. t[Len(Sent(r)) + 1].what \in LastWords
        BY <3>5 DEF Item
      <3>8. LET k == Len(Sent(r)') - (IF StreamEnded(r)' THEN 2 ELSE 1)
            IN Sent(r)'[k + 1].what \in LastWords
        BY <2>2, <3>2, <3>3, <3>5, <3>7
      <3> QED
        BY <1>0, <2>1, <2>2, <2>6, <3>3, <3>6, <3>8 DEF StreamOf
    <2> QED
      BY <1>3, <2>3, <2>4, <2>5, <2>6
  <1>4. ASSUME NEW r \in Requests, Watchdog(r) PROVE StreamInv'
    BY <1>same, <1>4 DEF Same, Watchdog, WatchdogFires, WatchdogRetires, requestVars, localVars
  <1>5. ASSUME NEW r \in Requests, Disconnect(r) PROVE StreamInv'
    <2>1. \A s \in Requests \ {r} : Same(s)
      BY <1>5, <1>t DEF Same, Disconnect, requestVars, localVars
    <2>2. /\ ~Starting(r)' /\ Silent(r)' /\ view'[r] = <<>> /\ chan'[r] = <<>>
          /\ stage'[r] = "sending_last" => Streams(r)'
      BY <1>5, <1>t DEF Disconnect, Working, Starting, Silent, StreamInv, StreamOf, Streams,
           requestVars
    <2> QED
      BY <1>0, <2>1, <2>2 DEF StreamOf
  <1>6. ASSUME NEW r \in Requests, ClientReads(r) PROVE StreamInv'
    <2>1. \A s \in Requests \ {r} : Same(s)
      BY <1>6, <1>t DEF Same, ClientReads, requestVars
    <2>2. /\ chan[r] # <<>> /\ UNCHANGED <<stage, kind, limit, client, answer, gen, aborted>>
          /\ view'[r] = Append(view[r], Head(chan[r])) /\ chan'[r] = Tail(chan[r])
      BY <1>6, <1>t DEF ClientReads, requestVars
    <2>3. Sent(r)' = Sent(r)
      BY <1>q, <2>2, SentStays DEF Sent
    <2>4. StreamOf(r) /\ ~Silent(r)
      BY <2>2 DEF StreamInv, StreamOf
    <2>5. ~StreamEnded(r)
      BY <2>2, <2>4, <1>t DEF StreamOf, EndInv, Open
    <2>6. ~StreamEnded(r)'
      <3>1. Head(chan[r]) \in StreamItems
        BY <1>t, <2>2
      <3>2. Last(view'[r]) = Head(chan[r])
        BY <1>q, <2>2, <3>1 DEF Last, Items
      <3> QED
        BY <3>1, <3>2 DEF StreamEnded, StreamItems
    <2> QED
      BY <1>0, <2>1, <2>2, <2>3, <2>4, <2>5, <2>6
      DEF StreamOf, Starting, Silent, Streams, Open, Opens, Lead, InQuery
  <1>7. ASSUME NEW r \in Requests, ClientSeesEnd(r) PROVE StreamInv'
    <2> DEFINE t == Append(Sent(r), Item("End", 0))
    <2>1. \A s \in Requests \ {r} : Same(s)
      BY <1>7, <1>t DEF Same, ClientSeesEnd, requestVars
    <2>2. /\ UNCHANGED <<stage, kind, limit, client, answer, gen, aborted, chan>>
          /\ stage[r] = "over" /\ ~StreamEnded(r) /\ chan[r] = <<>>
          /\ view'[r] = Append(view[r], Item("End", 0))
      BY <1>7, <1>t DEF ClientSeesEnd, requestVars
    <2>3. StreamOf(r) /\ ~Silent(r) /\ ~Open(r) /\ ~Silent(r)' /\ ~Open(r)'
      BY <1>7, <2>2 DEF StreamInv, ClientSeesEnd, Silent, Starting, Open, Streams
    <2>4. Sent(r) = view[r] /\ Sent(r)' = t /\ Sent(r) \in Seq(Items)
      BY <1>q, <1>i, <2>2 DEF Sent
    <2>5. StreamEnded(r)'
      <3>1. view'[r] # <<>> /\ Last(view'[r]) = Item("End", 0)
        BY <1>q, <1>i, <2>2, SMTT(40) DEF Last
      <3> QED
        BY <3>1 DEF StreamEnded, Item
    <2>6. /\ Opens(r, Sent(r), Len(Sent(r)) - 1)
          /\ Sent(r)[Len(Sent(r)) - 1 + 1].what \in LastWords
      BY <2>2, <2>3 DEF StreamOf
    <2>7. /\ Len(t) = Len(Sent(r)) + 1
          /\ \A i \in 1 .. Len(Sent(r)) : t[i] = Sent(r)[i]
      BY <1>i, <2>4
    <2>8. Opens(r, Sent(r), Len(Sent(r)) - 2)'
      BY <1>l, <2>2, <2>4, <2>6, <2>7 DEF Opens, Lead
    <2>9. Sent(r)'[Len(Sent(r)') - 2 + 1].what \in LastWords
      BY <1>l, <2>4, <2>6, <2>7 DEF Opens
    <2> QED
      BY <1>0, <2>1, <2>2, <2>3, <2>5, <2>8, <2>9 DEF StreamOf, Starting
  <1>8. CASE UNCHANGED vars
    BY <1>same, <1>8 DEF Same, vars, requestVars, localVars
  <1> QED
    BY <1>1, <1>2, <1>3, <1>4, <1>5, <1>6, <1>7, <1>8 DEF Next, Step, AllSettled, Client

\* The streams' invariant holds.
LEMMA Streamed == Spec => []StreamInv
  <1>1. Init => KindInv /\ StreamInv
    BY DEF Init, KindInv, StreamInv, StreamOf, Starting, Silent
  <1> QED
    BY <1>1, KindStep, StreamStep, TypeCorrect, EndsLast, HandOn, Capped, PTL DEF Spec

\* The beginning of two sequences, one after the other, is the first one.
LEMMA SentBegins ==
  ASSUME NEW v \in Seq(Items), NEW c \in Seq(Items)
  PROVE  /\ Len(v) \in Nat /\ Len(c) \in Nat
         /\ DOMAIN v = 1 .. Len(v)
         /\ Len(v \o c) = Len(v) + Len(c)
         /\ \A i \in 1 .. Len(v) : v[i] = (v \o c)[i]
  OBVIOUS

\* What a client has read is the beginning of what was sent to it.
LEMMA ViewOfSent ==
  ASSUME TypeOK, NEW r \in Requests
  PROVE  /\ Len(view[r]) \in Nat /\ Len(chan[r]) \in Nat
         /\ DOMAIN view[r] = 1 .. Len(view[r])
         /\ Len(Sent(r)) = Len(view[r]) + Len(chan[r])
         /\ \A i \in 1 .. Len(view[r]) : view[r][i] = Sent(r)[i]
  <1>1. view[r] \in Seq(Items) /\ chan[r] \in Seq(Items)
    BY DEF TypeOK, Items
  <1> QED
    BY <1>1, SentBegins DEF Sent

\* Whatever a stream's client reads, and whenever it reads it, is the Role, the
\* tokens from the first on without a gap and within the budget, then Done or
\* Error, then the end; and a stream that ends had its Done or Error - for any
\* channel capacity, any budget and any number of other requests.
THEOREM StreamsFollowOrder == Spec => []StreamsWellFormed
  <1>1. ASSUME TypeOK, EndInv, StreamInv, NEW r \in Requests PROVE WellFormedView(r)
    <2>n. PICK n \in Nat, m \in Nat : n = Len(view[r]) /\ m = Len(chan[r])
      BY <1>1, ViewOfSent
    <2>1. Len(Sent(r)) = n + m
      BY <1>1, <2>n, ViewOfSent
    <2>v. /\ DOMAIN view[r] = 1 .. n
          /\ \A i \in 1 .. n : view[r][i] = Sent(r)[i]
      BY <1>1, <2>n, ViewOfSent
    <2>2. StreamOf(r) /\ Lead(r) \in {0, 1}
      BY <1>1 DEF StreamInv, Lead
    <2>3. CASE Silent(r)
      BY <2>2, <2>3 DEF StreamOf, WellFormedView, StreamEnded
    \* The first k items, and Done or Error after them.
    <2>4. ASSUME NEW k \in Nat, Opens(r, Sent(r), k)
          PROVE  \A i \in 1 .. k : i <= n =>
                   /\ view[r][i].what = "Role" <=> i <= Lead(r)
                   /\ view[r][i].what \in {"Role", "Content"}
                   /\ view[r][i].what = "Content" =>
                        view[r][i].n = i - Lead(r) /\ view[r][i].n <= limit[r]
      <3> SUFFICES ASSUME NEW i \in 1 .. k, i <= n
                   PROVE  /\ view[r][i].what = "Role" <=> i <= Lead(r)
                          /\ view[r][i].what \in {"Role", "Content"}
                          /\ view[r][i].what = "Content" =>
                               view[r][i].n = i - Lead(r) /\ view[r][i].n <= limit[r]
        OBVIOUS
      <3>1. IF i <= Lead(r) THEN view[r][i] = Item("Role", 0)
            ELSE view[r][i] = Item("Content", i - Lead(r)) /\ i - Lead(r) <= limit[r]
        BY <2>1, <2>v, <2>4 DEF Opens
      <3> QED
        BY <3>1 DEF Item
    <2>5. CASE ~Silent(r) /\ Open(r)
      <3>1. Opens(r, Sent(r), Len(Sent(r))) /\ Len(Sent(r)) \in Nat
        BY <2>1, <2>2, <2>5 DEF StreamOf
      <3>2. ~StreamEnded(r)
        BY <1>1, <2>5 DEF EndInv, Open
      <3>3. \A i \in 1 .. n : i \in 1 .. Len(Sent(r)) /\ i <= n
        BY <2>1
      <3> QED
        BY <2>v, <2>4, <3>1, <3>2, <3>3 DEF WellFormedView, LastWords
    <2>6. CASE ~Silent(r) /\ ~Open(r) /\ ~StreamEnded(r)
      <3> DEFINE k == Len(Sent(r)) - 1
      <3>1. Opens(r, Sent(r), k) /\ Sent(r)[k + 1].what \in LastWords
        BY <2>2, <2>6 DEF StreamOf
      <3>2. k \in Nat /\ Lead(r) <= k /\ n <= k + 1
        <4> Lead(r) <= k
          BY <3>1 DEF Opens
        <4> QED
          BY <2>1, <2>2
      <3>3. n = k + 1 => view[r][n].what \in LastWords
        BY <2>v, <3>1, <3>2
      <3>4. \A i \in 1 .. n : i = k + 1 \/ (i \in 1 .. k /\ i <= n)
        BY <2>1, <3>2
      <3> HIDE DEF k
      <3> QED
        BY <2>v, <2>2, <2>4, <2>6, <3>1, <3>2, <3>3, <3>4, SMTT(40) DEF WellFormedView, LastWords
    <2>7. CASE ~Silent(r) /\ ~Open(r) /\ StreamEnded(r)
      <3> DEFINE k == Len(Sent(r)) - 2
      <3>1. /\ Opens(r, Sent(r), k) /\ Sent(r)[k + 1].what \in LastWords
            /\ chan[r] = <<>>
        BY <2>2, <2>7 DEF StreamOf
      <3>2. k \in Nat /\ Lead(r) <= k /\ n = k + 2
        <4>1. Lead(r) <= k
          BY <3>1 DEF Opens
        <4>2. m = 0
          BY <2>n, <3>1
        <4> QED
          BY <2>1, <2>2, <4>1, <4>2
      <3>3. view[r][n].what = "End"
        BY <1>1, <2>7, <2>n DEF StreamEnded, Last, TypeOK
      <3>4. \A i \in 1 .. n : i = k + 2 \/ i = k + 1 \/ (i \in 1 .. k /\ i <= n)
        BY <2>1, <3>2
      <3>5. k + 1 \in 1 .. n /\ view[r][k + 1].what \in LastWords
        BY <2>v, <3>1, <3>2
      <3> HIDE DEF k
      <3> QED
        BY <2>v, <2>2, <2>4, <3>1, <3>2, <3>3, <3>4, <3>5, SMTT(40) DEF WellFormedView, LastWords
    <2> QED
      BY <2>3, <2>5, <2>6, <2>7
  <1>2. TypeOK /\ EndInv /\ StreamInv => StreamsWellFormed
    BY <1>1 DEF StreamsWellFormed
  <1> QED
    BY <1>2, Streamed, TypeCorrect, EndsLast, PTL

\* What the safety properties of the server rest on, in one formula, is an
\* invariant.
THEOREM InductiveInvariant == Spec => []IInv
  <1>1. Init => CacheInv /\ RewindFindsCache /\ KindInv /\ CleanInv
    BY DEF Init, EngineInit, CacheInv, RewindFindsCache, KindInv, CleanInv, InQuery
  <1>2. Spec => [](CacheInv /\ RewindFindsCache /\ KindInv /\ CleanInv)
    BY <1>1, CacheStep, KindStep, CleanStep, TypeCorrect, PermitAccounted, PTL DEF Spec
  <1>3. HolderInv /\ EndInv /\ CacheInv /\ RewindFindsCache /\ KindInv /\ CleanInv /\ HandOnInv
          /\ CapInv /\ StreamInv => IInv
    BY DEF IInv
  <1> QED
    BY <1>2, <1>3, PermitAccounted, EndsLast, HandOn, Capped, Streamed, PTL

-----------------------------------------------------------------------------
(* The refinement: the permit is the gate *)

\* What the gate sees of the requests.
GatePhases == [s \in Requests |-> PhaseOf(s)]

\* Only one request's stage and answer change: so does only its phase.
OnlyMoves(r) ==
  \A s \in Requests \ {r} : stage'[s] = stage[s] /\ answer'[s] = answer[s]

\* Then its new phase is all that the gate sees.
LEMMA PhaseMoves ==
  ASSUME NEW r \in Requests, OnlyMoves(r), NEW p, PhaseOf(r)' = p
  PROVE  GatePhases' = [GatePhases EXCEPT ![r] = p]
  <1>1. \A s \in Requests \ {r} : PhaseOf(s)' = PhaseOf(s)
    BY DEF OnlyMoves, PhaseOf, InQuery
  <1> QED
    BY <1>1 DEF GatePhases

\* A step that keeps the permit and every phase is a stutter of the gate.
LEMMA GateStutter ==
  ASSUME NEW r \in Requests, OnlyMoves(r), PhaseOf(r)' = PhaseOf(r), holder' = holder
  PROVE  UNCHANGED Gate!gateVars
  <1>1. GatePhases' = [GatePhases EXCEPT ![r] = PhaseOf(r)]
    BY PhaseMoves
  <1>2. GatePhases' = GatePhases
    BY <1>1 DEF GatePhases
  <1> QED
    BY <1>2 DEF Gate!gateVars, GatePhases

\* Every step of the server is a step of the gate or a stutter.  That nobody
\* was answered before the end tells the phases of a finished request apart.
LEMMA GateStep ==
  TypeOK /\ HolderInv /\ EndInv /\ [Next]_vars => [Gate!GateNext]_(Gate!gateVars)
  <1> SUFFICES ASSUME TypeOK, HolderInv, EndInv, [Next]_vars
               PROVE  [Gate!GateNext]_(Gate!gateVars)
    OBVIOUS
  <1>t. /\ stage \in [Requests -> Stages]
        /\ answer \in [Requests -> {"none", "busy", "bad_request", "ok", "failed"}]
    BY DEF TypeOK
  <1>u. \A r \in Requests : stage[r] # "over" => answer[r] = "none"
    BY <1>t DEF EndInv
  <1>h. \A r \in Requests : Occupies(r) => holder = r
    BY DEF HolderInv
  <1>p. \A r \in Requests : GatePhases[r] = PhaseOf(r)
    BY DEF GatePhases
  <1> USE <1>t, <1>u, <1>h, <1>p DEF To, Answer
  <1> DEFINE Sim == [Gate!GateNext]_(Gate!gateVars)
  <1>0. ASSUME NEW r \in Requests, OnlyMoves(r), PhaseOf(r)' = PhaseOf(r), holder' = holder
        PROVE  Sim
    BY <1>0, GateStutter
  <1>1. ASSUME NEW r \in Requests, Arrive(r) PROVE Sim
    <2>0. OnlyMoves(r) /\ stage[r] = "new" /\ PhaseOf(r) = "new"
      BY <1>1 DEF OnlyMoves, Arrive, RejectInvalid, AcquirePermit, RefuseBusy, PhaseOf, InQuery
    <2>1. CASE RejectInvalid(r)
      <3>1. PhaseOf(r)' = "invalid" /\ holder' = holder
        BY <2>1 DEF RejectInvalid, PhaseOf, InQuery
      <3>2. Gate!Reject(r)
        BY <2>0, <3>1, PhaseMoves DEF Gate!Reject, Gate!Enter, GatePhases
      <3> QED
        BY <3>2 DEF Gate!GateNext, Gate!Progress
    <2>2. CASE AcquirePermit(r)
      <3>1. PhaseOf(r)' = "admitted"
        BY <2>2 DEF AcquirePermit, PhaseOf, InQuery
      <3>2. Gate!Admit(r)
        BY <2>0, <2>2, <3>1, PhaseMoves DEF AcquirePermit, PermitFree, Gate!Admit, Gate!Enter, GatePhases
      <3> QED
        BY <3>2 DEF Gate!GateNext
    <2>3. CASE RefuseBusy(r)
      <3>1. PhaseOf(r)' = "refused" /\ holder' = holder
        BY <2>3 DEF RefuseBusy, PhaseOf, InQuery
      <3>2. Gate!Refuse(r)
        BY <2>0, <2>3, <3>1, PhaseMoves DEF RefuseBusy, PermitFree, Gate!Refuse, Gate!Enter, GatePhases
      <3> QED
        BY <3>2 DEF Gate!GateNext
    <2> QED
      BY <1>1, <2>1, <2>2, <2>3 DEF Arrive
  <1>2. ASSUME NEW r \in Requests, Handler(r) PROVE Sim
    <2>0. OnlyMoves(r)
      BY <1>2 DEF OnlyMoves, Handler, ResetThenDispatch, RejectHoldingPermit, DispatchChat, Reply
    <2>1. CASE ResetThenDispatch(r) \/ DispatchChat(r)
      <3> PhaseOf(r)' = PhaseOf(r) /\ holder' = holder
        BY <2>1 DEF ResetThenDispatch, DispatchChat, PhaseOf, InQuery
      <3> QED
        BY <1>0, <2>0
    <2>2. CASE RejectHoldingPermit(r)
      <3>1. PhaseOf(r) = "admitted" /\ PhaseOf(r)' = "invalid" /\ holder' = NoOne
        BY <2>2 DEF RejectHoldingPermit, PhaseOf, InQuery
      <3>2. Gate!Reject(r)
        BY <2>0, <3>1, PhaseMoves DEF Gate!Reject, Gate!Enter, GatePhases
      <3> QED
        BY <3>2 DEF Gate!GateNext, Gate!Progress
    <2>3. CASE Reply(r)
      <3> PhaseOf(r)' = PhaseOf(r) /\ holder' = holder
        BY <2>3 DEF Reply, PhaseOf, InQuery
      <3> QED
        BY <1>0, <2>0
    <2> QED
      BY <1>2, <2>1, <2>2, <2>3 DEF Handler
  <1>3. ASSUME NEW r \in Requests, Closure(r) PROVE Sim
    <2>0. OnlyMoves(r)
      BY <1>3 DEF OnlyMoves, Closure, BeginQuery, BeginUnsendable, CallbackSkip, CallbackAbort,
           CallbackForward, ResetAfterError, SendLast, ResetAfterAbort, Release, DropSender, Return
    <2>1. CASE BeginQuery(r)
      <3>1. /\ PhaseOf(r) = "admitted" /\ PhaseOf(r)' = "inferring"
            /\ holder = r /\ holder' = holder
        BY <2>1 DEF BeginQuery, PhaseOf, InQuery, Occupies
      <3>2. Gate!Infer(r)
        BY <2>0, <3>1, PhaseMoves DEF Gate!Infer, GatePhases
      <3> QED
        BY <3>2 DEF Gate!GateNext, Gate!Progress
    <2>2. CASE BeginUnsendable(r)
      <3>1. /\ PhaseOf(r) = "admitted" /\ PhaseOf(r)' = "settling"
            /\ holder = r /\ holder' = holder
        BY <2>2 DEF BeginUnsendable, Return, AfterCall, PhaseOf, InQuery, Occupies
      <3>2. Gate!Infer(r)
        BY <2>0, <3>1, PhaseMoves DEF Gate!Infer, GatePhases
      <3> QED
        BY <3>2 DEF Gate!GateNext, Gate!Progress
    <2>3. CASE CallbackSkip(r) \/ CallbackAbort(r) \/ CallbackForward(r)
      <3> PhaseOf(r)' = PhaseOf(r) /\ holder' = holder
        BY <2>3 DEF CallbackSkip, CallbackAbort, CallbackForward, PhaseOf, InQuery
      <3> QED
        BY <1>0, <2>0
    <2>4. CASE ResetAfterError(r) \/ SendLast(r) \/ ResetAfterAbort(r)
      <3> PhaseOf(r)' = PhaseOf(r) /\ holder' = holder
        BY <2>4 DEF ResetAfterError, SendLast, ResetAfterAbort, AfterOk, AfterLast, PhaseOf, InQuery
      <3> QED
        BY <1>0, <2>0
    <2>5. CASE Release(r)
      <3>1. /\ PhaseOf(r) = "settling" /\ PhaseOf(r)' = "done"
            /\ holder = r /\ holder' = NoOne
        BY <2>5 DEF Release, PhaseOf, InQuery, Occupies
      <3>2. Gate!Leave(r)
        BY <2>0, <3>1, PhaseMoves DEF Gate!Leave, Gate!Enter, GatePhases
      <3> QED
        BY <3>2 DEF Gate!GateNext, Gate!Progress
    <2>6. CASE DropSender(r)
      <3> PhaseOf(r)' = PhaseOf(r) /\ holder' = holder
        BY <2>6 DEF DropSender, PhaseOf, InQuery
      <3> QED
        BY <1>0, <2>0
    <2> QED
      BY <1>3, <2>1, <2>2, <2>3, <2>4, <2>5, <2>6 DEF Closure
  <1>4. ASSUME NEW r \in Requests, Genie(r) PROVE Sim
    <2>0. OnlyMoves(r)
      BY <1>4 DEF OnlyMoves, Genie, EmitToken, EndOfText, ReturnAborted, ReturnFailed, Return
    <2>1. CASE EmitToken(r)
      <3> PhaseOf(r)' = PhaseOf(r) /\ holder' = holder
        BY <2>1 DEF EmitToken, PhaseOf, InQuery
      <3> QED
        BY <1>0, <2>0
    <2>2. CASE EndOfText(r) \/ ReturnAborted(r) \/ ReturnFailed(r)
      <3>1. /\ PhaseOf(r) = "inferring" /\ PhaseOf(r)' = "settling"
            /\ holder = r /\ holder' = holder
        BY <2>2 DEF EndOfText, ReturnAborted, ReturnFailed, Return, AfterCall, AfterOk, PhaseOf,
                    InQuery, Occupies
      <3>2. Gate!Settle(r)
        BY <2>0, <3>1, PhaseMoves DEF Gate!Settle, Gate!Enter, GatePhases
      <3> QED
        BY <3>2 DEF Gate!GateNext, Gate!Progress
    <2> QED
      BY <1>4, <2>1, <2>2 DEF Genie
  <1>5. ASSUME NEW r \in Requests, Watchdog(r) \/ Client(r) PROVE Sim
    <2> UNCHANGED <<stage, answer, holder>>
      BY <1>5 DEF Watchdog, WatchdogFires, WatchdogRetires, Client, Disconnect,
                  ClientReads, ClientSeesEnd
    <2> OnlyMoves(r) /\ PhaseOf(r)' = PhaseOf(r)
      BY DEF OnlyMoves, PhaseOf, InQuery
    <2> QED
      BY <1>0
  <1>6. CASE UNCHANGED vars
    <2> UNCHANGED <<stage, answer, holder>>
      BY <1>6 DEF vars
    <2> QED
      BY DEF Gate!gateVars, PhaseOf, InQuery
  <1> QED
    BY <1>1, <1>2, <1>3, <1>4, <1>5, <1>6 DEF Next, Step, AllSettled

\* The server implements the gate: at most one request is admitted at a time,
\* a request is refused only while another one is admitted, and it is told so
\* at once, never after it was let in.
THEOREM RefinesGate == Spec => ImplementsGate
  <1>1. Init => Gate!GateInit
    BY DEF Init, Gate!GateInit, PhaseOf, InQuery
  <1> QED
    BY <1>1, GateStep, EndsLast, TypeCorrect, PermitAccounted, PTL
    DEF Spec, ImplementsGate, Gate!GateSafety

-----------------------------------------------------------------------------
(* Every step counts *)

\* The parts of StepsLeft beside the stages: the watchdog's, and the client's.
WatchLeft(r) ==
  CASE wd[r] = "armed" -> 2 [] wd[r] = "cancelled" -> 1 [] wd[r] = "none" -> 0

GoneLeft(r) == IF client[r] = "connected" THEN 1 ELSE 0
EndLeft(r) == IF StreamEnded(r) THEN 0 ELSE 1

\* What StepsLeft is made of, before and after a step.
LEMMA PartsOfSteps ==
  ASSUME NEW r \in Requests
  PROVE  /\ StepsLeft(r) =
              3 * StagesLeft(r) + Len(chan[r]) + WatchLeft(r) + GoneLeft(r) + EndLeft(r)
         /\ StepsLeft(r)' =
              3 * StagesLeft(r)' + Len(chan'[r]) + WatchLeft(r)' + GoneLeft(r)' + EndLeft(r)'
  BY DEF StepsLeft, WatchLeft, GoneLeft, EndLeft

LEMMA PartsTyped ==
  ASSUME TypeOK, NEW r \in Requests
  PROVE  /\ StagesLeft(r) \in Nat /\ Len(chan[r]) \in Nat
         /\ WatchLeft(r) \in Nat /\ GoneLeft(r) \in Nat /\ EndLeft(r) \in Nat
  <1>1. stage[r] \in Stages /\ gen[r] \in 0 .. CtxEnd /\ CtxEnd \in Nat
    BY ServerAssumption DEF TypeOK
  <1>2. CtxEnd - gen[r] \in Nat
    BY <1>1
  <1>3. StagesLeft(r) \in Nat
    BY <1>1, <1>2, SMTT(40) DEF StagesLeft, Stages
  <1>4. wd[r] \in Watchdogs /\ chan[r] \in Seq(StreamItems)
    BY DEF TypeOK
  <1>5. Len(chan[r]) \in Nat
    BY <1>4
  <1> QED
    BY <1>3, <1>4, <1>5 DEF WatchLeft, GoneLeft, EndLeft, Watchdogs

\* The types after a step, with what each part is then.
LEMMA PartsTypedAfter ==
  ASSUME TypeOK', NEW r \in Requests
  PROVE  /\ StagesLeft(r)' \in Nat /\ Len(chan'[r]) \in Nat
         /\ WatchLeft(r)' \in Nat /\ GoneLeft(r)' \in Nat /\ EndLeft(r)' \in Nat
  <1>1. stage'[r] \in Stages /\ gen'[r] \in 0 .. CtxEnd /\ CtxEnd \in Nat
    BY ServerAssumption DEF TypeOK
  <1>2. CtxEnd - gen'[r] \in Nat
    BY <1>1
  <1>3. StagesLeft(r)' \in Nat
    BY <1>1, <1>2, SMTT(40) DEF StagesLeft, Stages
  <1>4. wd'[r] \in Watchdogs /\ chan'[r] \in Seq(StreamItems)
    BY DEF TypeOK
  <1>5. Len(chan'[r]) \in Nat
    BY <1>4
  <1> QED
    BY <1>3, <1>4, <1>5 DEF WatchLeft, GoneLeft, EndLeft, Watchdogs

\* The sum: a stage counts three times as much as an item.
LEMMA SumOfParts ==
  ASSUME TypeOK, TypeOK', NEW r \in Requests,
         GoneLeft(r)' <= GoneLeft(r), EndLeft(r)' <= EndLeft(r),
         \/ /\ StagesLeft(r)' < StagesLeft(r)
            /\ Len(chan'[r]) <= Len(chan[r]) + 1 /\ WatchLeft(r)' <= WatchLeft(r)
         \/ /\ StagesLeft(r)' + 1 < StagesLeft(r)
            /\ Len(chan'[r]) <= Len(chan[r]) + 1 /\ WatchLeft(r)' <= WatchLeft(r) + 2
         \/ /\ StagesLeft(r)' = StagesLeft(r)
            /\ Len(chan'[r]) <= Len(chan[r]) /\ WatchLeft(r)' <= WatchLeft(r)
            /\ \/ Len(chan'[r]) < Len(chan[r]) \/ WatchLeft(r)' < WatchLeft(r)
               \/ GoneLeft(r)' < GoneLeft(r) \/ EndLeft(r)' < EndLeft(r)
  PROVE  StepsLeft(r)' < StepsLeft(r)
  <1> DEFINE a == StagesLeft(r)
             b == Len(chan[r])
             w == WatchLeft(r)
             g == GoneLeft(r)
             e == EndLeft(r)
             a2 == StagesLeft(r)'
             b2 == Len(chan'[r])
             w2 == WatchLeft(r)'
             g2 == GoneLeft(r)'
             e2 == EndLeft(r)'
  <1>1. /\ a \in Nat /\ b \in Nat /\ w \in Nat /\ g \in Nat /\ e \in Nat
        /\ a2 \in Nat /\ b2 \in Nat /\ w2 \in Nat /\ g2 \in Nat /\ e2 \in Nat
    BY PartsTyped, PartsTypedAfter
  <1>2. \/ a2 < a /\ b2 <= b + 1 /\ w2 <= w /\ g2 <= g /\ e2 <= e
        \/ a2 + 1 < a /\ b2 <= b + 1 /\ w2 <= w + 2 /\ g2 <= g /\ e2 <= e
        \/ /\ a2 = a /\ b2 <= b /\ w2 <= w /\ g2 <= g /\ e2 <= e
           /\ b2 < b \/ w2 < w \/ g2 < g \/ e2 < e
    OBVIOUS
  <1>3. StepsLeft(r) = 3 * a + b + w + g + e /\ StepsLeft(r)' = 3 * a2 + b2 + w2 + g2 + e2
    BY PartsOfSteps
  <1> HIDE DEF a, b, w, g, e, a2, b2, w2, g2, e2
  <1>4. 3 * a2 + b2 + w2 + g2 + e2 < 3 * a + b + w + g + e
    BY <1>1, <1>2
  <1> QED
    BY <1>3, <1>4

\* A stage further: it pays for the item that is sent on the way.
LEMMA StageLowers ==
  ASSUME TypeOK, TypeOK', NEW r \in Requests,
         StagesLeft(r)' < StagesLeft(r), Len(chan'[r]) <= Len(chan[r]) + 1,
         WatchLeft(r)' <= WatchLeft(r), client'[r] = client[r], view'[r] = view[r]
  PROVE  StepsLeft(r)' < StepsLeft(r)
  <1>1. GoneLeft(r)' <= GoneLeft(r) /\ EndLeft(r)' <= EndLeft(r)
    BY DEF GoneLeft, EndLeft, StreamEnded
  <1> QED
    BY <1>1, SumOfParts

\* The same, when nothing is sent and the watchdog left alone.
LEMMA StageAlone ==
  ASSUME TypeOK, TypeOK', NEW r \in Requests,
         StagesLeft(r)' < StagesLeft(r), UNCHANGED <<chan, wd, client, view>>
  PROVE  StepsLeft(r)' < StepsLeft(r)
  <1>1. WatchLeft(r)' = WatchLeft(r) /\ Len(chan'[r]) = Len(chan[r])
    BY DEF WatchLeft
  <1>2. WatchLeft(r)' <= WatchLeft(r) /\ Len(chan'[r]) <= Len(chan[r]) + 1
    BY <1>1, PartsTyped
  <1> QED
    BY <1>2, StageLowers

\* The tokens that still fit into the context.
LEMMA TokensLeft ==
  ASSUME TypeOK, NEW r \in Requests
  PROVE  gen[r] \in Nat /\ CtxEnd \in Nat /\ CtxEnd - gen[r] \in Nat
  BY ServerAssumption DEF TypeOK

\* What counts for StepsLeft does not change for s.
Quiet(s) ==
  /\ stage'[s] = stage[s] /\ gen'[s] = gen[s] /\ chan'[s] = chan[s]
  /\ wd'[s] = wd[s] /\ client'[s] = client[s] /\ view'[s] = view[s]

LEMMA QuietStays ==
  ASSUME NEW s \in Requests, Quiet(s)
  PROVE  StepsLeft(s)' = StepsLeft(s)
  BY DEF Quiet, StepsLeft, StagesLeft, StreamEnded

\* A step of r is no other request's.
LEMMA OthersQuiet ==
  ASSUME TypeOK, NEW r \in Requests, Step(r), NEW s \in Requests \ {r}
  PROVE  Quiet(s)
  <1> USE DEF TypeOK, Quiet, To, requestVars, localVars
  <1>1. CASE Arrive(r) \/ Handler(r)
    BY <1>1 DEF Arrive, RejectInvalid, AcquirePermit, RefuseBusy, Handler, ResetThenDispatch,
                RejectHoldingPermit, DispatchChat, Reply, Forget, Send
  <1>2. CASE Closure(r)
    BY <1>2 DEF Closure, BeginQuery, BeginUnsendable, CallbackSkip, CallbackAbort,
                CallbackForward, ResetAfterError, SendLast, ResetAfterAbort, Release,
                DropSender, Return, Forget, Send
  <1>3. CASE Genie(r)
    BY <1>3 DEF Genie, EmitToken, EndOfText, ReturnAborted, ReturnFailed, Return
  <1>4. CASE Watchdog(r) \/ Client(r)
    BY <1>4 DEF Watchdog, WatchdogFires, WatchdogRetires, Client, Disconnect, ClientReads,
                ClientSeesEnd
  <1> QED
    BY <1>1, <1>2, <1>3, <1>4 DEF Step

\* The steps of a handler: the first ones, and a blocking handler's last one.
LEMMA HandlerCounts ==
  ASSUME TypeOK, TypeOK', NEW r \in Requests, Arrive(r) \/ Handler(r)
  PROVE  StepsLeft(r)' < StepsLeft(r)
  <1> USE TokensLeft DEF To
  <1>t. /\ stage \in [Requests -> Stages] /\ chan \in [Requests -> Seq(StreamItems)]
        /\ wd \in [Requests -> Watchdogs]
    BY DEF TypeOK
  <1>c. Len(chan[r]) \in Nat
    BY PartsTyped
  <1>1. CASE Arrive(r)
    <2>1. stage[r] = "new" /\ stage'[r] \in {"over", "resetting", "checking", "queued"}
      BY <1>t, <1>1 DEF Arrive, RejectInvalid, AcquirePermit, RefuseBusy
    <2>2. StagesLeft(r)' < StagesLeft(r)
      BY <2>1 DEF StagesLeft
    <2>3. UNCHANGED <<chan, wd, client, view>>
      BY <1>1 DEF Arrive, RejectInvalid, AcquirePermit, RefuseBusy
    <2> QED
      BY <2>2, <2>3, StageAlone
  <1>2. CASE ResetThenDispatch(r)
    <2>1. stage[r] = "resetting" /\ stage'[r] = "queued"
      BY <1>t, <1>2 DEF ResetThenDispatch
    <2>2. StagesLeft(r)' + 1 < StagesLeft(r)
      BY <2>1 DEF StagesLeft
    <2>3. WatchLeft(r)' = 2
      BY <1>t, <1>2 DEF ResetThenDispatch, WatchLeft
    <2>4. Len(chan'[r]) <= Len(chan[r]) + 1
      BY <1>t, <1>c, <1>2 DEF ResetThenDispatch, Send
    <2>5. GoneLeft(r)' = GoneLeft(r) /\ EndLeft(r)' = EndLeft(r)
      BY <1>2 DEF ResetThenDispatch, GoneLeft, EndLeft, StreamEnded
    <2> QED
      BY <2>2, <2>3, <2>4, <2>5, PartsTyped, SumOfParts
  <1>3. CASE RejectHoldingPermit(r) \/ DispatchChat(r)
    <2>1. stage[r] = "checking" /\ stage'[r] \in {"over", "queued"}
      BY <1>t, <1>3 DEF RejectHoldingPermit, DispatchChat
    <2>2. StagesLeft(r)' < StagesLeft(r)
      BY <2>1 DEF StagesLeft
    <2>3. UNCHANGED <<chan, wd, client, view>>
      BY <1>3 DEF RejectHoldingPermit, DispatchChat
    <2> QED
      BY <2>2, <2>3, StageAlone
  <1>4. CASE Reply(r)
    <2>1. stage[r] = "unwinding" /\ stage'[r] = "over"
      BY <1>t, <1>4 DEF Reply
    <2>2. StagesLeft(r)' < StagesLeft(r)
      BY <2>1 DEF StagesLeft
    <2>3. UNCHANGED <<chan, client, view>>
      BY <1>4 DEF Reply
    <2>4. wd'[r] = wd[r] \/ (wd[r] = "armed" /\ wd'[r] = "cancelled")
      BY <1>t, <1>4 DEF Reply
    <2>5. WatchLeft(r)' <= WatchLeft(r)
      BY <1>t, <2>4 DEF WatchLeft, Watchdogs
    <2> QED
      BY <1>t, <1>c, <2>2, <2>3, <2>5, PartsTyped, StageLowers
  <1> QED
    BY <1>1, <1>2, <1>3, <1>4 DEF Handler

\* The steps of a closure outside GenieDialog_query's own: it sends at most one
\* item on its way from one stage to the next.
LEMMA ClosureCounts ==
  ASSUME TypeOK, TypeOK', NEW r \in Requests, Closure(r)
  PROVE  StepsLeft(r)' < StepsLeft(r)
  <1> USE DEF To
  <1>t. /\ stage \in [Requests -> Stages] /\ chan \in [Requests -> Seq(StreamItems)]
        /\ wd \in [Requests -> Watchdogs]
    BY DEF TypeOK
  <1>c. Len(chan[r]) \in Nat
    BY PartsTyped
  <1>n. gen[r] \in Nat /\ CtxEnd \in Nat /\ CtxEnd - gen[r] \in Nat
    BY TokensLeft
  <1>1. client'[r] = client[r] /\ view'[r] = view[r]
    BY DEF Closure, BeginQuery, BeginUnsendable, CallbackSkip, CallbackAbort, CallbackForward,
           ResetAfterError, SendLast, ResetAfterAbort, Release, DropSender
  <1>2. Len(chan'[r]) <= Len(chan[r]) + 1
    <2>1. CASE CallbackForward(r) \/ SendLast(r)
      BY <1>t, <2>1 DEF CallbackForward, SendLast, Send
    <2>2. CASE ~(CallbackForward(r) \/ SendLast(r))
      <3>1. chan' = chan
        BY <2>2 DEF Closure, BeginQuery, BeginUnsendable, CallbackSkip, CallbackAbort,
                    ResetAfterError, ResetAfterAbort, Release, DropSender
      <3> QED
        BY <1>t, <1>c, <3>1
    <2> QED
      BY <2>1, <2>2
  <1>3. WatchLeft(r)' <= WatchLeft(r)
    <2>1. wd'[r] = wd[r] \/ (wd[r] = "armed" /\ wd'[r] = "cancelled")
      BY <1>t DEF Closure, BeginQuery, BeginUnsendable, CallbackSkip, CallbackAbort,
                  CallbackForward, ResetAfterError, SendLast, ResetAfterAbort, Release, DropSender
    <2> QED
      BY <1>t, <1>c, <2>1 DEF WatchLeft, Watchdogs
  <1>4. StagesLeft(r)' < StagesLeft(r)
    <2>1. CASE BeginQuery(r)
      <3>1. stage[r] = "queued" /\ stage'[r] = "genie" /\ gen'[r] = gen[r]
        BY <1>t, <2>1 DEF BeginQuery
      <3>2. StagesLeft(r) = 8 + 2 * CtxEnd /\ StagesLeft(r)' = 6 + 2 * (CtxEnd - gen[r])
        BY <3>1 DEF StagesLeft
      <3> QED
        BY <1>n, <3>2
    <2>2. CASE BeginUnsendable(r)
      <3>1. stage[r] = "queued" /\ stage'[r] = "err_reset"
        BY <1>t, <2>2 DEF BeginUnsendable, Return, AfterCall
      <3> QED
        BY <1>n, <3>1 DEF StagesLeft
    <2>3. CASE CallbackSkip(r) \/ CallbackAbort(r) \/ CallbackForward(r)
      <3>1. stage[r] = "callback" /\ stage'[r] = "genie" /\ gen'[r] = gen[r]
        BY <1>t, <2>3 DEF CallbackSkip, CallbackAbort, CallbackForward, localVars
      <3>2. /\ StagesLeft(r) = 7 + 2 * (CtxEnd - gen[r])
            /\ StagesLeft(r)' = 6 + 2 * (CtxEnd - gen[r])
        BY <3>1 DEF StagesLeft
      <3> QED
        BY <1>n, <3>2
    <2>4. CASE ResetAfterError(r)
      <3>1. stage[r] = "err_reset" /\ stage'[r] \in {"sending_last", "leaving"}
        BY <1>t, <2>4 DEF ResetAfterError, AfterOk
      <3> QED
        BY <3>1 DEF StagesLeft
    <2>5. CASE SendLast(r)
      <3>1. stage[r] = "sending_last" /\ stage'[r] \in {"abort_reset", "leaving"}
        BY <1>t, <2>5 DEF SendLast, AfterLast
      <3> QED
        BY <3>1 DEF StagesLeft
    <2>6. CASE ResetAfterAbort(r) \/ Release(r) \/ DropSender(r)
      <3>1. \/ stage[r] = "abort_reset" /\ stage'[r] = "leaving"
            \/ stage[r] = "leaving" /\ stage'[r] = "unwinding"
            \/ stage[r] = "unwinding" /\ stage'[r] = "over"
        BY <1>t, <2>6 DEF ResetAfterAbort, Release, DropSender
      <3> QED
        BY <3>1 DEF StagesLeft
    <2> QED
      BY <2>1, <2>2, <2>3, <2>4, <2>5, <2>6 DEF Closure
  <1> QED
    BY <1>1, <1>2, <1>3, <1>4, StageLowers

\* Genie's steps: the context bounds the tokens, and a query that is over does
\* not come back.
LEMMA GenieCounts ==
  ASSUME TypeOK, TypeOK', NEW r \in Requests, Genie(r)
  PROVE  StepsLeft(r)' < StepsLeft(r)
  <1> USE DEF To
  <1>t. stage \in [Requests -> Stages] /\ gen \in [Requests -> 0 .. CtxEnd]
    BY DEF TypeOK
  <1>n. gen[r] \in Nat /\ CtxEnd \in Nat /\ CtxEnd - gen[r] \in Nat
    BY TokensLeft
  <1>1. UNCHANGED <<chan, wd, client, view>> /\ stage[r] = "genie"
    BY DEF Genie, EmitToken, EndOfText, ReturnAborted, ReturnFailed
  <1>2. StagesLeft(r) = 6 + 2 * (CtxEnd - gen[r])
    BY <1>1 DEF StagesLeft
  <1>3. StagesLeft(r)' < StagesLeft(r)
    <2>1. CASE EmitToken(r)
      <3>1. stage'[r] \in {"callback", "genie"} /\ gen'[r] = gen[r] + 1
        BY <1>t, <2>1 DEF EmitToken
      <3>2. StagesLeft(r)' \in {6 + 2 * (CtxEnd - gen'[r]), 7 + 2 * (CtxEnd - gen'[r])}
        BY <3>1 DEF StagesLeft
      <3> QED
        BY <1>n, <1>2, <3>1, <3>2
    <2>2. CASE EndOfText(r) \/ ReturnAborted(r) \/ ReturnFailed(r)
      <3>1. stage'[r] \in {"err_reset", "sending_last", "leaving"}
        BY <1>t, <2>2 DEF EndOfText, ReturnAborted, ReturnFailed, Return, AfterCall, AfterOk
      <3>2. StagesLeft(r)' \in {5, 4, 2}
        BY <3>1 DEF StagesLeft
      <3> QED
        BY <1>n, <1>2, <3>2
    <2> QED
      BY <2>1, <2>2 DEF Genie
  <1> QED
    BY <1>1, <1>3, StageAlone

\* The steps that leave the closure where it is: a watchdog fires or retires
\* once, a client reads what is there, sees one end, and goes away once - before
\* it has seen the end.
LEMMA BystandersCount ==
  ASSUME TypeOK, TypeOK', EndInv, StreamInv, NEW r \in Requests, Watchdog(r) \/ Client(r)
  PROVE  StepsLeft(r)' < StepsLeft(r)
  <1>t. /\ chan \in [Requests -> Seq(StreamItems)] /\ view \in [Requests -> Seq(Items)]
        /\ wd \in [Requests -> Watchdogs] /\ client \in [Requests -> {"connected", "gone"}]
    BY DEF TypeOK
  <1>c. Len(chan[r]) \in Nat
    BY PartsTyped
  <1>1. StagesLeft(r)' = StagesLeft(r)
    <2>1. stage' = stage /\ gen' = gen
      BY DEF Watchdog, WatchdogFires, WatchdogRetires, Client, Disconnect, ClientReads,
             ClientSeesEnd, localVars
    <2> QED
      BY <2>1 DEF StagesLeft
  <1>2. CASE Watchdog(r)
    <2>1. wd[r] \in {"armed", "cancelled"} /\ wd'[r] = "none"
      BY <1>t, <1>2 DEF Watchdog, WatchdogFires, WatchdogRetires
    <2>2. UNCHANGED <<chan, client, view>>
      BY <1>2 DEF Watchdog, WatchdogFires, WatchdogRetires
    <2>3. WatchLeft(r)' < WatchLeft(r)
      BY <2>1 DEF WatchLeft
    <2>4. WatchLeft(r)' <= WatchLeft(r)
      BY <2>1 DEF WatchLeft
    <2>5. GoneLeft(r)' <= GoneLeft(r) /\ EndLeft(r)' <= EndLeft(r)
      BY <2>2 DEF GoneLeft, EndLeft, StreamEnded
    <2> QED
      BY <1>t, <1>c, <1>1, <2>2, <2>3, <2>4, <2>5, SumOfParts
  <1>3. CASE Disconnect(r)
    <2>1. ~StreamEnded(r)
      BY <1>3 DEF Disconnect, Working, EndInv
    <2>2. client[r] = "connected" /\ client'[r] = "gone" /\ chan'[r] = <<>>
      BY <1>t, <1>3 DEF Disconnect
    <2>3. GoneLeft(r)' < GoneLeft(r) /\ GoneLeft(r)' <= GoneLeft(r) /\ EndLeft(r)' <= EndLeft(r)
      BY <2>1, <2>2 DEF GoneLeft, EndLeft
    <2>4. Len(chan'[r]) <= Len(chan[r])
      BY <1>t, <1>c, <2>2
    <2>5. wd'[r] = wd[r] \/ (wd[r] = "armed" /\ wd'[r] = "cancelled")
      BY <1>t, <1>3 DEF Disconnect
    <2>6. WatchLeft(r)' <= WatchLeft(r)
      BY <1>t, <2>5 DEF WatchLeft, Watchdogs
    <2> QED
      BY <1>1, <2>3, <2>4, <2>6, SumOfParts
  <1>4. CASE ClientReads(r)
    <2>1. Len(chan'[r]) = Len(chan[r]) - 1
      BY <1>t, <1>c, <1>4 DEF ClientReads
    <2>2. ~StreamEnded(r)
      <3> SUFFICES ASSUME StreamEnded(r) PROVE FALSE
        OBVIOUS
      <3>1. view[r] # <<>> /\ stage[r] = "over" /\ chan[r] # <<>>
        BY <1>4 DEF StreamEnded, EndInv, ClientReads
      <3>2. StreamOf(r)
        BY DEF StreamInv
      <3>3. ~Silent(r)
        BY <3>1, <3>2 DEF StreamOf
      <3>4. ~Open(r)
        BY <3>1 DEF Open
      <3>5. chan[r] = <<>>
        BY <3>2, <3>3, <3>4 DEF StreamOf
      <3> QED
        BY <3>1, <3>5
    <2>3. EndLeft(r)' <= EndLeft(r)
      BY <2>2 DEF EndLeft
    <2>4. wd' = wd /\ client' = client
      BY <1>4 DEF ClientReads
    <2>5. WatchLeft(r)' = WatchLeft(r) /\ GoneLeft(r)' = GoneLeft(r)
      BY <2>4 DEF WatchLeft, GoneLeft
    <2>6. WatchLeft(r) \in Nat /\ GoneLeft(r) \in Nat
      BY PartsTyped
    <2> QED
      <3>1. Len(chan'[r]) <= Len(chan[r]) /\ Len(chan'[r]) < Len(chan[r])
        BY <1>c, <2>1
      <3>2. WatchLeft(r)' <= WatchLeft(r) /\ GoneLeft(r)' <= GoneLeft(r)
        BY <2>5, <2>6
      <3> QED
        BY <1>1, <2>3, <3>1, <3>2, SumOfParts
  <1>5. CASE ClientSeesEnd(r)
    <2>1. ~StreamEnded(r) /\ view'[r] = Append(view[r], Item("End", 0))
      BY <1>t, <1>5 DEF ClientSeesEnd
    <2>2. view'[r] # <<>> /\ Last(view'[r]) = Item("End", 0)
      <3>1. view[r] \in Seq(Items) /\ Item("End", 0) \in Items
        BY <1>t DEF Items, Item
      <3>2. /\ Len(view'[r]) = Len(view[r]) + 1 /\ Len(view[r]) \in Nat
            /\ view'[r][Len(view[r]) + 1] = Item("End", 0)
        BY <2>1, <3>1
      <3> QED
        BY <3>2 DEF Last
    <2>3. StreamEnded(r)'
      BY <2>2 DEF StreamEnded, Item
    <2>4. EndLeft(r)' < EndLeft(r) /\ EndLeft(r)' <= EndLeft(r)
      BY <2>1, <2>3 DEF EndLeft
    <2>5. chan' = chan /\ wd' = wd /\ client' = client
      BY <1>5 DEF ClientSeesEnd
    <2>6. WatchLeft(r)' = WatchLeft(r) /\ GoneLeft(r)' = GoneLeft(r)
      BY <2>5 DEF WatchLeft, GoneLeft
    <2>7. WatchLeft(r) \in Nat /\ GoneLeft(r) \in Nat
      BY PartsTyped
    <2> QED
      <3>1. Len(chan'[r]) <= Len(chan[r])
        BY <1>c, <2>5
      <3>2. WatchLeft(r)' <= WatchLeft(r) /\ GoneLeft(r)' <= GoneLeft(r)
        BY <2>6, <2>7
      <3> QED
        BY <1>1, <2>4, <3>1, <3>2, SumOfParts
  <1> QED
    BY <1>2, <1>3, <1>4, <1>5 DEF Client

\* For any number of requests, of any kind, with any channel and any context:
\* every step of the server, of Genie and of the clients brings one request
\* nearer to its end, and no other one is thrown back.  What is left of the
\* liveness properties is that an enabled step is taken in the end.
THEOREM EveryStepBringsNearer == Spec => EveryStepCounts
  <1>1. ASSUME TypeOK, TypeOK', EndInv, StreamInv, [Next]_vars
        PROVE  [\E r \in Requests :
                  /\ StepsLeft(r)' < StepsLeft(r)
                  /\ \A s \in Requests \ {r} : StepsLeft(s)' = StepsLeft(s)]_vars
    <2>1. CASE \E r \in Requests : Step(r)
      <3>1. PICK r \in Requests : Step(r)
        BY <2>1
      <3>2. StepsLeft(r)' < StepsLeft(r)
        BY <1>1, <3>1, HandlerCounts, ClosureCounts, GenieCounts, BystandersCount DEF Step
      <3>3. \A s \in Requests \ {r} : StepsLeft(s)' = StepsLeft(s)
        BY <1>1, <3>1, OthersQuiet, QuietStays
      <3> QED
        BY <3>2, <3>3
    <2>2. CASE UNCHANGED vars
      BY <2>2
    <2> QED
      BY <1>1, <2>1, <2>2 DEF Next, AllSettled
  <1>2. Spec => [](TypeOK /\ EndInv /\ StreamInv)
    BY TypeCorrect, EndsLast, Streamed, PTL
  <1> QED
    BY <1>1, <1>2, PTL DEF Spec, EveryStepCounts

=============================================================================
