-------------------------- MODULE AvbVerifyProofs --------------------------
(***************************************************************************)
(* What holds of a verification for every limit on images, partitions,     *)
(* locations, descriptors and faults: the asserts of libavb, that a good   *)
(* result or a good colour is only given for verified images, and who owns *)
(* the buffers.                                                            *)
(***************************************************************************)
EXTENDS AvbVerify, SequenceTheorems, TLAPS

Main == frame["main"]
Chain == frame["chain"]
Images == slot_data.vbmeta_images
Parts == slot_data.loaded_partitions
Ended == pc \in {"returned", "tos", "done"}

\* The two calls and how far the top-level one has come.
CallShape ==
  /\ Main.loc = 0 /\ Main.key = FALSE /\ Main.name \in {"vbmeta", "boot"}
  /\ Chain.loc # 0 /\ Chain.key = TRUE /\ Chain.flags = "none"
  /\ cur = "chain" => Main.adopted /\ Main.flags # "verification_disabled"
  /\ pc = "load" => cur = "main" /\ Main.flags = "verification_disabled"
  /\ pc \in {"start", "slot_verify"} \/ Ended => cur = "main"
  /\ pc \in {"load", "descriptors"} => Main.adopted
  /\ pc = "descriptors" => Main.flags # "verification_disabled"
  /\ pc \in {"start", "footer", "read", "verify", "rollback", "adopt"} /\ cur = "main" => ~Main.adopted

\* The top-level image is adopted exactly when there are images.
DataShape ==
  /\ Main.adopted => /\ Images # <<>>
                     /\ Images[1].name \in {Main.name, "null"} /\ Images[1].flags = Main.flags
  /\ ~Main.adopted => Images = <<>> /\ Parts = <<>>
  /\ ~Ended /\ (~Main.adopted \/ Main.flags = "verification_disabled")
       => slot_data.cmdline = "null"
  /\ pc \in {"out", "slot_verify"} /\ cur = "main" /\ ~Main.adopted => Stops(Main.ret)

AllSound == \A i \in DOMAIN Images : Sound(Images[i])
AllMatch == \A i \in DOMAIN Parts : Parts[i].data = "matches"

\* Results are honest: as long as no active call holds an error, all that has
\* been adopted or loaded is verified.
ResultShape ==
  /\ pc \in {"start", "footer", "read", "verify"} => call.ret = "OK"
  /\ pc \in {"rollback", "adopt"} /\ call.ret = "OK" => call.sig = "OK" /\ call.trusted
  /\ pc = "adopt" /\ call.ret = "OK" => call.index >= StoredIndex
  /\ ~Ended /\ Main.ret = "OK" /\ (cur = "chain" => Chain.ret = "OK") =>
       AllSound /\ (Main.flags = "verification_disabled" \/ AllMatch)

\* What a colour better than orange rests on.
ColourShape ==
  /\ Ended /\ verify_result = "OK" => /\ out_data /\ Images # <<>> /\ AllSound
                                      /\ Disabled \/ AllMatch
  /\ pc \in {"tos", "done"} /\ status = "SUCCESS" /\ boot_state < Orange =>
       /\ ~allow /\ verify_result = "OK"
       /\ \E i \in DOMAIN Parts : bootimage = Parts[i]

IInv == /\ TypeOK /\ pc # "assert" /\ CallShape /\ DataShape /\ ResultShape /\ ColourShape

USE DEF Green, Yellow, Orange, Red, Calls, Main, Chain, Images, Parts, Ended

------------------------------------------------------------------------------
\* Updates of the calls and of the data.

LEMMA CallTyped ==
  ASSUME NEW name \in Names, NEW loc \in Nat, NEW key \in BOOLEAN
  PROVE  /\ Call(name, loc, key) \in CallType
         /\ Call(name, loc, key).name = name /\ Call(name, loc, key).loc = loc
         /\ Call(name, loc, key).key = key /\ Call(name, loc, key).ret = "OK"
         /\ Call(name, loc, key).adopted = FALSE
         /\ Call(name, loc, key).flags = "none"
  BY DEF Call, CallType, Results, Bearable, Signatures, Flags, Indexes

\* A call whose result is set keeps everything else.
LEMMA ResultSet ==
  ASSUME NEW g \in CallType, NEW r \in Results
  PROVE  LET h == [g EXCEPT !.ret = r]
         IN /\ h \in CallType /\ h.ret = r
            /\ h.name = g.name /\ h.loc = g.loc /\ h.key = g.key /\ h.adopted = g.adopted
            /\ h.flags = g.flags /\ h.sig = g.sig /\ h.trusted = g.trusted /\ h.index = g.index
  BY Zenon DEF CallType

\* An update of the active call leaves the other one alone.
LEMMA FrameUpdate ==
  ASSUME cur \in Calls, frame \in [Calls -> CallType], NEW g \in CallType,
         frame' = [frame EXCEPT ![cur] = g]
  PROVE  /\ frame' \in [Calls -> CallType]
         /\ frame'[cur] = g
         /\ cur = "main" => Main' = g /\ Chain' = Chain
         /\ cur = "chain" => Chain' = g /\ Main' = Main
  BY Zenon

\* Appending keeps what is there and puts the new element last.
LEMMA Appended ==
  ASSUME NEW S, NEW s \in Seq(S), NEW e \in S
  PROVE  /\ Append(s, e) \in Seq(S) /\ Append(s, e) # <<>>
         /\ \A i \in DOMAIN Append(s, e) : \/ i \in DOMAIN s /\ Append(s, e)[i] = s[i]
                                          \/ Append(s, e)[i] = e
         /\ s # <<>> => Append(s, e)[1] = s[1]
         /\ s = <<>> => Append(s, e)[1] = e
<1>1. Append(s, e) \in Seq(S) /\ Append(s, e) # <<>> /\ Len(Append(s, e)) = Len(s) + 1
  BY AppendProperties, ZenonT(60)
<1>2. \A i \in 1 .. Len(s) : Append(s, e)[i] = s[i]
  BY AppendProperties
<1>3. Append(s, e)[Len(s) + 1] = e
  BY AppendProperties, Zenon
<1>4. DOMAIN s = 1 .. Len(s) /\ DOMAIN Append(s, e) = 1 .. Len(s) + 1 /\ Len(s) \in Nat
  BY <1>1, LenProperties, Zenon
<1>5. s # <<>> => 1 \in 1 .. Len(s)
  BY <1>4, EmptySeq
<1>6. s = <<>> => Len(s) = 0
  OBVIOUS
<1> QED
  BY <1>1, <1>2, <1>3, <1>4, <1>5, <1>6

------------------------------------------------------------------------------

LEMMA InitInv == Init => IInv
<1> SUFFICES ASSUME Init PROVE IInv
  BY Zenon
<1>1. Call("vbmeta", 0, FALSE) \in CallType /\ Call("chained", 1, TRUE) \in CallType
  BY CallTyped, Zenon DEF Names
<1>2. frame \in [Calls -> CallType]
  BY <1>1, Zenon DEF Init, Frames
<1>3. slot_data \in DataType
  BY BoundAssumption DEF Init, EmptyData, DataType, Indexes
<1>4. TypeOK
  <2>1. pc \in PCs /\ boot_state \in Green .. Red
    BY DEF Init, PCs
  <2>2. verify_result \in Results
    BY Zenon DEF Init, Results, Bearable
  <2>3. heap \subseteq Nat /\ fresh \in Nat /\ descriptors \in Nat /\ faults \in Nat
    BY Zenon DEF Init
  <2> QED
    BY <1>2, <1>3, <2>1, <2>2, <2>3, Zenon DEF Init, TypeOK
<1>5. CallShape
  BY DEF Init, CallShape, Frames, Call
<1>6. DataShape
  BY Zenon DEF Init, DataShape, Frames, Call, EmptyData
<1>7. ResultShape
  BY DEF Init, ResultShape, Frames, Call, EmptyData, call, AllSound, AllMatch
<1>8. ColourShape
  BY Zenon DEF Init, ColourShape
<1> QED
  BY <1>4, <1>5, <1>6, <1>7, <1>8, Zenon DEF IInv, Init

LEMMA StartStep == IInv /\ StartVerify => IInv'
<1> SUFFICES ASSUME IInv, StartVerify PROVE IInv'
  BY Zenon
<1>1. /\ UNCHANGED <<caller, allow, boot_state, cur, frame, slot_data, fresh, bootimage, status,
                     descriptors>>
      /\ pc = "start" /\ pc' \in {"read", "returned"}
      /\ pc' = "returned" => verify_result' = "OOM"
  BY Zenon DEF StartVerify, Return
<1>2. /\ verify_result' \in Results /\ out_data' \in BOOLEAN /\ heap' \subseteq Nat
      /\ faults' \in Nat
  <2>1. "OOM" \in Results
    BY Zenon DEF Results, Fatal
  <2>2. faults' \in Nat
    BY DEF StartVerify, Outcome, IInv, TypeOK
  <2>3. out_data' \in BOOLEAN /\ verify_result' \in Results
    BY <2>1, Zenon DEF StartVerify, Return, IInv, TypeOK
  <2>4. heap' \subseteq heap
    BY Zenon DEF StartVerify, Return
  <2> QED
    BY <2>2, <2>3, <2>4, Zenon DEF IInv, TypeOK
<1>3. AllMatch' = AllMatch /\ AllSound' = AllSound
  BY <1>1, Zenon DEF AllMatch, AllSound, Sound, StoredIndex
<1>4. TypeOK'
  BY <1>1, <1>2, Zenon DEF IInv, TypeOK, PCs
<1>5. CallShape'
  BY <1>1, Zenon DEF IInv, CallShape
<1>6. DataShape'
  BY <1>1, Zenon DEF IInv, DataShape, CallShape
<1>7. ResultShape'
  BY <1>1, <1>3, Zenon DEF IInv, ResultShape, call
<1>8. ColourShape'
  BY <1>1, Zenon DEF ColourShape
<1> QED
  BY <1>1, <1>4, <1>5, <1>6, <1>7, <1>8, Zenon DEF IInv

LEMMA FooterStep == IInv /\ ReadFooter => IInv'
<1> SUFFICES ASSUME IInv, ReadFooter PROVE IInv'
  BY Zenon
<1> USE DEF IInv
<1>1. PICK r \in Outcomes \union {"INVALID_METADATA"} :
        IF r = "OK" THEN Proceed(call, "read") ELSE Leave(call, r)
  BY Zenon DEF ReadFooter, Outcomes
<1>2. call \in CallType /\ r \in Results /\ faults' \in Nat
  BY DEF ReadFooter, TypeOK, call, Outcomes, Outcome, Results, Fatal, Bearable
<1>3. PICK g \in CallType :
        /\ frame' = [frame EXCEPT ![cur] = g]
        /\ g.name = call.name /\ g.loc = call.loc /\ g.key = call.key /\ g.adopted = call.adopted
        /\ g.flags = call.flags
        /\ \/ pc' = "read" /\ g.ret = call.ret
           \/ pc' = "out" /\ g.ret = r /\ r \in {"OOM", "IO", "INVALID_METADATA"}
  BY <1>1, <1>2, ResultSet, ZenonT(60) DEF Proceed, Leave, Outcomes
<1>4. /\ frame' \in [Calls -> CallType]
      /\ cur = "main" => Main' = g /\ Chain' = Chain
      /\ cur = "chain" => Chain' = g /\ Main' = Main
  BY <1>3, FrameUpdate, Zenon DEF TypeOK
<1>5. TypeOK'
  BY <1>2, <1>3, <1>4, Zenon DEF ReadFooter, TypeOK, reading, PCs
<1>6. CallShape'
  BY <1>3, <1>4, ZenonT(60) DEF TypeOK, ReadFooter, CallShape, call
<1>7. DataShape'
  BY <1>3, <1>4, Zenon DEF TypeOK, ReadFooter, DataShape, CallShape, call, reading, Stops,
     result_should_continue, Bearable
<1>8. ResultShape'
  BY <1>3, <1>4 DEF TypeOK, ReadFooter, ResultShape, call, AllSound, AllMatch, Sound, StoredIndex
<1>9. ColourShape'
  BY <1>3, Zenon DEF ReadFooter, ColourShape
<1> QED
  BY <1>3, <1>5, <1>6, <1>7, <1>8, <1>9, Zenon

LEMMA ReadStep == IInv /\ ReadVbmeta => IInv'
<1> SUFFICES ASSUME IInv, ReadVbmeta PROVE IInv'
  BY Zenon
<1> USE DEF IInv
<1>1. call \in CallType /\ call.ret = "OK" /\ fresh \in Nat
  BY Zenon DEF TypeOK, call, ResultShape, ReadVbmeta
<1>2. PICK g \in CallType :
        /\ frame' = [frame EXCEPT ![cur] = g]
        /\ g.loc = call.loc /\ g.key = call.key /\ g.adopted = call.adopted
        /\ \/ pc' = "verify" /\ g.ret = "OK" /\ g.name = call.name /\ g.flags = call.flags
           \/ pc' = "out" /\ g.ret \in {"OOM", "IO"} /\ g.name = call.name /\ g.flags = call.flags
           \/ pc' = "footer" /\ g.ret = "OK" /\ cur = "main" /\ g.name = "boot"
  <2>1. CASE Outcome("OOM") /\ Leave(call, "OOM")
    <3>1. "OOM" \in Results
      BY Zenon DEF Results, Fatal
    <3> QED
      BY <2>1, <1>1, <3>1, ResultSet, Zenon DEF Leave
  <2>2. CASE \E r \in Outcomes : LET h == [call EXCEPT !.buf = fresh]
                                 IN IF r = "OK" THEN Proceed(h, "verify") ELSE Leave(h, r)
    <3> DEFINE h == [call EXCEPT !.buf = fresh]
    <3>1. h \in CallType /\ h.loc = call.loc /\ h.key = call.key /\ h.adopted = call.adopted
          /\ h.ret = call.ret /\ h.name = call.name /\ h.flags = call.flags
      BY <1>1, Zenon DEF CallType
    <3> HIDE DEF h
    <3>2. PICK r \in Outcomes : IF r = "OK" THEN Proceed(h, "verify") ELSE Leave(h, r)
      BY <2>2, Zenon DEF h
    <3>3. CASE r = "OK"
      BY <1>1, <3>1, <3>2, <3>3, Zenon DEF Proceed
    <3>4. CASE r # "OK"
      <4>1. r \in Results /\ r \in {"OOM", "IO"}
        BY <3>4, Zenon DEF Outcomes, Results, Fatal
      <4> DEFINE k == [h EXCEPT !.ret = r]
      <4>2. k \in CallType /\ k.ret = r /\ k.loc = h.loc /\ k.key = h.key /\ k.adopted = h.adopted
            /\ k.name = h.name /\ k.flags = h.flags
        BY <3>1, <4>1, ResultSet, Zenon
      <4>3. frame' = [frame EXCEPT ![cur] = k] /\ pc' = "out"
        BY <3>2, <3>4, Zenon DEF Leave
      <4> HIDE DEF k
      <4> QED
        BY <3>1, <4>1, <4>2, <4>3, Zenon
    <3> QED
      BY <3>3, <3>4, Zenon
  <2>3. CASE is_main_vbmeta /\ call.name = "vbmeta"
             /\ Proceed([Call("boot", 0, FALSE) EXCEPT !.outer = fresh], "footer")
    <3> DEFINE h == [Call("boot", 0, FALSE) EXCEPT !.outer = fresh]
    <3>1. cur = "main" /\ call.loc = 0 /\ call.key = FALSE /\ call.adopted = FALSE
      BY <2>3, <1>1, Zenon DEF TypeOK, CallShape, call, is_main_vbmeta, ReadVbmeta, CallType
    <3>2. h \in CallType /\ h.loc = 0 /\ h.key = FALSE /\ h.adopted = FALSE /\ h.ret = "OK"
          /\ h.name = "boot"
      <4>1. Call("boot", 0, FALSE) \in CallType
        BY CallTyped, Zenon DEF Names
      <4> QED
        BY <1>1, <4>1, Zenon DEF CallType, Call
    <3> QED
      BY <2>3, <3>1, <3>2, Zenon DEF Proceed
  <2> QED
    BY <2>1, <2>2, <2>3, Zenon DEF ReadVbmeta
<1>3. /\ frame' \in [Calls -> CallType]
      /\ cur = "main" => Main' = g /\ Chain' = Chain
      /\ cur = "chain" => Chain' = g /\ Main' = Main
  BY <1>2, FrameUpdate, Zenon DEF TypeOK
<1>4. TypeOK'
  <2>1. faults' \in Nat
    BY BoundAssumption DEF ReadVbmeta, TypeOK, Outcome
  <2>2. heap' \subseteq Nat /\ fresh' \in Nat
    BY DEF ReadVbmeta, TypeOK
  <2> QED
    BY <1>2, <1>3, <2>1, <2>2, Zenon DEF ReadVbmeta, TypeOK, reading, PCs
<1>5. CallShape'
  BY <1>2, <1>3, ZenonT(60) DEF TypeOK, ReadVbmeta, CallShape, call
<1>6. DataShape'
  BY <1>2, <1>3, Zenon DEF TypeOK, ReadVbmeta, DataShape, CallShape, call, reading, Stops,
     result_should_continue, Bearable
<1>7. ResultShape'
  <2>1. AllSound' = AllSound /\ AllMatch' = AllMatch
    BY Zenon DEF ReadVbmeta, AllSound, AllMatch, Sound, StoredIndex
  <2>2. cur = "main" => AllMatch
    BY DEF TypeOK, CallShape, DataShape, ReadVbmeta, AllMatch
  <2> QED
    BY <1>1, <1>2, <1>3, <2>1, <2>2, Zenon DEF TypeOK, ReadVbmeta, ResultShape, call
<1>8. ColourShape'
  BY <1>2, Zenon DEF ReadVbmeta, ColourShape
<1> QED
  BY <1>2, <1>4, <1>5, <1>6, <1>7, <1>8, Zenon

LEMMA VerifyStep == IInv /\ VerifyVbmeta => IInv'
<1> SUFFICES ASSUME IInv, VerifyVbmeta PROVE IInv'
  BY Zenon
<1> USE DEF IInv
<1>1. call \in CallType /\ call.ret = "OK" /\ (cur = "main") = is_main_vbmeta
      /\ call.key = ~is_main_vbmeta
  BY Zenon DEF TypeOK, call, ResultShape, VerifyVbmeta, CallShape, is_main_vbmeta
<1>2. PICK sig \in Signatures, flags \in Flags, trusted \in BOOLEAN :
        LET r == header_result(sig, flags, trusted)
            g == [call EXCEPT !.sig = sig, !.flags = flags, !.trusted = trusted, !.ret = r]
        IN IF Stops(r) THEN Leave(call, r) ELSE Proceed(g, "rollback")
  <2>1. ~(call.key = is_main_vbmeta)
    BY <1>1, Zenon DEF is_main_vbmeta
  <2> QED
    BY <2>1, ZenonT(60) DEF VerifyVbmeta
<1> DEFINE r == header_result(sig, flags, trusted)
           g == [call EXCEPT !.sig = sig, !.flags = flags, !.trusted = trusted, !.ret = r]
<1>3. /\ r \in Results
      /\ r = "OK" => sig = "OK" /\ trusted
      /\ ~Stops(r) => cur = "main" \/ flags = "none"
  BY <1>1, Zenon DEF header_result, Results, Fatal, Bearable, Signatures, Stops, result_should_continue
<1>4. PICK h \in CallType :
        /\ frame' = [frame EXCEPT ![cur] = h]
        /\ h.name = call.name /\ h.loc = call.loc /\ h.key = call.key /\ h.adopted = call.adopted
        /\ h.ret = r
        /\ \/ pc' = "rollback" /\ h.sig = sig /\ h.trusted = trusted
              /\ (cur = "main" \/ h.flags = "none")
           \/ pc' = "out" /\ h.flags = call.flags /\ Stops(r)
  <2>1. CASE Stops(r)
    <3> DEFINE k == [call EXCEPT !.ret = r]
    <3>1. k \in CallType /\ k.ret = r /\ k.loc = call.loc /\ k.key = call.key
          /\ k.adopted = call.adopted /\ k.name = call.name /\ k.flags = call.flags
      BY <1>1, <1>3, ResultSet, ZenonT(60)
    <3>2. frame' = [frame EXCEPT ![cur] = k] /\ pc' = "out"
      BY <1>2, <2>1, Zenon DEF Leave
    <3> HIDE DEF k, r
    <3> QED
      BY <2>1, <3>1, <3>2, Zenon
  <2>2. CASE ~Stops(r)
    <3>1. g \in CallType /\ g.ret = r /\ g.loc = call.loc /\ g.key = call.key
          /\ g.adopted = call.adopted /\ g.name = call.name /\ g.sig = sig /\ g.trusted = trusted
          /\ g.flags = flags
      <4> HIDE DEF r
      <4> QED
        BY <1>1, <1>3, Zenon DEF CallType
    <3>2. frame' = [frame EXCEPT ![cur] = g] /\ pc' = "rollback"
      BY <1>2, <2>2, Zenon DEF Proceed
    <3> HIDE DEF g, r
    <3> QED
      BY <1>3, <2>2, <3>1, <3>2, Zenon
  <2> QED
    BY <2>1, <2>2, Zenon
<1> HIDE DEF r, g
<1>5. /\ frame' \in [Calls -> CallType]
      /\ cur = "main" => Main' = h /\ Chain' = Chain
      /\ cur = "chain" => Chain' = h /\ Main' = Main
  BY <1>4, FrameUpdate, Zenon DEF TypeOK
<1>6. TypeOK'
  BY <1>4, <1>5, Zenon DEF VerifyVbmeta, TypeOK, reading, PCs
<1>7. CallShape'
  BY <1>4, <1>5, ZenonT(60) DEF TypeOK, VerifyVbmeta, CallShape, call
<1>8. DataShape'
  BY <1>4, <1>5, Zenon DEF TypeOK, VerifyVbmeta, DataShape, CallShape, call, reading, Stops
<1>9. ResultShape'
  <2>1. AllSound' = AllSound /\ AllMatch' = AllMatch
    BY Zenon DEF VerifyVbmeta, AllSound, AllMatch, Sound, StoredIndex
  <2>2. cur = "main" => AllMatch
    BY DEF TypeOK, CallShape, DataShape, VerifyVbmeta, AllMatch
  <2>3. Stops(r) => r # "OK"
    BY Zenon DEF Stops
  <2> QED
    BY <1>1, <1>3, <1>4, <1>5, <2>1, <2>2, <2>3, Zenon DEF TypeOK, VerifyVbmeta, ResultShape, call
<1>10. ColourShape'
  BY <1>4, Zenon DEF VerifyVbmeta, ColourShape
<1> QED
  BY <1>4, <1>6, <1>7, <1>8, <1>9, <1>10, Zenon

LEMMA RollbackStep == IInv /\ CheckRollback => IInv'
<1> SUFFICES ASSUME IInv, CheckRollback PROVE IInv'
  BY Zenon
<1> USE DEF IInv
<1>1. call \in CallType
  BY Zenon DEF TypeOK, call
<1>2. PICK r \in {"OK", "IO"}, index \in Indexes :
        LET old == index < StoredIndex
            g == [call EXCEPT !.index = index, !.ret = IF old THEN "ROLLBACK_INDEX" ELSE @]
        IN /\ Outcome(r)
           /\ IF r # "OK" THEN Leave(call, r)
              ELSE IF old /\ ~allow THEN Leave(g, g.ret)
              ELSE Proceed(g, "adopt")
  BY Zenon DEF CheckRollback
<1> DEFINE old == index < StoredIndex
           g == [call EXCEPT !.index = index, !.ret = IF old THEN "ROLLBACK_INDEX" ELSE @]
<1>3. /\ g \in CallType /\ g.index = index /\ g.loc = call.loc /\ g.key = call.key
      /\ g.adopted = call.adopted /\ g.name = call.name /\ g.flags = call.flags
      /\ g.sig = call.sig /\ g.trusted = call.trusted
      /\ g.ret = IF old THEN "ROLLBACK_INDEX" ELSE call.ret
  BY <1>1, Zenon DEF CallType, Results, Bearable
<1>4. PICK h \in CallType :
        /\ frame' = [frame EXCEPT ![cur] = h]
        /\ h.name = call.name /\ h.loc = call.loc /\ h.key = call.key /\ h.adopted = call.adopted
        /\ h.flags = call.flags /\ h.sig = call.sig /\ h.trusted = call.trusted
        /\ \/ pc' = "adopt" /\ h.index = index
              /\ h.ret = IF old THEN "ROLLBACK_INDEX" ELSE call.ret
           \/ pc' = "out" /\ h.ret = "IO"
           \/ pc' = "out" /\ h.ret = "ROLLBACK_INDEX" /\ ~allow
  <2> DEFINE k == [call EXCEPT !.ret = "IO"]
             m == [g EXCEPT !.ret = "ROLLBACK_INDEX"]
  <2>1. k \in CallType /\ k.ret = "IO" /\ k.loc = call.loc /\ k.key = call.key
        /\ k.adopted = call.adopted /\ k.name = call.name /\ k.flags = call.flags
        /\ k.sig = call.sig /\ k.trusted = call.trusted
    <3>1. "IO" \in Results
      BY Zenon DEF Results, Fatal
    <3> QED
      BY <1>1, <3>1, ResultSet, Zenon
  <2>2. m \in CallType /\ m.ret = "ROLLBACK_INDEX" /\ m.loc = g.loc /\ m.key = g.key
        /\ m.adopted = g.adopted /\ m.name = g.name /\ m.flags = g.flags
        /\ m.sig = g.sig /\ m.trusted = g.trusted
    <3>1. "ROLLBACK_INDEX" \in Results
      BY Zenon DEF Results, Bearable
    <3> HIDE DEF g
    <3> QED
      BY <1>3, <3>1, ResultSet, ZenonT(60)
  <2>3. \/ frame' = [frame EXCEPT ![cur] = k] /\ pc' = "out"
        \/ frame' = [frame EXCEPT ![cur] = m] /\ pc' = "out" /\ ~allow
        \/ frame' = [frame EXCEPT ![cur] = g] /\ pc' = "adopt"
    <3>1. CASE r # "OK"
      BY <1>2, <3>1, Zenon DEF Leave
    <3>2. CASE r = "OK" /\ old /\ ~allow
      <4>1. g.ret = "ROLLBACK_INDEX"
        BY <1>3, <3>2, Zenon
      <4>2. Leave(g, g.ret)
        BY <1>2, <3>2, Zenon
      <4> HIDE DEF g
      <4> QED
        BY <3>2, <4>1, <4>2, Zenon DEF Leave
    <3>3. CASE r = "OK" /\ ~(old /\ ~allow)
      BY <1>2, <3>3, Zenon DEF Proceed
    <3> QED
      BY <3>1, <3>2, <3>3, Zenon
  <2> HIDE DEF g, k, m, old
  <2> QED
    BY <1>3, <2>1, <2>2, <2>3, Zenon
<1> HIDE DEF g
<1>5. /\ frame' \in [Calls -> CallType]
      /\ cur = "main" => Main' = h /\ Chain' = Chain
      /\ cur = "chain" => Chain' = h /\ Main' = Main
  BY <1>4, FrameUpdate, Zenon DEF TypeOK
<1>6. TypeOK'
  BY <1>2, <1>4, <1>5 DEF CheckRollback, TypeOK, Outcome, reading, PCs
<1>7. CallShape'
  BY <1>4, <1>5, ZenonT(60) DEF TypeOK, CheckRollback, CallShape, call
<1>8. DataShape'
  BY <1>4, <1>5, Zenon DEF TypeOK, CheckRollback, DataShape, CallShape, call, reading, Stops,
     result_should_continue, Bearable
<1>9. ResultShape'
  <2>1. AllSound' = AllSound /\ AllMatch' = AllMatch
    BY Zenon DEF CheckRollback, AllSound, AllMatch, Sound, StoredIndex
  <2>2. index \in Int /\ (~old => index >= StoredIndex)
    BY DEF Indexes, StoredIndex
  <2> QED
    BY <1>4, <1>5, <2>1, <2>2 DEF TypeOK, CheckRollback, ResultShape, call, StoredIndex
<1>10. ColourShape'
  BY <1>4, Zenon DEF CheckRollback, ColourShape
<1> QED
  BY <1>4, <1>6, <1>7, <1>8, <1>9, <1>10, Zenon

\* An entry of slot_data carries what was found out about its image.
LEMMA EntryTyped ==
  ASSUME NEW n \in BOOLEAN, call \in CallType
  PROVE  LET image == ImageEntry(n)
         IN /\ image \in ImageType /\ image.name \in {call.name, "null"}
            /\ image.flags = call.flags /\ image.sig = call.sig /\ image.buf = call.buf
            /\ image.trusted = call.trusted /\ image.index = call.index
<1> DEFINE name == IF n THEN call.name ELSE "null"
           image == [name |-> name, loc |-> call.loc, sig |-> call.sig, trusted |-> call.trusted,
                     flags |-> call.flags, index |-> call.index, buf |-> call.buf]
<1>1. name \in {call.name, "null"} /\ name \in Names \union {"null"}
  BY Zenon DEF CallType
<1>2. ImageEntry(n) = image
  BY Zenon DEF ImageEntry
<1> HIDE DEF name
<1>3. image \in ImageType /\ image.name = name
      /\ image.flags = call.flags /\ image.sig = call.sig /\ image.buf = call.buf
      /\ image.trusted = call.trusted /\ image.index = call.index
  BY <1>1, Zenon DEF CallType, ImageType
<1> QED
  BY <1>1, <1>2, <1>3, Zenon

LEMMA AdoptStep == IInv /\ AdoptImage => IInv'
<1> SUFFICES ASSUME IInv, AdoptImage PROVE IInv'
  BY Zenon
<1> USE DEF IInv
<1>1. /\ call \in CallType /\ (cur = "main") = is_main_vbmeta /\ slot_data \in DataType
      /\ cur = "main" => Images = <<>> /\ Parts = <<>>
      /\ cur = "chain" => Images # <<>>
  BY Zenon DEF TypeOK, call, AdoptImage, CallShape, DataShape, is_main_vbmeta
<1> DEFINE g == [call EXCEPT !.adopted = TRUE]
<1>2. \A n \in BOOLEAN : ImageEntry(n) \in ImageType
  BY <1>1, EntryTyped, Zenon
<1>3. /\ g \in CallType /\ g.adopted /\ g.loc = call.loc /\ g.key = call.key
      /\ g.name = call.name /\ g.flags = call.flags /\ g.ret = call.ret
  BY <1>1, Zenon DEF CallType
<1>4. PICK h \in CallType, n \in BOOLEAN :
        /\ frame' = [frame EXCEPT ![cur] = h]
        /\ h.name = call.name /\ h.loc = call.loc /\ h.key = call.key /\ h.flags = call.flags
        /\ \/ /\ pc' = "out" /\ h.ret = "OOM" /\ h.adopted = call.adopted
              /\ slot_data' = slot_data
           \/ /\ slot_data' = [slot_data EXCEPT !.vbmeta_images = Append(@, ImageEntry(n))]
              /\ h.adopted
              /\ \/ pc' = "load" /\ call.flags = "verification_disabled" /\ h.ret = call.ret
                 \/ /\ call.flags # "verification_disabled"
                    /\ \/ pc' = "descriptors" /\ h.ret = call.ret
                       \/ pc' = "out" /\ h.ret = "OOM"
  <2> DEFINE k == [call EXCEPT !.ret = "OOM"]
             m == [g EXCEPT !.ret = "OOM"]
  <2>1. "OOM" \in Results
    BY Zenon DEF Results, Fatal
  <2>2. k \in CallType /\ k.ret = "OOM" /\ k.loc = call.loc /\ k.key = call.key
        /\ k.adopted = call.adopted /\ k.name = call.name /\ k.flags = call.flags
    BY <1>1, <2>1, ResultSet, Zenon
  <2>3. m \in CallType /\ m.ret = "OOM" /\ m.loc = g.loc /\ m.key = g.key
        /\ m.adopted = g.adopted /\ m.name = g.name /\ m.flags = g.flags
    <3> HIDE DEF g
    <3> QED
      BY <1>3, <2>1, ResultSet, Zenon
  <2>4. ~(is_main_vbmeta # (slot_data.vbmeta_images = <<>>))
    BY <1>1, Zenon DEF TypeOK
  <2>5. CASE Leave(call, "OOM") /\ UNCHANGED slot_data
    <3>1. frame' = [frame EXCEPT ![cur] = k] /\ pc' = "out"
      BY <2>5, Zenon DEF Leave
    <3> HIDE DEF k
    <3> QED
      BY <2>2, <2>5, <3>1, Zenon
  <2>6. CASE /\ \E n \in BOOLEAN :
                  slot_data' = [slot_data EXCEPT !.vbmeta_images = Append(@, ImageEntry(n))]
             /\ call.flags = "verification_disabled" /\ Proceed(g, "load")
    <3> HIDE DEF g
    <3> QED
      BY <1>3, <2>6, Zenon DEF Proceed
  <2>7. CASE /\ \E n \in BOOLEAN :
                  slot_data' = [slot_data EXCEPT !.vbmeta_images = Append(@, ImageEntry(n))]
             /\ call.flags # "verification_disabled" /\ Proceed(g, "descriptors")
    <3> HIDE DEF g
    <3> QED
      BY <1>3, <2>7, Zenon DEF Proceed
  <2>8. CASE /\ \E n \in BOOLEAN :
                  slot_data' = [slot_data EXCEPT !.vbmeta_images = Append(@, ImageEntry(n))]
             /\ call.flags # "verification_disabled" /\ Leave(g, "OOM")
    <3>1. frame' = [frame EXCEPT ![cur] = m] /\ pc' = "out"
      BY <2>8, Zenon DEF Leave
    <3> HIDE DEF g, m
    <3> QED
      BY <1>3, <2>3, <2>8, <3>1, Zenon
  <2> QED
    BY <2>4, <2>5, <2>6, <2>7, <2>8, Zenon DEF AdoptImage
<1> DEFINE image == ImageEntry(n)
<1>16. image \in ImageType
  BY <1>2, Zenon
<1>5. /\ frame' \in [Calls -> CallType]
      /\ cur = "main" => Main' = h /\ Chain' = Chain
      /\ cur = "chain" => Chain' = h /\ Main' = Main
  BY <1>4, FrameUpdate, Zenon DEF TypeOK
<1>6. /\ slot_data' \in DataType /\ Parts' = Parts /\ slot_data'.cmdline = slot_data.cmdline
      /\ Images \in Seq(ImageType)
      /\ slot_data' # slot_data => Images' = Append(Images, image)
  <2>1. Images \in Seq(ImageType) /\ Append(Images, image) \in Seq(ImageType)
    BY <1>1, <1>16 DEF DataType
  <2> QED
    BY <1>1, <1>4, <2>1, Zenon DEF DataType
<1>7. \/ Images' = Images /\ slot_data' = slot_data
      \/ /\ Images' = Append(Images, image) /\ Images' # <<>>
         /\ \A i \in DOMAIN Images' : \/ i \in DOMAIN Images /\ Images'[i] = Images[i]
                                      \/ Images'[i] = image
         /\ cur = "main" => Images'[1] = image
         /\ cur = "chain" => Images'[1] = Images[1]
  BY <1>1, <1>16, <1>6, Appended, SMTT(30)
<1>8. image.name \in {call.name, "null"} /\ image.flags = call.flags /\ image.sig = call.sig
      /\ image.trusted = call.trusted /\ image.index = call.index
  BY <1>1, EntryTyped, Zenon
<1> HIDE DEF g
<1>9. faults' \in Nat
  BY BoundAssumption DEF AdoptImage, TypeOK, Outcome
<1>10. TypeOK'
  BY <1>4, <1>5, <1>6, <1>9, Zenon DEF AdoptImage, TypeOK, reading, PCs
<1>11. CallShape'
  BY <1>4, <1>5, ZenonT(60) DEF TypeOK, AdoptImage, CallShape, call
<1>12. slot_data' # slot_data => Images' = Append(Images, image) /\ h.adopted
  BY <1>4, <1>6, Zenon
<1>13. DataShape'
  <2>1. CASE slot_data' = slot_data /\ pc' = "out" /\ h.ret = "OOM" /\ h.adopted = call.adopted
    <3>1. cur' = cur /\ cur \in Calls /\ allow' = allow /\ Images' = Images /\ Parts' = Parts
      BY <2>1, Zenon DEF TypeOK, AdoptImage, reading
    <3>2. cur = "main" => ~Main.adopted /\ ~Main'.adopted /\ Main'.flags = Main.flags
                          /\ Main'.ret = "OOM"
      BY <1>4, <1>5, <2>1, Zenon DEF AdoptImage, CallShape, call
    <3>3. cur = "chain" => Main' = Main /\ Main.adopted
      BY <1>5, Zenon DEF CallShape
    <3>4. Stops("OOM")'
      BY Zenon DEF Stops, result_should_continue, Bearable
    <3> QED
      BY <2>1, <3>1, <3>2, <3>3, <3>4, Zenon DEF AdoptImage, DataShape
  <2>2. CASE Images' = Append(Images, image) /\ h.adopted
    <3>1. Images' # <<>> /\ (cur = "main" => Images'[1] = image)
          /\ (cur = "chain" => Images'[1] = Images[1])
      BY <1>1, <1>16, <1>6, <2>2, Appended
    <3>2. cur' = cur /\ Main'.adopted
      BY <1>5, <2>2, Zenon DEF AdoptImage, CallShape, TypeOK
    <3>3. Images'[1].name \in {Main'.name, "null"} /\ Images'[1].flags = Main'.flags
      <4>1. CASE cur = "main"
        BY <1>4, <1>5, <1>8, <3>1, <4>1, Zenon DEF call
      <4>2. CASE cur = "chain"
        BY <1>5, <3>1, <4>2, Zenon DEF CallShape, DataShape
      <4> QED
        BY <4>1, <4>2, Zenon DEF TypeOK
    <3>4. Main'.flags = "verification_disabled" => slot_data'.cmdline = "null"
      BY <1>4, <1>5, <1>6, Zenon DEF AdoptImage, CallShape, DataShape, TypeOK, call
    <3> QED
      BY <3>1, <3>2, <3>3, <3>4, Zenon DEF DataShape
  <2> QED
    BY <1>1, <1>4, <1>6, <2>1, <2>2, Zenon DEF DataType
<1>14. ResultShape'
  <2>1. AllMatch' = AllMatch
    BY <1>6, Zenon DEF AllMatch
  <2>2. cur = "main" => AllMatch
    BY <1>1 DEF AllMatch
  <2>3. cur' = cur
    BY Zenon DEF AdoptImage
  <2>4. h.ret = "OK" => call.ret = "OK" /\ Sound(image)
    BY <1>4, <1>8, Zenon DEF AdoptImage, ResultShape, Sound
  <2>5. h.ret = "OK" /\ AllSound => AllSound'
    BY <1>7, <2>4, Zenon DEF AllSound, Sound, StoredIndex
  <2>6. pc' \notin {"footer", "read", "verify", "rollback", "adopt"}
    BY <1>4, Zenon
  <2> QED
    BY <1>4, <1>5, <2>1, <2>2, <2>3, <2>4, <2>5, <2>6, Zenon
    DEF TypeOK, AdoptImage, ResultShape, call
<1>15. ColourShape'
  BY <1>4, Zenon DEF AdoptImage, ColourShape
<1> QED
  BY <1>4, <1>10, <1>11, <1>13, <1>14, <1>15, Zenon

------------------------------------------------------------------------------
\* Partitions and descriptors.

\* The invariant survives a step of an adopted image that keeps the images, and
\* that reports a loaded partition which does not match its digest.
LEMMA AfterAdoption ==
  ASSUME IInv, pc \in {"load", "descriptors"}, NEW h \in CallType,
         frame' = [frame EXCEPT ![cur] = h], pc' \in {pc, "out"}, UNCHANGED <<reading, cur>>,
         h.name = call.name, h.loc = call.loc, h.key = call.key, h.adopted = call.adopted,
         h.flags = call.flags,
         slot_data' \in DataType, Images' = Images,
         Main.flags = "verification_disabled" => slot_data'.cmdline = slot_data.cmdline,
         heap' \subseteq Nat, fresh' \in Nat, descriptors' \in Nat, faults' \in Nat,
         h.ret = "OK" => /\ call.ret = "OK"
                         /\ Main.flags = "verification_disabled" \/ (AllMatch => AllMatch')
  PROVE  IInv'
<1> USE DEF IInv
<1>1. /\ frame' \in [Calls -> CallType]
      /\ cur = "main" => Main' = h /\ Chain' = Chain
      /\ cur = "chain" => Chain' = h /\ Main' = Main
  BY FrameUpdate, Zenon DEF TypeOK
<1>2. TypeOK'
  BY <1>1, Zenon DEF TypeOK, reading, PCs
<1>3. CallShape'
  BY <1>1, SMTT(30) DEF TypeOK, CallShape, call
<1>4. DataShape'
  BY <1>1, SMTT(30) DEF TypeOK, DataShape, CallShape, call, reading
<1>5. ResultShape'
  <2>1. AllSound' = AllSound
    BY Zenon DEF AllSound, Sound, StoredIndex
  <2> QED
    BY <1>1, <2>1 DEF TypeOK, ResultShape, CallShape, call
<1>6. ColourShape'
  BY Zenon DEF ColourShape
<1> QED
  BY <1>2, <1>3, <1>4, <1>5, <1>6, Zenon

\* What a loaded partition adds to slot_data.
LEMMA PartitionLoaded ==
  ASSUME slot_data \in DataType, heap \subseteq Nat, fresh \in Nat,
         NEW name \in {"recovery", "tos", "acpi"},
         NEW data \in {"matches", "differs", "unchecked"}, Loaded(name, data)
  PROVE  /\ slot_data' \in DataType /\ Images' = Images /\ slot_data'.cmdline = slot_data.cmdline
         /\ heap' \subseteq Nat /\ fresh' \in Nat
         /\ data = "matches" /\ AllMatch => AllMatch'
<1> DEFINE part == [name |-> name, data |-> data, buf |-> fresh]
<1>1. part \in PartType /\ part.data = data
  BY Zenon DEF PartType
<1>2. Parts \in Seq(PartType)
  BY Zenon DEF DataType
<1> HIDE DEF part
<1>3. /\ Append(Parts, part) \in Seq(PartType)
      /\ \A i \in DOMAIN Append(Parts, part) :
           \/ i \in DOMAIN Parts /\ Append(Parts, part)[i] = Parts[i]
           \/ Append(Parts, part)[i] = part
  BY <1>1, <1>2, Appended
<1>4. slot_data' = [slot_data EXCEPT !.loaded_partitions = Append(Parts, part)]
  BY Zenon DEF Loaded, part
<1>5. slot_data' \in DataType /\ Images' = Images /\ slot_data'.cmdline = slot_data.cmdline
      /\ Parts' = Append(Parts, part)
  BY <1>3, <1>4, Zenon DEF DataType
<1>6. heap' \subseteq Nat /\ fresh' \in Nat
  BY DEF Loaded
<1>7. data = "matches" /\ AllMatch => AllMatch'
  BY <1>1, <1>3, <1>5, Zenon DEF AllMatch
<1> QED
  BY <1>5, <1>6, <1>7, Zenon

LEMMA RequestedNames ==
  ASSUME caller \in {"recovery", "tos"}
  PROVE  /\ requested_partitions \in Seq({"recovery", "tos", "acpi"})
         /\ \A i \in 1 .. Len(requested_partitions) :
              requested_partitions[i] \in {"recovery", "tos", "acpi"}
         /\ Requested \subseteq {"recovery", "tos", "acpi"}
<1> DEFINE S == {"recovery", "tos", "acpi"}
<1>1. <<caller>> \in Seq(S) /\ (IF UseAcpi THEN <<"acpi">> ELSE <<>>) \in Seq(S)
  <2>1. <<caller>> \in Seq(S) /\ <<"acpi">> \in Seq(S) /\ <<>> \in Seq(S)
    OBVIOUS
  <2> HIDE DEF S
  <2> QED
    BY <2>1, BoundAssumption, Zenon
<1>2. requested_partitions \in Seq(S)
  BY <1>1, ConcatProperties, Zenon DEF requested_partitions
<1>3. \A i \in 1 .. Len(requested_partitions) : requested_partitions[i] \in S
  BY <1>2, ElementOfSeq, Zenon
<1>4. DOMAIN requested_partitions = 1 .. Len(requested_partitions)
  BY <1>2, LenProperties, Zenon
<1> QED
  BY <1>2, <1>3, <1>4, Zenon DEF Requested

LEMMA LoadStep == IInv /\ LoadRequested => IInv'
<1> SUFFICES ASSUME IInv, LoadRequested PROVE IInv'
  BY Zenon
<1> DEFINE n == Len(slot_data.loaded_partitions) + 1
<1>1. /\ call \in CallType /\ call.ret \in Results
      /\ Main.flags = "verification_disabled" /\ slot_data \in DataType
      /\ heap \subseteq Nat /\ fresh \in Nat /\ caller \in {"recovery", "tos"}
      /\ descriptors \in Nat /\ UNCHANGED <<reading, cur, descriptors>> /\ pc = "load"
  BY Zenon DEF IInv, TypeOK, call, CallShape, LoadRequested, CallType
<1>2. faults' \in Nat
  BY DEF LoadRequested, IInv, TypeOK, Outcome
<1>3. CASE \E r \in {call.ret, "OOM", "IO"} :
             /\ Leave(call, r) /\ NothingLoaded
             /\ r # "OK" \/ call.ret = "OK"
  <2>1. PICK r \in {call.ret, "OOM", "IO"} :
          Leave(call, r) /\ NothingLoaded /\ (r # "OK" \/ call.ret = "OK")
    BY <1>3, Zenon
  <2>2. r \in Results
    BY <1>1, Zenon DEF Results, Fatal
  <2> DEFINE h == [call EXCEPT !.ret = r]
  <2>3. h \in CallType /\ h.ret = r /\ h.loc = call.loc /\ h.key = call.key
        /\ h.adopted = call.adopted /\ h.name = call.name /\ h.flags = call.flags
    BY <1>1, <2>2, ResultSet, Zenon
  <2>4. frame' = [frame EXCEPT ![cur] = h] /\ pc' = "out"
    BY <2>1, Zenon DEF Leave
  <2> HIDE DEF h
  <2> QED
    BY <1>1, <1>2, <2>1, <2>3, <2>4, AfterAdoption, Zenon DEF NothingLoaded
<1>4. CASE n \in 1 .. Len(requested_partitions)
           /\ Loaded(requested_partitions[n], "unchecked") /\ Proceed(call, "load")
  <2> HIDE DEF n
  <2>1. requested_partitions[n] \in {"recovery", "tos", "acpi"}
    BY <1>1, <1>4, RequestedNames, Zenon
  <2>2. /\ slot_data' \in DataType /\ Images' = Images /\ slot_data'.cmdline = slot_data.cmdline
        /\ heap' \subseteq Nat /\ fresh' \in Nat
    BY <1>1, <1>4, <2>1, PartitionLoaded, Zenon
  <2>3. frame' = [frame EXCEPT ![cur] = call] /\ pc' = "load"
    BY <1>4, Zenon DEF Proceed
  <2> QED
    BY <1>1, <1>2, <2>2, <2>3, AfterAdoption, Zenon
<1>5. n \in Nat \ {0} /\ Len(requested_partitions) \in Nat
  <2>1. Parts \in Seq(PartType)
    BY <1>1, Zenon DEF DataType
  <2>2. requested_partitions \in Seq({"recovery", "tos", "acpi"})
    BY <1>1, RequestedNames, Zenon
  <2> QED
    BY <2>1, <2>2, LenProperties
<1> HIDE DEF n
<1>6. CASE n > Len(requested_partitions)
  BY <1>3, <1>6, Zenon DEF LoadRequested, n
<1>7. CASE ~(n > Len(requested_partitions))
  <2>1. PICK r \in Outcomes :
          IF r # "OK" \/ TooMany
          THEN Leave(call, IF r # "OK" THEN r ELSE "OOM") /\ NothingLoaded
          ELSE Loaded(requested_partitions[n], "unchecked") /\ Proceed(call, "load")
    BY <1>7, Zenon DEF LoadRequested, n
  <2>2. n \in 1 .. Len(requested_partitions)
    BY <1>5, <1>7
  <2>3. CASE r # "OK"
    <3>1. r \in {"OOM", "IO"} /\ Leave(call, r) /\ NothingLoaded
      BY <2>1, <2>3, Zenon DEF Outcomes
    <3> QED
      BY <1>3, <2>3, <3>1, Zenon
  <2>4. CASE r = "OK" /\ TooMany
    BY <1>3, <2>1, <2>4, Zenon
  <2>5. CASE r = "OK" /\ ~TooMany
    BY <1>4, <2>1, <2>2, <2>5, Zenon DEF n
  <2> QED
    BY <2>3, <2>4, <2>5, Zenon
<1> QED
  BY <1>6, <1>7, Zenon

LEMMA HashStep == IInv /\ HashDescriptor => IInv'
<1> SUFFICES ASSUME IInv, HashDescriptor PROVE IInv'
  BY Zenon
<1>1. /\ call \in CallType /\ call.ret \in Results /\ slot_data \in DataType
      /\ heap \subseteq Nat /\ fresh \in Nat /\ caller \in {"recovery", "tos"}
      /\ descriptors' \in Nat /\ UNCHANGED <<reading, cur>> /\ pc = "descriptors"
      /\ faults \in Nat
  BY BoundAssumption DEF IInv, TypeOK, call, HashDescriptor, NextDescriptor, CallType
<1>2. PICK part \in Requested \union {"other"}, r \in Outcomes,
           data \in {"matches", "differs", "unsupported"} :
        LET sub_ret == load_and_verify_hash_partition(part, data, r)
            kept == part \in Requested /\ result_should_continue(sub_ret)
        IN /\ (part = "other" => r = "OK") /\ Outcome(r)
           /\ IF kept THEN Loaded(part, data) ELSE NothingLoaded
           /\ IF Stops(sub_ret) THEN Leave(call, sub_ret)
              ELSE Proceed([call EXCEPT !.ret = Merge(@, sub_ret)], "descriptors")
  BY Zenon DEF HashDescriptor
<1> DEFINE sub_ret == load_and_verify_hash_partition(part, data, r)
           kept == part \in Requested /\ result_should_continue(sub_ret)
<1>3. /\ sub_ret \in Results
      /\ kept => data \in {"matches", "differs"} /\ (sub_ret = "OK" => data = "matches")
  BY Zenon DEF load_and_verify_hash_partition, Results, Fatal, Bearable, Outcomes, result_should_continue
<1> HIDE DEF sub_ret
<1>4. faults' \in Nat
  BY <1>1, <1>2 DEF Outcome
<1>5. /\ slot_data' \in DataType /\ Images' = Images /\ slot_data'.cmdline = slot_data.cmdline
      /\ heap' \subseteq Nat /\ fresh' \in Nat
      /\ sub_ret = "OK" /\ AllMatch => AllMatch'
  <2>1. CASE kept
    <3>1. part \in {"recovery", "tos", "acpi"} /\ data \in {"matches", "differs"}
      BY <1>1, <1>3, <2>1, RequestedNames, Zenon
    <3>2. Loaded(part, data)
      BY <1>2, <2>1, Zenon DEF sub_ret
    <3> QED
      BY <1>1, <1>3, <2>1, <3>1, <3>2, PartitionLoaded, Zenon
  <2>2. CASE ~kept
    <3>1. NothingLoaded
      BY <1>2, <2>2, Zenon DEF sub_ret
    <3> QED
      BY <1>1, <3>1, Zenon DEF NothingLoaded, AllMatch
  <2> QED
    BY <2>1, <2>2, Zenon
<1>6. PICK s \in Results :
        /\ frame' = [frame EXCEPT ![cur] = [call EXCEPT !.ret = s]]
        /\ pc' \in {"descriptors", "out"}
        /\ s = "OK" => call.ret = "OK" /\ sub_ret = "OK"
  <2>1. CASE Stops(sub_ret)
    BY <1>2, <1>3, <2>1, Zenon DEF Leave, Stops, sub_ret
  <2>2. CASE ~Stops(sub_ret)
    <3>1. Proceed([call EXCEPT !.ret = Merge(call.ret, sub_ret)], "descriptors")
      BY <1>2, <2>2, Zenon DEF sub_ret
    <3>2. Merge(call.ret, sub_ret) \in Results
          /\ (Merge(call.ret, sub_ret) = "OK" => call.ret = "OK" /\ sub_ret = "OK")
      BY <1>1, <1>3, Zenon DEF Merge
    <3> QED
      BY <3>1, <3>2, Zenon DEF Proceed
  <2> QED
    BY <2>1, <2>2, Zenon
<1> DEFINE h == [call EXCEPT !.ret = s]
<1>7. h \in CallType /\ h.ret = s /\ h.loc = call.loc /\ h.key = call.key
      /\ h.adopted = call.adopted /\ h.name = call.name /\ h.flags = call.flags
  BY <1>1, ResultSet, Zenon
<1>8. frame' = [frame EXCEPT ![cur] = h]
  BY <1>6, Zenon
<1> HIDE DEF h
<1> QED
  BY <1>1, <1>4, <1>5, <1>6, <1>7, <1>8, AfterAdoption, Zenon

LEMMA CmdlineStep == IInv /\ KernelCmdlineDescriptor => IInv'
<1> SUFFICES ASSUME IInv, KernelCmdlineDescriptor PROVE IInv'
  BY Zenon
<1>1. /\ call \in CallType /\ call.ret \in Results /\ slot_data \in DataType
      /\ heap' \subseteq Nat /\ fresh' \in Nat
      /\ descriptors' \in Nat /\ UNCHANGED <<reading, cur>> /\ pc = "descriptors"
      /\ faults \in Nat /\ Main.flags # "verification_disabled"
  BY BoundAssumption
  DEF IInv, TypeOK, call, KernelCmdlineDescriptor, NextDescriptor, CallType, CallShape
<1>2. PICK r \in {"OK", "OOM"} :
        /\ Outcome(r)
        /\ IF r = "OK" THEN Proceed(call, "descriptors") ELSE Leave(call, r)
  BY Zenon DEF KernelCmdlineDescriptor
<1>3. slot_data' = slot_data \/ slot_data' = [slot_data EXCEPT !.cmdline = "snippets"]
  BY Zenon DEF KernelCmdlineDescriptor
<1>4. slot_data' \in DataType /\ Images' = Images /\ Parts' = Parts
  BY <1>1, <1>3, Zenon DEF DataType
<1>5. AllMatch' = AllMatch
  BY <1>4, Zenon DEF AllMatch
<1>6. faults' \in Nat
  BY <1>1, <1>2 DEF Outcome
<1>7. CASE r = "OK"
  <2>1. frame' = [frame EXCEPT ![cur] = call] /\ pc' = "descriptors"
    BY <1>2, <1>7, Zenon DEF Proceed
  <2> QED
    BY <1>1, <1>4, <1>5, <1>6, <2>1, AfterAdoption, Zenon
<1>8. CASE r = "OOM"
  <2> DEFINE h == [call EXCEPT !.ret = "OOM"]
  <2>1. "OOM" \in Results
    BY Zenon DEF Results, Fatal
  <2>2. h \in CallType /\ h.ret = "OOM" /\ h.loc = call.loc /\ h.key = call.key
        /\ h.adopted = call.adopted /\ h.name = call.name /\ h.flags = call.flags
    BY <1>1, <2>1, ResultSet, ZenonT(60)
  <2>3. frame' = [frame EXCEPT ![cur] = h] /\ pc' = "out"
    BY <1>2, <1>8, Zenon DEF Leave
  <2> HIDE DEF h
  <2> QED
    BY <1>1, <1>4, <1>5, <1>6, <2>2, <2>3, AfterAdoption, Zenon
<1> QED
  BY <1>7, <1>8, Zenon

LEMMA PlainStep == IInv /\ (PlainDescriptor \/ InvalidDescriptor) => IInv'
<1> SUFFICES ASSUME IInv, PlainDescriptor \/ InvalidDescriptor PROVE IInv'
  BY Zenon
<1>1. /\ call \in CallType /\ slot_data' \in DataType /\ slot_data' = slot_data
      /\ heap' \subseteq Nat /\ fresh' \in Nat
      /\ descriptors' \in Nat /\ UNCHANGED <<reading, cur>> /\ pc = "descriptors"
      /\ faults' \in Nat
  <2>1. NextDescriptor /\ NothingLoaded /\ faults' = faults
    BY Zenon DEF PlainDescriptor, InvalidDescriptor
  <2>2. descriptors' \in Nat
    BY <2>1, BoundAssumption DEF IInv, TypeOK, NextDescriptor
  <2> QED
    BY <2>1, <2>2, Zenon DEF IInv, TypeOK, call, NextDescriptor, NothingLoaded
<1>2. AllMatch' = AllMatch
  BY <1>1, Zenon DEF AllMatch
<1>3. CASE PlainDescriptor
  <2>1. frame' = [frame EXCEPT ![cur] = call] /\ pc' = "descriptors"
    BY <1>3, Zenon DEF PlainDescriptor, Proceed
  <2> QED
    BY <1>1, <1>2, <2>1, AfterAdoption, Zenon
<1>4. CASE InvalidDescriptor
  <2> DEFINE h == [call EXCEPT !.ret = "INVALID_METADATA"]
  <2>1. "INVALID_METADATA" \in Results
    BY Zenon DEF Results, Fatal
  <2>2. h \in CallType /\ h.ret = "INVALID_METADATA" /\ h.loc = call.loc /\ h.key = call.key
        /\ h.adopted = call.adopted /\ h.name = call.name /\ h.flags = call.flags
    BY <1>1, <2>1, ResultSet, Zenon
  <2>3. frame' = [frame EXCEPT ![cur] = h] /\ pc' = "out"
    BY <1>4, Zenon DEF InvalidDescriptor, Leave
  <2> HIDE DEF h
  <2> QED
    BY <1>1, <1>2, <2>2, <2>3, AfterAdoption, Zenon
<1> QED
  BY <1>3, <1>4, Zenon

LEMMA EndStep == IInv /\ EndDescriptors => IInv'
<1> SUFFICES ASSUME IInv, EndDescriptors PROVE IInv'
  BY Zenon
<1>1. /\ call \in CallType /\ call.ret \in Results /\ call.loc \in Nat /\ call.index \in Indexes
      /\ slot_data \in DataType
      /\ heap' \subseteq Nat /\ fresh' \in Nat
      /\ descriptors' \in Nat /\ UNCHANGED <<reading, cur>> /\ pc = "descriptors"
      /\ faults' \in Nat
  BY Zenon DEF IInv, TypeOK, call, EndDescriptors, CallType
<1>2. PICK r \in Results : Leave(call, r) /\ (r = call.ret \/ r = "INVALID_METADATA")
  <2>1. "INVALID_METADATA" \in Results
    BY Zenon DEF Results, Fatal
  <2> QED
    BY <1>1, <2>1, Zenon DEF EndDescriptors
<1>3. /\ slot_data' \in DataType /\ Images' = Images /\ Parts' = Parts
      /\ slot_data'.cmdline = slot_data.cmdline
  <2>1. CASE call.loc >= MaxLocations
    BY <1>1, <2>1, Zenon DEF EndDescriptors
  <2>2. CASE ~(call.loc >= MaxLocations)
    <3> DEFINE indexes == [slot_data.rollback_indexes EXCEPT ![call.loc] = call.index]
    <3>1. slot_data' = [slot_data EXCEPT !.rollback_indexes = indexes]
      BY <2>2, Zenon DEF EndDescriptors
    <3>2. indexes \in [0 .. MaxLocations - 1 -> Indexes]
      BY <1>1, Zenon DEF DataType
    <3> HIDE DEF indexes
    <3> QED
      BY <1>1, <3>1, <3>2, Zenon DEF DataType
  <2> QED
    BY <2>1, <2>2, Zenon
<1>4. AllMatch' = AllMatch
  BY <1>3, Zenon DEF AllMatch
<1> DEFINE h == [call EXCEPT !.ret = r]
<1>5. h \in CallType /\ h.ret = r /\ h.loc = call.loc /\ h.key = call.key
      /\ h.adopted = call.adopted /\ h.name = call.name /\ h.flags = call.flags
  BY <1>1, ResultSet, Zenon
<1>6. frame' = [frame EXCEPT ![cur] = h] /\ pc' = "out"
  BY <1>2, Zenon DEF Leave
<1> HIDE DEF h
<1> QED
  BY <1>1, <1>2, <1>3, <1>4, <1>5, <1>6, AfterAdoption, Zenon

LEMMA ChainStep == IInv /\ ChainDescriptor => IInv'
<1> SUFFICES ASSUME IInv, ChainDescriptor PROVE IInv'
  BY Zenon
<1>1. /\ call \in CallType /\ slot_data' \in DataType /\ slot_data' = slot_data
      /\ heap' \subseteq Nat /\ fresh' \in Nat
      /\ descriptors' \in Nat /\ UNCHANGED reading /\ pc = "descriptors"
      /\ faults' \in Nat
  BY BoundAssumption DEF IInv, TypeOK, call, ChainDescriptor
<1>2. AllMatch' = AllMatch /\ AllSound' = AllSound
  BY <1>1, Zenon DEF AllMatch, AllSound, Sound, StoredIndex
<1>3. PICK loc \in 0 .. MaxLocations :
        IF ~ChainAllowed(loc)
        THEN Leave(call, "INVALID_METADATA") /\ UNCHANGED cur
        ELSE /\ cur' = "chain"
             /\ frame' = [frame EXCEPT !["chain"] = Call("chained", loc, TRUE)]
             /\ pc' = "footer"
  BY Zenon DEF ChainDescriptor
<1>4. CASE ~ChainAllowed(loc)
  <2> DEFINE h == [call EXCEPT !.ret = "INVALID_METADATA"]
  <2>1. "INVALID_METADATA" \in Results
    BY Zenon DEF Results, Fatal
  <2>2. h \in CallType /\ h.ret = "INVALID_METADATA" /\ h.loc = call.loc /\ h.key = call.key
        /\ h.adopted = call.adopted /\ h.name = call.name /\ h.flags = call.flags
    BY <1>1, <2>1, ResultSet, Zenon
  <2>3. frame' = [frame EXCEPT ![cur] = h] /\ pc' = "out" /\ UNCHANGED cur
    BY <1>3, <1>4, Zenon DEF Leave
  <2> HIDE DEF h
  <2> QED
    BY <1>1, <1>2, <2>2, <2>3, AfterAdoption, Zenon
<1>5. CASE ChainAllowed(loc)
  <2> DEFINE g == Call("chained", loc, TRUE)
  <2>1. loc \in Nat /\ loc # 0 /\ cur = "main"
    BY <1>5, BoundAssumption DEF ChainAllowed, is_main_vbmeta, IInv, CallShape, TypeOK, call
  <2>2. g \in CallType /\ g.loc = loc /\ g.key = TRUE /\ g.ret = "OK" /\ g.flags = "none"
    BY <2>1, CallTyped, ZenonT(60) DEF Names
  <2> HIDE DEF g
  <2>3. /\ frame' \in [Calls -> CallType] /\ Main' = Main /\ Chain' = g
        /\ cur' = "chain" /\ pc' = "footer"
    BY <1>3, <1>5, <2>2, Zenon DEF IInv, TypeOK, g
  <2>4. TypeOK'
    BY <1>1, <2>3, Zenon DEF IInv, TypeOK, PCs, reading
  <2>5. CallShape'
    BY <1>1, <2>1, <2>2, <2>3, Zenon DEF IInv, CallShape
  <2>6. DataShape'
    BY <1>1, <2>1, <2>2, <2>3, Zenon DEF IInv, CallShape, DataShape
  <2>7. ResultShape'
    BY <1>1, <1>2, <2>1, <2>2, <2>3, Zenon DEF IInv, CallShape, ResultShape, call
  <2>8. ColourShape'
    BY <2>3, Zenon DEF ColourShape
  <2> QED
    BY <2>3, <2>4, <2>5, <2>6, <2>7, <2>8, Zenon DEF IInv
<1> QED
  BY <1>4, <1>5, Zenon

LEMMA OutStep == IInv /\ Out => IInv'
<1> SUFFICES ASSUME IInv, Out PROVE IInv'
  BY Zenon
<1>1. /\ call \in CallType /\ Main \in CallType /\ slot_data' = slot_data /\ pc = "out"
      /\ heap' \subseteq Nat /\ UNCHANGED <<reading, fresh, descriptors, faults>>
  BY Zenon DEF IInv, TypeOK, call, Out
<1>2. AllMatch' = AllMatch /\ AllSound' = AllSound
  BY <1>1, Zenon DEF AllMatch, AllSound, Sound, StoredIndex
<1>3. CASE cur = "main"
  <2>1. pc' = "slot_verify" /\ UNCHANGED <<cur, frame>>
    BY <1>3, Zenon DEF Out
  <2>2. TypeOK'
    BY <1>1, <2>1, Zenon DEF IInv, TypeOK, PCs, reading
  <2>3. CallShape'
    BY <1>1, <1>3, <2>1, Zenon DEF IInv, CallShape
  <2>4. DataShape'
    BY <1>1, <1>3, <2>1, Zenon DEF IInv, DataShape, Stops, reading
  <2>5. ResultShape'
    BY <1>1, <1>2, <1>3, <2>1, Zenon DEF IInv, ResultShape
  <2>6. ColourShape'
    BY <2>1, Zenon DEF ColourShape
  <2> QED
    BY <2>1, <2>2, <2>3, <2>4, <2>5, <2>6, Zenon DEF IInv
<1>4. CASE cur = "chain"
  <2> DEFINE h == [Main EXCEPT !.ret = Merge(Main.ret, Chain.ret)]
             k == Call("chained", 1, TRUE)
  <2>1. /\ Merge(Main.ret, Chain.ret) \in Results
        /\ Merge(Main.ret, Chain.ret) = "OK" => Main.ret = "OK" /\ Chain.ret = "OK"
    BY Zenon DEF Merge, IInv, TypeOK, CallType
  <2>2. h \in CallType /\ h.ret = Merge(Main.ret, Chain.ret) /\ h.loc = Main.loc
        /\ h.key = Main.key
        /\ h.adopted = Main.adopted /\ h.name = Main.name /\ h.flags = Main.flags
    BY <1>1, <2>1, ResultSet, Zenon
  <2>3. k \in CallType /\ k.loc = 1 /\ k.key = TRUE /\ k.flags = "none"
    BY CallTyped, ZenonT(60) DEF Names
  <2>4. Frames["chain"] = k /\ call = Chain
    BY <1>4, Zenon DEF Frames, call
  <2>5. /\ cur' = "main" /\ pc' \in {"descriptors", "out"}
        /\ frame' = [frame EXCEPT !["main"] = h, !["chain"] = k]
    BY <1>4, <2>4, Zenon DEF Out
  <2> HIDE DEF h, k
  <2>6. frame' \in [Calls -> CallType] /\ Main' = h /\ Chain' = k
    BY <2>2, <2>3, <2>5, Zenon DEF IInv, TypeOK
  <2>7. TypeOK'
    BY <1>1, <2>5, <2>6, Zenon DEF IInv, TypeOK, PCs, reading
  <2>8. CallShape'
    BY <1>4, <2>2, <2>3, <2>5, <2>6, SMTT(30) DEF IInv, CallShape
  <2>9. DataShape'
    BY <1>1, <1>4, <2>2, <2>5, <2>6, Zenon DEF IInv, CallShape, DataShape
  <2>10. ResultShape'
    BY <1>1, <1>2, <1>4, <2>1, <2>2, <2>5, <2>6, Zenon DEF IInv, CallShape, ResultShape
  <2>11. ColourShape'
    BY <2>5, Zenon DEF ColourShape
  <2> QED
    BY <2>5, <2>7, <2>8, <2>9, <2>10, <2>11, Zenon DEF IInv
<1> QED
  BY <1>3, <1>4, Zenon DEF IInv, TypeOK

------------------------------------------------------------------------------
\* The end of avb_slot_verify and its callers.

LEMMA SlotVerifyStep == IInv /\ SlotVerify => IInv'
<1> SUFFICES ASSUME IInv, SlotVerify PROVE IInv'
  BY Zenon
<1> DEFINE ret == Main.ret
<1>1. /\ Main \in CallType /\ ret \in Results /\ slot_data \in DataType /\ pc = "slot_verify"
      /\ UNCHANGED <<caller, allow, boot_state, cur, frame, fresh, bootimage, status, descriptors>>
      /\ cur = "main" /\ allow \in BOOLEAN
  BY Zenon DEF IInv, TypeOK, SlotVerify, CallType, CallShape
<1>2. result_should_continue(ret) /\ (allow \/ ret = "OK") => TopLevelAsserted
  <2> SUFFICES ASSUME result_should_continue(ret) /\ (allow \/ ret = "OK") PROVE TopLevelAsserted
    BY Zenon
  <2>1. ~Stops(ret)
    BY Zenon DEF Stops
  <2>2. Main.adopted
    BY <1>1, <2>1, Zenon DEF IInv, DataShape, CallType
  <2> QED
    BY <1>1, <2>2, Zenon DEF TopLevelAsserted, IInv, DataShape, CallShape
<1>3. /\ \/ pc' = "returned"
         \/ pc' = "assert_name" /\ UNCHANGED <<verify_result, out_data, heap, slot_data, faults>>
      /\ verify_result' \in Results /\ out_data' \in BOOLEAN
      /\ heap' \subseteq Nat /\ faults' \in Nat
      /\ slot_data' \in DataType /\ Images' = Images /\ Parts' = Parts
      /\ pc' = "returned" /\ verify_result' = "OK" => out_data' /\ ret = "OK" /\ Images # <<>>
  <2>1. CASE /\ ret # "OK" /\ UNCHANGED <<slot_data, faults>>
             /\ Return(ret, "fail") \/ Return(ret, "none")
    BY <1>1, <2>1, Zenon DEF Return, IInv, TypeOK
  <2>2. CASE /\ result_should_continue(ret) /\ (allow \/ ret = "OK")
             /\ \E r \in Outcomes, system \in BOOLEAN :
                  /\ Outcome(r)
                  /\ slot_data' = [slot_data EXCEPT !.cmdline =
                        IF slot_data.vbmeta_images[1].flags = "verification_disabled" /\ ~system
                        THEN "empty" ELSE "options"]
                  /\ IF r = "OK" THEN Return(ret, "hand_out") ELSE Return(r, "fail")
    <3>1. PICK r \in Outcomes, c \in {"empty", "options"} :
            /\ Outcome(r)
            /\ slot_data' = [slot_data EXCEPT !.cmdline = c]
            /\ IF r = "OK" THEN Return(ret, "hand_out") ELSE Return(r, "fail")
      BY <2>2, Zenon
    <3>2. slot_data' \in DataType /\ Images' = Images /\ Parts' = Parts
      BY <1>1, <3>1, Zenon DEF DataType
    <3>3. faults' \in Nat
      BY <3>1 DEF Outcome, IInv, TypeOK
    <3>4. Images # <<>>
      BY <1>2, <2>2, Zenon DEF TopLevelAsserted
    <3>5. r \in Results
      BY Zenon DEF Outcomes, Results, Fatal, Bearable
    <3>6. /\ pc' = "returned" /\ verify_result' \in Results /\ out_data' \in BOOLEAN
          /\ heap' \subseteq Nat
          /\ verify_result' = "OK" => out_data' /\ ret = "OK"
      BY <1>1, <3>1, <3>5, ZenonT(60) DEF Return, IInv, TypeOK
    <3> QED
      BY <3>2, <3>3, <3>4, <3>6, Zenon
  <2>3. ~result_should_continue(ret) => ret # "OK"
    BY Zenon DEF result_should_continue, Bearable
  <2>4. CASE pc' = "assert_name" /\ UNCHANGED <<verify_result, out_data, heap, slot_data, faults>>
    BY <1>1, <2>4, Zenon DEF IInv, TypeOK
  <2> QED
    BY <1>2, <2>1, <2>2, <2>3, <2>4, Zenon DEF SlotVerify
<1>4. AllMatch' = AllMatch /\ AllSound' = AllSound
  BY <1>3, Zenon DEF AllMatch, AllSound, Sound, StoredIndex
<1>5. TypeOK'
  BY <1>1, <1>3, Zenon DEF IInv, TypeOK, PCs
<1>6. CallShape'
  BY <1>1, <1>3, Zenon DEF IInv, CallShape
<1>7. DataShape'
  BY <1>1, <1>3, Zenon DEF IInv, DataShape
<1>8. ResultShape'
  BY <1>1, <1>3, <1>4, Zenon DEF IInv, ResultShape
<1>9. ColourShape'
  <2>1. Images # <<>> => Disabled' = (Main.flags = "verification_disabled")
    BY <1>1, <1>3, Zenon DEF Disabled, TopLevel, IInv, DataShape, CallType
  <2> QED
    BY <1>1, <1>3, <1>4, <2>1, Zenon DEF ColourShape, IInv, ResultShape
<1> QED
  BY <1>3, <1>5, <1>6, <1>7, <1>8, <1>9, Zenon DEF IInv

LEMMA LoadPartitionStep == IInv /\ LoadPartition => IInv'
<1> SUFFICES ASSUME IInv, LoadPartition PROVE IInv'
  BY Zenon
<1>1. /\ UNCHANGED <<caller, allow, cur, frame, slot_data, heap, fresh, out_data, verify_result,
                     descriptors, faults>>
      /\ pc = "returned" /\ pc' \in {"tos", "done"}
      /\ allow \in BOOLEAN /\ verify_result \in Results
  BY Zenon DEF IInv, TypeOK, LoadPartition
<1>2. PICK i \in DOMAIN Parts \union {0}, found \in BOOLEAN, tables \in BOOLEAN,
           state \in Green .. Red :
        /\ found => i \in DOMAIN Parts
        /\ bootimage' = IF found THEN Parts[i] ELSE NoImage
        /\ boot_state' = IF found /\ tables THEN get_avb_result(verify_result, state) ELSE Red
        /\ status' = IF found /\ tables THEN "SUCCESS" ELSE "ERROR"
  <2> DEFINE Entries(name) == {j \in DOMAIN Parts : Parts[j].name = name}
             result == out_data /\ Parts # <<>>
  <2>1. PICK i \in Entries(caller) \union {0}, acpi \in BOOLEAN, state \in Green .. Red :
          LET found == result /\ i # 0
              tables == ~UseAcpi \/ (Entries("acpi") # {} /\ acpi)
          IN /\ bootimage' = IF found THEN Parts[i] ELSE NoImage
             /\ boot_state' = IF found /\ tables THEN get_avb_result(verify_result, state)
                                                 ELSE Red
             /\ status' = IF found /\ tables THEN "SUCCESS" ELSE "ERROR"
    BY Zenon DEF LoadPartition
  <2> DEFINE found == result /\ i # 0
             tables == ~UseAcpi \/ (Entries("acpi") # {} /\ acpi)
  <2>2. found \in BOOLEAN /\ tables \in BOOLEAN /\ i \in DOMAIN Parts \union {0}
        /\ (found => i \in DOMAIN Parts)
    BY Zenon DEF IInv, TypeOK
  <2>3. /\ bootimage' = IF found THEN Parts[i] ELSE NoImage
        /\ boot_state' = IF found /\ tables THEN get_avb_result(verify_result, state) ELSE Red
        /\ status' = IF found /\ tables THEN "SUCCESS" ELSE "ERROR"
    BY <2>1, Zenon
  <2> HIDE DEF found, tables
  <2> QED
    BY <2>2, <2>3, Zenon
<1>3. /\ get_avb_result(verify_result, state) \in Green .. Red
      /\ get_avb_result(verify_result, state) < Orange => ~allow /\ verify_result = "OK"
  BY <1>1 DEF get_avb_result
<1>4. boot_state' \in Green .. Red /\ status' \in {"SUCCESS", "ERROR"}
  BY <1>2, <1>3
<1>5. AllMatch' = AllMatch /\ AllSound' = AllSound /\ Disabled' = Disabled
  BY <1>1, Zenon DEF AllMatch, AllSound, Sound, StoredIndex, Disabled, TopLevel
<1>6. TypeOK'
  BY <1>1, <1>4, Zenon DEF IInv, TypeOK, PCs
<1>7. CallShape'
  BY <1>1, Zenon DEF IInv, CallShape
<1>8. DataShape'
  BY <1>1, Zenon DEF IInv, DataShape
<1>9. ResultShape'
  BY <1>1, Zenon DEF ResultShape
<1>10. ColourShape'
  <2>1. status' = "SUCCESS" /\ boot_state' < Orange =>
          /\ ~allow /\ verify_result = "OK" /\ \E j \in DOMAIN Parts : bootimage' = Parts[j]
    BY <1>2, <1>3, Zenon
  <2> QED
    BY <1>1, <1>5, <2>1, Zenon DEF ColourShape, IInv
<1> QED
  BY <1>1, <1>6, <1>7, <1>8, <1>9, <1>10, Zenon DEF IInv

LEMMA TosStep == IInv /\ load_tos_image => IInv'
<1> SUFFICES ASSUME IInv, load_tos_image PROVE IInv'
  BY Zenon
<1>1. /\ UNCHANGED <<caller, allow, boot_state, cur, frame, slot_data, heap, fresh, out_data,
                     verify_result, bootimage, descriptors, faults>>
      /\ pc = "tos" /\ pc' = "done"
      /\ status' \in {status, "SECURITY_VIOLATION"}
  BY Zenon DEF load_tos_image
<1>2. AllMatch' = AllMatch /\ AllSound' = AllSound /\ Disabled' = Disabled
  BY <1>1, Zenon DEF AllMatch, AllSound, Sound, StoredIndex, Disabled, TopLevel
<1>3. TypeOK'
  BY <1>1, Zenon DEF IInv, TypeOK, PCs
<1>4. CallShape'
  BY <1>1, Zenon DEF IInv, CallShape
<1>5. DataShape'
  BY <1>1, Zenon DEF IInv, DataShape
<1>6. ResultShape'
  BY <1>1, Zenon DEF ResultShape
<1>7. ColourShape'
  BY <1>1, <1>2, Zenon DEF ColourShape, IInv
<1> QED
  BY <1>1, <1>3, <1>4, <1>5, <1>6, <1>7, Zenon DEF IInv

------------------------------------------------------------------------------

LEMMA StutterStep == IInv /\ UNCHANGED vars => IInv'
<1> SUFFICES ASSUME IInv, UNCHANGED vars PROVE IInv'
  BY Zenon
<1>1. AllMatch' = AllMatch /\ AllSound' = AllSound /\ Disabled' = Disabled
  BY Zenon DEF vars, AllMatch, AllSound, Sound, StoredIndex, Disabled, TopLevel
<1>2. TypeOK' /\ pc' # "assert"
  BY Zenon DEF IInv, vars, TypeOK
<1>3. CallShape'
  BY Zenon DEF IInv, vars, CallShape
<1>4. DataShape'
  BY Zenon DEF IInv, vars, DataShape, Stops
<1>5. ResultShape'
  BY <1>1, Zenon DEF IInv, vars, ResultShape, call, StoredIndex
<1>6. ColourShape'
  BY <1>1, Zenon DEF IInv, vars, ColourShape
<1> QED
  BY <1>2, <1>3, <1>4, <1>5, <1>6, Zenon DEF IInv

LEMMA NextInv == IInv /\ [Next]_vars => IInv'
  BY StartStep, FooterStep, ReadStep, VerifyStep, RollbackStep, AdoptStep, LoadStep, HashStep, ChainStep,
     CmdlineStep, PlainStep, EndStep, OutStep, SlotVerifyStep, LoadPartitionStep, TosStep,
     StutterStep, Zenon
  DEF Next

LEMMA Invariance == Spec => []IInv
  BY InitInv, NextInv, PTL DEF Spec

\* The variables keep to their types, whatever the images hold.
THEOREM AvbTypeCorrect == Spec => []TypeOK
<1>1. IInv => TypeOK
  BY Zenon DEF IInv
<1> QED
  BY <1>1, Invariance, PTL

\* The assert on the name of the top-level image is the one that can fail.
NameInv == pc = "assert_name" => Images # <<>> /\ Images[1].name = "null"

LEMMA NameStep == IInv /\ NameInv /\ [Next]_vars => NameInv'
<1> SUFFICES ASSUME IInv, NameInv, [Next]_vars, pc' = "assert_name"
             PROVE  Images' # <<>> /\ Images'[1].name = "null"
  BY Zenon DEF NameInv
<1>1. CASE UNCHANGED vars
  BY <1>1, Zenon DEF vars, NameInv
<1>2. CASE SlotVerify
  <2>1. /\ slot_data' = slot_data /\ TopLevelAsserted
        /\ ~(NamesRead \subseteq {"vbmeta", "boot"})
    BY <1>2, Zenon DEF SlotVerify, Return
  <2>2. Images # <<>> /\ Images[1].name \in {Main.name, "null"}
        /\ Main.name \in {"vbmeta", "boot"}
    BY <2>1, Zenon DEF TopLevelAsserted, IInv, TypeOK, CallType, DataShape, CallShape
  <2> QED
    BY <2>1, <2>2, Zenon DEF NamesRead
<1>3. ~StartVerify /\ ~ReadFooter /\ ~ReadVbmeta /\ ~VerifyVbmeta /\ ~CheckRollback
  BY Zenon DEF StartVerify, Return, ReadFooter, ReadVbmeta, VerifyVbmeta, CheckRollback,
     Leave, Proceed, Abort
<1>4. ~AdoptImage /\ ~LoadRequested /\ ~HashDescriptor /\ ~ChainDescriptor
  BY Zenon DEF AdoptImage, LoadRequested, HashDescriptor, ChainDescriptor, Leave, Proceed, Abort
<1>5. ~KernelCmdlineDescriptor /\ ~PlainDescriptor /\ ~InvalidDescriptor /\ ~EndDescriptors
  BY Zenon DEF KernelCmdlineDescriptor, PlainDescriptor, InvalidDescriptor, EndDescriptors,
     Leave, Proceed
<1>6. ~Out /\ ~LoadPartition /\ ~load_tos_image
  BY Zenon DEF Out, LoadPartition, load_tos_image
<1> QED
  BY <1>1, <1>2, <1>3, <1>4, <1>5, <1>6, Zenon DEF Next

\* No assert of avb_slot_verify.c fails, for any number of images, partitions,
\* locations, descriptors and failing reads, but the one on the partition of
\* the top-level image when its name could not be copied.
THEOREM AssertsNeverFail == Spec => []AssertionsHold
<1>1. Init => NameInv
  BY Zenon DEF Init, NameInv
<1>2. IInv /\ NameInv => AssertionsHold
  BY Zenon DEF IInv, NameInv, AssertionsHold, TopLevel
<1> QED
  BY <1>1, <1>2, NameStep, Invariance, PTL DEF Spec

\* AVB_SLOT_VERIFY_RESULT_OK vouches for every image and every partition that
\* avb_slot_verify returns.
THEOREM OkVouchesForAll == Spec => []OkMeansVerified
<1>1. IInv => OkMeansVerified
  BY Zenon DEF IInv, ColourShape, OkMeansVerified, AllSound, AllMatch
<1> QED
  BY <1>1, Invariance, PTL

\* A green or yellow boot of recovery or the trusted OS is a boot of verified
\* contents on a locked device.
THEOREM GoodColourVouches == Spec => []GoodColourMeansVerified
<1>1. IInv => GoodColourMeansVerified
  <2> SUFFICES ASSUME IInv, pc = "done", status = "SUCCESS", boot_state < Orange
               PROVE  /\ ~allow /\ Sound(TopLevel)
                      /\ bootimage.data = "matches" \/ Disabled
    BY Zenon DEF GoodColourMeansVerified
  <2>1. /\ ~allow /\ verify_result = "OK" /\ Images # <<>> /\ AllSound
        /\ Disabled \/ AllMatch
    BY Zenon DEF IInv, ColourShape
  <2>2. PICK i \in DOMAIN Parts : bootimage = Parts[i]
    BY Zenon DEF IInv, ColourShape
  <2>3. 1 \in DOMAIN Images
    <3>1. Images \in Seq(ImageType)
      BY Zenon DEF IInv, TypeOK, DataType
    <3> QED
      BY <2>1, <3>1, LenProperties, EmptySeq
  <2> QED
    BY <2>1, <2>2, <2>3, Zenon DEF AllSound, AllMatch, TopLevel
<1> QED
  BY <1>1, Invariance, PTL

------------------------------------------------------------------------------
\* Buffers.

\* What a call holds and has not handed over to slot_data.
Held(c) == ({c.outer} \union IF c.adopted THEN {} ELSE {c.buf}) \ {0}

\* Until the calls return, every buffer allocated has exactly one owner:
\* slot_data, the call for the top-level image or the one for a chained image.
Shared ==
  /\ heap = Owned \union Held(Main) \union Held(Chain)
  /\ Owned \intersect Held(Main) = {} /\ Owned \intersect Held(Chain) = {}
  /\ Held(Main) \intersect Held(Chain) = {}

BufInv ==
  /\ fresh # 0 /\ \A b \in heap : b # 0 /\ b < fresh
  /\ cur = "main" => Chain.buf = 0 /\ Chain.outer = 0
  /\ pc \in {"start", "footer", "read"} =>
       call.buf = 0 /\ ~call.adopted /\ (call.name = "vbmeta" => call.outer = 0)
  /\ pc = "start" => call.name = "vbmeta"
  /\ pc \in {"verify", "rollback", "adopt"} =>
       call.buf # 0 /\ ~call.adopted /\ call.outer # call.buf
  /\ ~Ended /\ pc \notin {"slot_verify", "assert_name"} => Shared
  /\ pc \in {"slot_verify", "assert_name"} => heap = Owned
  /\ ~Ended => ~out_data
  /\ Ended /\ (~allow \/ out_data) => heap = IF out_data THEN Owned ELSE {}

Reading == {"footer", "read"}
Checking == {"verify", "rollback", "adopt"}

\* A step that updates the active call and leaves the buffers to their owners.
LEMMA SameOwners ==
  ASSUME IInv, BufInv, ~Ended, pc \notin {"slot_verify", "assert_name"},
         UNCHANGED <<heap, fresh, cur, out_data>>,
         Owned' = Owned, NEW h, frame' = [frame EXCEPT ![cur] = h],
         h.outer = call.outer, h.buf = call.buf, h.adopted = call.adopted, h.name = call.name,
         pc' \in Reading => pc \in Reading,
         pc' \in Checking => pc \in Checking,
         pc' \notin {"start", "slot_verify", "assert_name", "returned", "tos", "done"}
  PROVE  BufInv'
<1>1. /\ cur = "main" => Main' = h /\ Chain' = Chain
      /\ cur = "chain" => Chain' = h /\ Main' = Main
      /\ frame'[cur] = h /\ cur \in Calls
  BY Zenon DEF IInv, TypeOK
<1>2. Held(Main)' = Held(Main) /\ Held(Chain)' = Held(Chain)
  BY <1>1, Zenon DEF Held, call
<1>3. Shared'
  BY <1>2, Zenon DEF Shared, BufInv
<1>4. call'.buf = call.buf /\ call'.outer = call.outer /\ call'.adopted = call.adopted
      /\ call'.name = call.name
  BY <1>1, Zenon DEF call
<1>5. cur' = "main" => Chain'.buf = 0 /\ Chain'.outer = 0
  BY <1>1, Zenon DEF BufInv
<1> QED BY <1>3, <1>4, <1>5, Zenon DEF BufInv, Reading, Checking

LEMMA ResultKeeps ==
  ASSUME NEW g \in CallType, NEW r
  PROVE  LET h == [g EXCEPT !.ret = r]
         IN /\ h.buf = g.buf /\ h.outer = g.outer /\ h.adopted = g.adopted /\ h.name = g.name
BY Zenon DEF CallType

LEMMA CallOk ==
  ASSUME IInv
  PROVE  call \in CallType /\ cur \in Calls /\ call.buf \in Nat /\ call.outer \in Nat
BY Zenon DEF IInv, TypeOK, call, CallType

\* "goto out" keeps the buffers with their owners.
LEMMA LeaveOwners ==
  ASSUME IInv, BufInv, ~Ended, pc \notin {"slot_verify", "assert_name"},
         UNCHANGED <<heap, fresh, cur, out_data>>,
         Owned' = Owned, NEW r, Leave(call, r)
  PROVE  BufInv'
<1> DEFINE h == [call EXCEPT !.ret = r]
<1>1. h.outer = call.outer /\ h.buf = call.buf /\ h.adopted = call.adopted /\ h.name = call.name
  BY CallOk, ResultKeeps, Zenon
<1>2. frame' = [frame EXCEPT ![cur] = h] /\ pc' = "out"
  BY Zenon DEF Leave
<1> HIDE DEF h
<1> QED BY <1>1, <1>2, SameOwners, Zenon DEF Reading, Checking

LEMMA FooterBuffers == IInv /\ BufInv /\ ReadFooter => BufInv'
<1> SUFFICES ASSUME IInv, BufInv, ReadFooter PROVE BufInv'
  BY Zenon
<1>1. pc = "footer" /\ UNCHANGED <<heap, fresh, cur, out_data, slot_data>>
  BY Zenon DEF ReadFooter, reading
<1>2. Owned' = Owned
  BY <1>1, Zenon DEF Owned
<1>3. Proceed(call, "read") \/ \E r : Leave(call, r)
  BY Zenon DEF ReadFooter
<1>4. CASE Proceed(call, "read")
  BY <1>1, <1>2, <1>4, SameOwners, Zenon DEF Proceed, Reading, Checking
<1>5. CASE \E r : Leave(call, r)
  BY <1>1, <1>2, <1>5, LeaveOwners, Zenon
<1> QED BY <1>3, <1>4, <1>5, Zenon

LEMMA VerifyBuffers == IInv /\ BufInv /\ IInv' /\ VerifyVbmeta => BufInv'
<1> SUFFICES ASSUME IInv, BufInv, IInv', VerifyVbmeta PROVE BufInv'
  BY Zenon
<1>1. pc = "verify" /\ UNCHANGED <<heap, fresh, cur, out_data, slot_data>>
  BY Zenon DEF VerifyVbmeta, reading
<1>2. Owned' = Owned
  BY <1>1, Zenon DEF Owned
<1>3. PICK sig \in Signatures, flags \in Flags, trusted \in BOOLEAN :
        LET r == header_result(sig, flags, trusted)
            g == [call EXCEPT !.sig = sig, !.flags = flags, !.trusted = trusted, !.ret = r]
        IN Leave(call, r) \/ Proceed(g, "rollback")
  BY ZenonT(60) DEF VerifyVbmeta, IInv, Abort
<1> DEFINE r == header_result(sig, flags, trusted)
           g == [call EXCEPT !.sig = sig, !.flags = flags, !.trusted = trusted, !.ret = r]
<1>4. CASE Leave(call, r)
  <2> HIDE DEF r
  <2> QED BY <1>1, <1>2, <1>4, LeaveOwners, Zenon
<1>5. CASE Proceed(g, "rollback")
  <2> HIDE DEF r
  <2>1. g.outer = call.outer /\ g.buf = call.buf /\ g.adopted = call.adopted /\ g.name = call.name
    BY CallOk, Zenon DEF CallType
  <2>2. frame' = [frame EXCEPT ![cur] = g] /\ pc' = "rollback"
    BY <1>5, Zenon DEF Proceed
  <2> HIDE DEF g
  <2> QED BY <1>1, <1>2, <2>1, <2>2, SameOwners, ZenonT(60) DEF Reading, Checking
<1> QED BY <1>3, <1>4, <1>5, Zenon

LEMMA RollbackBuffers == IInv /\ BufInv /\ CheckRollback => BufInv'
<1> SUFFICES ASSUME IInv, BufInv, CheckRollback PROVE BufInv'
  BY Zenon
<1>1. pc = "rollback" /\ UNCHANGED <<heap, fresh, cur, out_data, slot_data>>
  BY Zenon DEF CheckRollback, reading
<1>2. Owned' = Owned
  BY <1>1, Zenon DEF Owned
<1>3. PICK r \in {"OK", "IO"}, index \in Indexes :
        LET old == index < StoredIndex
            g == [call EXCEPT !.index = index, !.ret = IF old THEN "ROLLBACK_INDEX" ELSE @]
        IN Leave(call, r) \/ Leave(g, g.ret) \/ Proceed(g, "adopt")
  BY Zenon DEF CheckRollback
<1> DEFINE x == IF index < StoredIndex THEN "ROLLBACK_INDEX" ELSE call.ret
           g == [call EXCEPT !.index = index, !.ret = x]
           h == [g EXCEPT !.ret = g.ret]
<1>4. Leave(call, r) \/ Leave(g, g.ret) \/ Proceed(g, "adopt")
  BY <1>3, Zenon
<1> HIDE DEF x
<1>5. /\ g.outer = call.outer /\ g.buf = call.buf /\ g.adopted = call.adopted /\ g.name = call.name
      /\ h.outer = call.outer /\ h.buf = call.buf /\ h.adopted = call.adopted /\ h.name = call.name
  BY CallOk, Zenon DEF CallType
<1>6. CASE Leave(call, r)
  BY <1>1, <1>2, <1>6, LeaveOwners, Zenon
<1>7. CASE Leave(g, g.ret)
  <2>1. frame' = [frame EXCEPT ![cur] = h] /\ pc' = "out"
    BY <1>7, Zenon DEF Leave
  <2> HIDE DEF g, h
  <2> QED BY <1>1, <1>2, <1>5, <2>1, SameOwners, Zenon DEF Reading, Checking
<1>8. CASE Proceed(g, "adopt")
  <2>1. frame' = [frame EXCEPT ![cur] = g] /\ pc' = "adopt"
    BY <1>8, Zenon DEF Proceed
  <2> HIDE DEF g, h
  <2> QED BY <1>1, <1>2, <1>5, <2>1, SameOwners, Zenon DEF Reading, Checking
<1> QED BY <1>4, <1>6, <1>7, <1>8, Zenon

\* The active call allocates a buffer and holds on to it.
LEMMA BufferHeld ==
  ASSUME IInv, BufInv, pc = "read", heap' = heap \union {fresh}, fresh' = fresh + 1,
         UNCHANGED <<cur, out_data, slot_data>>, NEW h, frame' = [frame EXCEPT ![cur] = h],
         Held(h) = Held(call) \union {fresh}, pc' \in {"verify", "out", "footer"},
         pc' = "verify" => h.buf # 0 /\ ~h.adopted /\ h.outer # h.buf,
         pc' = "footer" => h.buf = 0 /\ ~h.adopted /\ h.name = "boot"
  PROVE  BufInv'
<1>1. /\ cur = "main" => Main' = h /\ Chain' = Chain
      /\ cur = "chain" => Chain' = h /\ Main' = Main
      /\ frame'[cur] = h /\ cur \in Calls /\ fresh \in Nat /\ heap \subseteq Nat
  BY Zenon DEF IInv, TypeOK
<1>2. Shared /\ fresh \notin heap
  BY <1>1, SMTT(30) DEF BufInv
<1>3. Owned' = Owned
  BY Zenon DEF Owned
<1>4. /\ cur = "main" => Held(Main)' = Held(Main) \union {fresh} /\ Held(Chain)' = Held(Chain)
      /\ cur = "chain" => Held(Chain)' = Held(Chain) \union {fresh} /\ Held(Main)' = Held(Main)
  BY <1>1, ZenonT(60) DEF Held, call
<1>5. Shared'
  <2>1. CASE cur = "main"
    <3>1. Held(Main)' = Held(Main) \union {fresh} /\ Held(Chain)' = Held(Chain)
      BY <1>4, <2>1, Zenon
    <3> QED BY <1>2, <1>3, <3>1, Zenon DEF Shared
  <2>2. CASE cur = "chain"
    <3>1. Held(Chain)' = Held(Chain) \union {fresh} /\ Held(Main)' = Held(Main)
      BY <1>4, <2>2, Zenon
    <3> QED BY <1>2, <1>3, <3>1, Zenon DEF Shared
  <2> QED BY <1>1, <2>1, <2>2, Zenon
<1>6. fresh' # 0 /\ \A x \in heap' : x # 0 /\ x < fresh'
  BY <1>1 DEF BufInv
<1>7. cur' = "main" => Chain'.buf = 0 /\ Chain'.outer = 0
  BY <1>1, Zenon DEF BufInv
<1>8. call' = h
  BY <1>1, Zenon DEF call
<1> QED BY <1>5, <1>6, <1>7, <1>8, Zenon DEF BufInv

LEMMA ReadBuffers == IInv /\ BufInv /\ ReadVbmeta => BufInv'
<1> SUFFICES ASSUME IInv, BufInv, ReadVbmeta PROVE BufInv'
  BY Zenon
<1>1. /\ pc = "read" /\ UNCHANGED <<cur, out_data, slot_data>>
      /\ call.buf = 0 /\ ~call.adopted /\ (call.name = "vbmeta" => call.outer = 0)
      /\ call \in CallType /\ fresh \in Nat /\ fresh # 0
  BY CallOk, Zenon DEF ReadVbmeta, reading, BufInv, IInv, TypeOK
<1>2. Owned' = Owned
  BY <1>1, Zenon DEF Owned
<1>o. call.outer # fresh
  <2>1. Held(call) \subseteq heap
    BY <1>1, CallOk, Zenon DEF BufInv, Shared, call
  <2>2. call.outer = 0 \/ call.outer \in heap
    BY <2>1, Zenon DEF Held
  <2> QED BY <1>1, <2>2 DEF BufInv
<1> DEFINE g == [call EXCEPT !.buf = fresh]
           f == [Call("boot", 0, FALSE) EXCEPT !.outer = fresh]
<1>3. \/ Leave(call, "OOM") /\ UNCHANGED <<heap, fresh>>
      \/ /\ heap' = heap \union {fresh} /\ fresh' = fresh + 1
         /\ \/ Proceed(g, "verify")
            \/ \E r \in Outcomes : Leave(g, r)
            \/ call.name = "vbmeta" /\ Proceed(f, "footer")
  BY Zenon DEF ReadVbmeta
<1>4. CASE Leave(call, "OOM") /\ UNCHANGED <<heap, fresh>>
  BY <1>1, <1>2, <1>4, LeaveOwners, Zenon
<1>5. CASE heap' = heap \union {fresh} /\ fresh' = fresh + 1 /\ Proceed(g, "verify")
  <2>1. g.buf = fresh /\ g.outer = call.outer /\ ~g.adopted
    BY <1>1, Zenon DEF CallType
  <2>2. Held(g) = Held(call) \union {fresh}
    BY <1>1, <2>1, Zenon DEF Held
  <2>3. frame' = [frame EXCEPT ![cur] = g] /\ pc' = "verify"
    BY <1>5, Zenon DEF Proceed
  <2> HIDE DEF g
  <2> QED BY <1>1, <1>o, <1>5, <2>1, <2>2, <2>3, BufferHeld, Zenon
<1>6. ASSUME heap' = heap \union {fresh}, fresh' = fresh + 1, NEW r \in Outcomes, Leave(g, r)
      PROVE  BufInv'
  <2> DEFINE h == [g EXCEPT !.ret = r]
  <2>1. h.buf = fresh /\ h.outer = call.outer /\ ~h.adopted
    BY <1>1, Zenon DEF CallType
  <2>2. Held(h) = Held(call) \union {fresh}
    BY <1>1, <2>1, Zenon DEF Held
  <2>3. frame' = [frame EXCEPT ![cur] = h] /\ pc' = "out"
    BY <1>6, Zenon DEF Leave
  <2> HIDE DEF g, h
  <2> QED BY <1>1, <1>6, <2>1, <2>2, <2>3, BufferHeld, Zenon
<1>7. CASE heap' = heap \union {fresh} /\ fresh' = fresh + 1
           /\ call.name = "vbmeta" /\ Proceed(f, "footer")
  <2>1. f.buf = 0 /\ f.outer = fresh /\ ~f.adopted /\ f.name = "boot"
    BY Zenon DEF Call
  <2>2. Held(f) = Held(call) \union {fresh}
    BY <1>1, <1>7, <2>1, Zenon DEF Held
  <2>3. frame' = [frame EXCEPT ![cur] = f] /\ pc' = "footer"
    BY <1>7, Zenon DEF Proceed
  <2> HIDE DEF f
  <2> QED BY <1>1, <1>7, <2>1, <2>2, <2>3, BufferHeld, Zenon
<1> HIDE DEF g, f
<1> QED BY <1>3, <1>4, <1>5, <1>6, <1>7, Zenon

\* Which buffers slot_data points to.
LEMMA AppendedValues ==
  ASSUME NEW S, NEW s \in Seq(S), NEW e \in S
  PROVE  {Append(s, e)[i].buf : i \in DOMAIN Append(s, e)} = {s[i].buf : i \in DOMAIN s} \union {e.buf}
<1>1. /\ Len(Append(s, e)) = Len(s) + 1 /\ Len(s) \in Nat
      /\ \A i \in 1 .. Len(s) : Append(s, e)[i] = s[i]
      /\ Append(s, e)[Len(s) + 1] = e
      /\ DOMAIN s = 1 .. Len(s) /\ DOMAIN Append(s, e) = 1 .. Len(Append(s, e))
  OBVIOUS
<1>2. DOMAIN Append(s, e) = DOMAIN s \union {Len(s) + 1}
  BY <1>1
<1> DEFINE t == Append(s, e)
<1> HIDE DEF t
<1>3. /\ \A i \in DOMAIN s : t[i] = s[i]
      /\ t[Len(s) + 1] = e /\ DOMAIN t = DOMAIN s \union {Len(s) + 1}
  BY <1>1, <1>2, Zenon DEF t
<1>4. {t[i].buf : i \in DOMAIN t} = {s[i].buf : i \in DOMAIN s} \union {e.buf}
  BY <1>3, ZenonT(60)
<1> QED BY <1>4, Zenon DEF t

LEMMA AdoptBuffers == IInv /\ BufInv /\ IInv' /\ AdoptImage => BufInv'
<1> SUFFICES ASSUME IInv, BufInv, IInv', AdoptImage PROVE BufInv'
  BY Zenon
<1>1. /\ pc = "adopt" /\ UNCHANGED <<heap, fresh, cur, out_data>>
      /\ call.buf # 0 /\ ~call.adopted /\ call \in CallType /\ cur \in Calls
      /\ Images \in Seq(ImageType)
  BY CallOk, Zenon DEF AdoptImage, reading, BufInv, IInv, TypeOK, DataType
<1> DEFINE g == [call EXCEPT !.adopted = TRUE]
<1>2. \/ Leave(call, "OOM") /\ UNCHANGED slot_data
      \/ /\ \E n \in BOOLEAN :
              slot_data' = [slot_data EXCEPT !.vbmeta_images = Append(Images, ImageEntry(n))]
         /\ \/ Proceed(g, "load") \/ Proceed(g, "descriptors")
            \/ \E r \in {"OK", "OOM"} : Leave(g, r)
  BY Zenon DEF AdoptImage, IInv, Abort
<1>3. CASE Leave(call, "OOM") /\ UNCHANGED slot_data
  <2>1. Owned' = Owned
    BY <1>3, Zenon DEF Owned
  <2> QED BY <1>1, <1>3, <2>1, LeaveOwners, Zenon
<1>4. CASE ~(Leave(call, "OOM") /\ UNCHANGED slot_data)
  <2>1. PICK h : /\ frame' = [frame EXCEPT ![cur] = h] /\ pc' \in {"load", "descriptors", "out"}
                 /\ h.outer = call.outer /\ h.adopted /\ h.buf = call.buf
    <3>1. g.outer = call.outer /\ g.adopted /\ g.buf = call.buf
      BY <1>1, Zenon DEF CallType
    <3>2. ASSUME NEW r
          PROVE  LET h == [g EXCEPT !.ret = r]
                 IN h.outer = call.outer /\ h.adopted /\ h.buf = call.buf
      BY <1>1, Zenon DEF CallType
    <3> HIDE DEF g
    <3> QED BY <1>2, <1>4, <3>1, <3>2, ZenonT(60) DEF Proceed, Leave
  <2>11. PICK n \in BOOLEAN :
           slot_data' = [slot_data EXCEPT !.vbmeta_images = Append(Images, ImageEntry(n))]
    BY <1>2, <1>4, Zenon
  <2> DEFINE image == ImageEntry(n)
  <2>2. image \in ImageType /\ image.buf = call.buf
    BY <1>1, EntryTyped, Zenon
  <2>3. Images' = Append(Images, image) /\ Parts' = Parts
    BY <2>11, Zenon DEF IInv, TypeOK, DataType
  <2> HIDE DEF image
  <2>4. {Images'[i].buf : i \in DOMAIN Images'} = {Images[i].buf : i \in DOMAIN Images} \union {call.buf}
    BY <1>1, <2>2, <2>3, AppendedValues, SMTT(30)
  <2>5. Owned' = Owned \union {call.buf}
    BY <2>3, <2>4, Zenon DEF Owned
  <2>6. /\ cur = "main" => Main' = h /\ Chain' = Chain
        /\ cur = "chain" => Chain' = h /\ Main' = Main
    BY <1>1, <2>1, Zenon DEF IInv, TypeOK
  <2>7. Held(h) = {call.outer} \ {0} /\ Held(call) = {call.outer, call.buf} \ {0}
    BY <1>1, <2>1, Zenon DEF Held
  <2>8. call.outer # call.buf
    BY <1>1, Zenon DEF BufInv
  <2>9. Shared'
    <3>1. CASE cur = "main"
      <4>1. Held(Main)' = Held(h) /\ Held(Chain)' = Held(Chain) /\ call = Main
        BY <2>6, <3>1, Zenon DEF Held, call
      <4> QED BY <1>1, <2>5, <2>7, <2>8, <4>1, ZenonT(60) DEF Shared, BufInv
    <3>2. CASE cur = "chain"
      <4>1. Held(Chain)' = Held(h) /\ Held(Main)' = Held(Main) /\ call = Chain
        BY <2>6, <3>2, Zenon DEF Held, call
      <4> QED BY <1>1, <2>5, <2>7, <2>8, <4>1, ZenonT(60) DEF Shared, BufInv
    <3> QED BY <1>1, <3>1, <3>2, Zenon
  <2>10. cur' = "main" => Chain'.buf = 0 /\ Chain'.outer = 0
    BY <1>1, <2>6, Zenon DEF BufInv
  <2> QED BY <1>1, <2>1, <2>9, <2>10, Zenon DEF BufInv
<1> QED BY <1>3, <1>4, Zenon

\* A loaded partition belongs to slot_data from the start.
LEMMA LoadedOwners ==
  ASSUME IInv, BufInv, pc \in {"load", "descriptors"}, UNCHANGED <<cur, out_data>>,
         NEW name, NEW data, Loaded(name, data),
         NEW h, frame' = [frame EXCEPT ![cur] = h],
         h.outer = call.outer, h.buf = call.buf, h.adopted = call.adopted, h.name = call.name,
         pc' \in {"load", "descriptors", "out"}
  PROVE  BufInv'
<1> DEFINE part == [name |-> name, data |-> data, buf |-> fresh]
           S == PartType \union {part}
<1>1. slot_data \in DataType /\ heap \subseteq Nat /\ fresh \in Nat
  BY Zenon DEF IInv, TypeOK
<1>2. /\ heap' = heap \union {fresh} /\ fresh' = fresh + 1
      /\ slot_data' = [slot_data EXCEPT !.loaded_partitions = Append(Parts, part)]
  BY Zenon DEF Loaded
<1>3. part.buf = fresh /\ part \in S
  BY Zenon
<1> HIDE DEF part
<1>4. Parts \in Seq(PartType) /\ Images' = Images /\ Parts' = Append(Parts, part)
  BY <1>1, <1>2, Zenon DEF DataType
<1>5. Parts \in Seq(S)
  BY <1>4, SMTT(30)
<1> HIDE DEF S
<1>6. {Parts'[i].buf : i \in DOMAIN Parts'} = {Parts[i].buf : i \in DOMAIN Parts} \union {fresh}
  BY <1>3, <1>4, <1>5, AppendedValues, SMTT(30)
<1>7. Owned' = Owned \union {fresh}
  BY <1>4, <1>6, Zenon DEF Owned
<1>8. /\ cur = "main" => Main' = h /\ Chain' = Chain
      /\ cur = "chain" => Chain' = h /\ Main' = Main
      /\ cur \in Calls
  BY Zenon DEF IInv, TypeOK
<1>9. Held(Main)' = Held(Main) /\ Held(Chain)' = Held(Chain)
  BY <1>8, Zenon DEF Held, call
<1>10. Shared /\ fresh \notin heap
  BY <1>1 DEF BufInv
<1>11. Shared'
  BY <1>2, <1>7, <1>9, <1>10, Zenon DEF Shared
<1>12. fresh' # 0 /\ \A x \in heap' : x # 0 /\ x < fresh'
  BY <1>1, <1>2 DEF BufInv
<1>13. cur' = "main" => Chain'.buf = 0 /\ Chain'.outer = 0
  BY <1>8, Zenon DEF BufInv
<1> QED BY <1>11, <1>12, <1>13, Zenon DEF BufInv

LEMMA PartBuffers == IInv /\ BufInv /\ (LoadRequested \/ HashDescriptor) => BufInv'
<1> SUFFICES ASSUME IInv, BufInv, LoadRequested \/ HashDescriptor PROVE BufInv'
  BY Zenon
<1>1. pc \in {"load", "descriptors"} /\ UNCHANGED <<cur, out_data>> /\ call \in CallType
  BY CallOk, Zenon DEF LoadRequested, HashDescriptor, NextDescriptor, reading
<1>2. NothingLoaded \/ \E name, data : Loaded(name, data)
  BY Zenon DEF LoadRequested, HashDescriptor
<1>3. /\ pc' \in {"load", "descriptors", "out"} /\ (pc' = "load" => pc = "load")
      /\ \/ frame' = [frame EXCEPT ![cur] = call]
         \/ \E r : frame' = [frame EXCEPT ![cur] = [call EXCEPT !.ret = r]]
  <2>1. CASE LoadRequested
    BY <2>1, Zenon DEF LoadRequested, Leave, Proceed
  <2>2. CASE HashDescriptor
    BY <2>2, Zenon DEF HashDescriptor, Leave, Proceed
  <2> QED BY <2>1, <2>2, Zenon
<1>4. PICK h : /\ frame' = [frame EXCEPT ![cur] = h] /\ h.outer = call.outer /\ h.buf = call.buf
               /\ h.adopted = call.adopted /\ h.name = call.name
  BY <1>1, <1>3, ResultKeeps, ZenonT(60)
<1>5. CASE NothingLoaded
  <2>1. UNCHANGED <<heap, fresh>> /\ Owned' = Owned
    BY <1>5, Zenon DEF NothingLoaded, Owned
  <2> QED BY <1>1, <1>3, <1>4, <2>1, SameOwners, Zenon DEF Reading, Checking
<1>6. CASE \E name, data : Loaded(name, data)
  BY <1>1, <1>3, <1>4, <1>6, LoadedOwners, Zenon
<1> QED BY <1>2, <1>5, <1>6, Zenon

LEMMA DescriptorBuffers ==
  IInv /\ BufInv /\ (KernelCmdlineDescriptor \/ PlainDescriptor \/ InvalidDescriptor
                      \/ EndDescriptors) => BufInv'
<1> SUFFICES ASSUME IInv, BufInv, \/ KernelCmdlineDescriptor \/ PlainDescriptor
                                  \/ InvalidDescriptor \/ EndDescriptors
             PROVE  BufInv'
  BY Zenon
<1>1. pc = "descriptors" /\ UNCHANGED <<heap, fresh, cur, out_data>>
  BY Zenon DEF KernelCmdlineDescriptor, PlainDescriptor, InvalidDescriptor, EndDescriptors,
     NextDescriptor, NothingLoaded, reading
<1>2. Images' = Images /\ Parts' = Parts
  <2>1. \/ slot_data' = slot_data \/ slot_data' = [slot_data EXCEPT !.cmdline = "snippets"]
        \/ slot_data' = [slot_data EXCEPT !.rollback_indexes[call.loc] = call.index]
    BY Zenon DEF KernelCmdlineDescriptor, PlainDescriptor, InvalidDescriptor, EndDescriptors, NothingLoaded
  <2> QED BY <2>1, Zenon DEF IInv, TypeOK, DataType
<1>3. Owned' = Owned
  BY <1>2, Zenon DEF Owned
<1>4. Proceed(call, "descriptors") \/ \E r : Leave(call, r)
  BY Zenon DEF KernelCmdlineDescriptor, PlainDescriptor, InvalidDescriptor, EndDescriptors
<1>5. CASE Proceed(call, "descriptors")
  BY <1>1, <1>3, <1>5, SameOwners, Zenon DEF Proceed, Reading, Checking
<1>6. CASE \E r : Leave(call, r)
  BY <1>1, <1>3, <1>6, LeaveOwners, Zenon
<1> QED BY <1>4, <1>5, <1>6, Zenon

LEMMA ChainBuffers == IInv /\ BufInv /\ ChainDescriptor => BufInv'
<1> SUFFICES ASSUME IInv, BufInv, ChainDescriptor PROVE BufInv'
  BY Zenon
<1>1. pc = "descriptors" /\ UNCHANGED <<heap, fresh, out_data, slot_data>>
  BY Zenon DEF ChainDescriptor, reading
<1>2. Owned' = Owned
  BY <1>1, Zenon DEF Owned
<1>3. PICK loc \in 0 .. MaxLocations :
        IF ~ChainAllowed(loc)
        THEN Leave(call, "INVALID_METADATA") /\ UNCHANGED cur
        ELSE /\ cur' = "chain"
             /\ frame' = [frame EXCEPT !["chain"] = Call("chained", loc, TRUE)]
             /\ pc' = "footer"
  BY Zenon DEF ChainDescriptor
<1>4. CASE ~ChainAllowed(loc)
  BY <1>1, <1>2, <1>3, <1>4, LeaveOwners, Zenon
<1>5. CASE ChainAllowed(loc)
  <2> DEFINE h == Call("chained", loc, TRUE)
  <2>1. h.outer = 0 /\ h.buf = 0 /\ h.adopted = FALSE /\ h.name = "chained"
    BY Zenon DEF Call
  <2>2. cur = "main"
    BY <1>5, Zenon DEF ChainAllowed, is_main_vbmeta, IInv, CallShape, call, TypeOK
  <2> HIDE DEF h
  <2>3. cur' = "chain" /\ pc' = "footer" /\ frame' = [frame EXCEPT !["chain"] = h]
    BY <1>3, <1>5, Zenon DEF h
  <2>4. Main' = Main /\ Chain' = h /\ call' = h
    BY <2>3, Zenon DEF IInv, TypeOK, call
  <2>5. Held(Main)' = Held(Main) /\ Held(Chain)' = {} /\ Held(Chain) = {}
    BY <2>1, <2>2, <2>4, Zenon DEF Held, BufInv
  <2>6. Shared'
    BY <1>1, <1>2, <2>5, Zenon DEF Shared, BufInv
  <2> QED BY <1>1, <2>1, <2>3, <2>4, <2>6, Zenon DEF BufInv
<1> QED BY <1>4, <1>5, Zenon

LEMMA OutBuffers == IInv /\ BufInv /\ Out => BufInv'
<1> SUFFICES ASSUME IInv, BufInv, Out PROVE BufInv'
  BY Zenon
<1>1. pc = "out" /\ UNCHANGED <<fresh, out_data, slot_data>> /\ heap' = heap \ Freed
      /\ call \in CallType /\ cur \in Calls
  BY CallOk, Zenon DEF Out, reading
<1>2. Owned' = Owned
  BY <1>1, Zenon DEF Owned
<1>3. Shared /\ Held(call) = Freed \ {0} /\ 0 \notin heap
  BY <1>1, Zenon DEF BufInv, Held, Freed
<1>4. fresh' # 0 /\ \A x \in heap' : x # 0 /\ x < fresh'
  BY <1>1, Zenon DEF BufInv
<1>5. CASE cur = "chain"
  <2>1. cur' = "main" /\ pc' \in {"descriptors", "out"}
    BY <1>5, Zenon DEF Out
  <2>2. /\ Main'.outer = Main.outer /\ Main'.buf = Main.buf /\ Main'.adopted = Main.adopted
        /\ Chain' = Call("chained", 1, TRUE)
    <3> DEFINE m == [Main EXCEPT !.ret = Merge(@, call.ret)]
    <3>1. Main \in CallType /\ frame \in [Calls -> CallType]
      BY Zenon DEF IInv, TypeOK
    <3>2. m.outer = Main.outer /\ m.buf = Main.buf /\ m.adopted = Main.adopted
      BY <3>1, Zenon DEF CallType
    <3>3. Main' = m /\ Chain' = Frames["chain"]
      BY <1>5, <3>1, Zenon DEF Out
    <3>4. Frames["chain"] = Call("chained", 1, TRUE)
      BY Zenon DEF Frames
    <3> QED BY <3>2, <3>3, <3>4, Zenon
  <2>3. Chain'.outer = 0 /\ Chain'.buf = 0 /\ Chain'.adopted = FALSE
    BY <2>2 DEF Call
  <2>4. Held(Main)' = Held(Main) /\ Held(Chain)' = {} /\ call = Chain
    BY <1>5, <2>2, <2>3, Zenon DEF Held, call
  <2>5. Shared'
    BY <1>1, <1>2, <1>3, <2>4, Zenon DEF Shared
  <2> QED BY <1>1, <1>4, <2>1, <2>3, <2>5, Zenon DEF BufInv
<1>6. CASE cur = "main"
  <2>1. pc' = "slot_verify" /\ UNCHANGED <<cur, frame>>
    BY <1>6, Zenon DEF Out
  <2>2. Held(Chain) = {} /\ call = Main
    BY <1>6, Zenon DEF BufInv, Held, call
  <2>3. heap' = Owned'
    BY <1>1, <1>2, <1>3, <2>2, Zenon DEF Shared
  <2> QED BY <1>1, <1>4, <1>6, <2>1, <2>3, Zenon DEF BufInv
<1> QED BY <1>1, <1>5, <1>6, Zenon

LEMMA EndBuffers == IInv /\ BufInv /\ IInv' /\ (StartVerify \/ SlotVerify) => BufInv'
<1> SUFFICES ASSUME IInv, BufInv, IInv', StartVerify \/ SlotVerify PROVE BufInv'
  BY Zenon
<1>1. pc \in {"start", "slot_verify"} /\ UNCHANGED <<allow, cur, frame, fresh>> /\ ~out_data
      /\ cur = "main"
  BY Zenon DEF StartVerify, SlotVerify, BufInv, IInv, CallShape
<1>2. heap = Owned
  <2>1. CASE pc = "start"
    <3>1. Held(Main) = {} /\ Held(Chain) = {}
      BY <1>1, <2>1, Zenon DEF BufInv, Held, call
    <3> QED BY <2>1, <3>1, Zenon DEF BufInv, Shared
  <2>2. CASE pc = "slot_verify"
    BY <2>2, Zenon DEF BufInv
  <2> QED BY <1>1, <2>1, <2>2, Zenon
<1>3. Images' = Images /\ Parts' = Parts
  <2>1. slot_data' = slot_data \/ \E c : slot_data' = [slot_data EXCEPT !.cmdline = c]
    BY Zenon DEF StartVerify, SlotVerify
  <2> QED BY <2>1, Zenon DEF IInv, TypeOK, DataType
<1>4. Owned' = Owned
  BY <1>3, Zenon DEF Owned
<1>5. CASE StartVerify /\ pc' = "read" /\ UNCHANGED <<out_data, heap>>
  <2>1. pc = "start"
    BY <1>5, Zenon DEF StartVerify
  <2>2. call' = call /\ Held(Main)' = Held(Main) /\ Held(Chain)' = Held(Chain)
    BY <1>1, Zenon DEF call
  <2>3. Shared'
    BY <1>4, <1>5, <2>1, <2>2, Zenon DEF Shared, BufInv
  <2> QED BY <1>1, <1>5, <2>1, <2>2, <2>3, Zenon DEF BufInv
<1>6. CASE \E r : Return(r, "fail") \/ Return(r, "hand_out") \/ (allow /\ Return(r, "none"))
  <2>1. pc' = "returned" /\ heap' \in {heap, heap \ Owned} /\ out_data' \in BOOLEAN
    BY <1>6, Zenon DEF Return
  <2>2. ~allow \/ out_data' => heap' = IF out_data' THEN Owned ELSE {}
    BY <1>2, <1>6, Zenon DEF Return
  <2>3. fresh' # 0 /\ \A x \in heap' : x # 0 /\ x < fresh'
    BY <1>1, <2>1, Zenon DEF BufInv
  <2> QED BY <1>1, <1>4, <2>1, <2>2, <2>3, Zenon DEF BufInv
<1>7. CASE pc' = "assert_name" /\ UNCHANGED <<out_data, heap>>
  <2>1. call' = call
    BY <1>1, Zenon DEF call
  <2> QED BY <1>1, <1>2, <1>4, <1>7, <2>1, Zenon DEF BufInv
<1> QED BY <1>5, <1>6, <1>7, Zenon DEF StartVerify, SlotVerify, IInv

LEMMA NextBuffers == IInv /\ BufInv /\ [Next]_vars => BufInv'
<1> SUFFICES ASSUME IInv, BufInv, [Next]_vars PROVE BufInv'
  BY Zenon
<1>1. IInv'
  BY NextInv, Zenon
<1>2. CASE LoadPartition \/ load_tos_image
  <2>1. Ended /\ Ended' /\ UNCHANGED <<allow, cur, frame, slot_data, heap, fresh, out_data>>
    BY <1>2, Zenon DEF LoadPartition, load_tos_image
  <2>2. Owned' = Owned
    BY <2>1, Zenon DEF Owned
  <2> QED BY <2>1, <2>2, Zenon DEF BufInv
<1>3. CASE UNCHANGED vars
  <2>1. UNCHANGED <<pc, allow, cur, frame, slot_data, heap, fresh, out_data>>
    BY <1>3, Zenon DEF vars
  <2>2. Owned' = Owned /\ call' = call /\ Held(Main)' = Held(Main) /\ Held(Chain)' = Held(Chain)
    BY <2>1, Zenon DEF Owned, call
  <2> QED BY <2>1, <2>2, Zenon DEF BufInv, Shared
<1> QED
  BY <1>1, <1>2, <1>3, FooterBuffers, ReadBuffers, VerifyBuffers, RollbackBuffers, AdoptBuffers,
     PartBuffers, DescriptorBuffers, ChainBuffers, OutBuffers, EndBuffers, Zenon
  DEF Next

LEMMA InitBuffers == Init => BufInv
<1> SUFFICES ASSUME Init PROVE BufInv
  BY Zenon
<1>1. Main = Call("vbmeta", 0, FALSE) /\ Chain = Call("chained", 1, TRUE) /\ call = Main
  BY Zenon DEF Init, Frames, call
<1>2. /\ Main.buf = 0 /\ Main.outer = 0 /\ Main.adopted = FALSE /\ Main.name = "vbmeta"
      /\ Chain.buf = 0 /\ Chain.outer = 0 /\ Chain.adopted = FALSE
  BY <1>1 DEF Call
<1>3. Held(Main) = {} /\ Held(Chain) = {}
  BY <1>2, Zenon DEF Held
<1>4. Images = <<>> /\ Parts = <<>>
  BY Zenon DEF Init, EmptyData
<1>5. Owned = {}
  BY <1>4 DEF Owned
<1>6. pc = "start" /\ heap = {} /\ fresh = 1 /\ out_data = FALSE
  BY Zenon DEF Init
<1>7. Shared
  BY <1>3, <1>5, <1>6, Zenon DEF Shared
<1>8. call.buf = 0 /\ ~call.adopted /\ call.outer = 0 /\ call.name = "vbmeta"
  BY <1>1, <1>2, Zenon
<1>9. fresh # 0 /\ \A x \in heap : x # 0 /\ x < fresh
  BY <1>6
<1> QED BY <1>2, <1>6, <1>7, <1>8, <1>9, Zenon DEF BufInv

\* Every buffer has one owner until it is freed, and a verification returns
\* nothing allocated but what it hands out, for any number of images,
\* partitions, descriptors and failing reads; the exception for a fatal error
\* on an unlocked device is part of the property.
THEOREM EveryBufferOwned == Spec => []BuffersOwned
<1>1. BufInv => BuffersOwned
  BY Zenon DEF BufInv, BuffersOwned, Shared
<1> QED
  BY <1>1, InitBuffers, NextBuffers, Invariance, PTL DEF Spec

=============================================================================
