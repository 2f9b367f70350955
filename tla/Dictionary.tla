----------------------------- MODULE Dictionary -----------------------------
(***************************************************************************)
(* What the LZMA decoder needs of its dictionary: a window over the last   *)
(* DictCap bytes since the last reset, and a queue of the bytes decoded    *)
(* but not read yet, which holds at most DictCap.  This is the dictionary  *)
(* a stream declares, as if it were allocated in full at once.             *)
(***************************************************************************)
EXTENDS Integers, Sequences

CONSTANTS Byte, DictCap, MaxMatchLen, MaxWrite

VARIABLES window, unread, res

Last(s, n) == IF Len(s) <= n THEN s ELSE SubSeq(s, Len(s) - n + 1, Len(s))
Space == DictCap - Len(unread)

Init == window = <<>> /\ unread = <<>> /\ res = <<"none">>

Put(s, r) ==
  /\ window' = Last(window \o s, DictCap)
  /\ unread' = unread \o s
  /\ res' = r

Refuse(r) == res' = r /\ UNCHANGED <<window, unread>>

WriteByte(c) == IF Space < 1 THEN Refuse(<<"nospace">>) ELSE Put(<<c>>, <<"ok">>)

(* As much of p as fits.                                                   *)
Write(p) ==
  LET n == IF Space < Len(p) THEN Space ELSE Len(p)
  IN  Put(SubSeq(p, 1, n), IF n < Len(p) THEN <<"nospace">> ELSE <<"ok">>)

(* The match repeats the last dist bytes of the window until it is as long *)
(* as asked.                                                               *)
writeMatch(dist, length) ==
  IF \/ length \notin 1 .. MaxMatchLen
     \/ dist \notin 1 .. Len(window)
  THEN Refuse(<<"corrupt">>)
  ELSE IF length > Space THEN Refuse(<<"nospace">>)
  ELSE Put([j \in 1 .. length |-> window[Len(window) - dist + 1 + ((j - 1) % dist)]],
           <<"ok">>)

Read(n) ==
  LET k == IF Len(unread) < n THEN Len(unread) ELSE n
  IN  /\ res' = <<"read", SubSeq(unread, 1, k)>>
      /\ unread' = SubSeq(unread, k + 1, Len(unread))
      /\ UNCHANGED window

(* The window is forgotten; what is unread stays readable.                 *)
Reset == window' = <<>> /\ res' = <<"none">> /\ UNCHANGED unread

Next ==
  \/ \E c \in Byte : WriteByte(c)
  \/ \E p \in UNION {[1 .. n -> Byte] : n \in 0 .. MaxWrite} : Write(p)
  \/ \E dist \in 0 .. DictCap + 1, length \in 0 .. MaxMatchLen + 1 :
        writeMatch(dist, length)
  \/ \E n \in 0 .. DictCap : Read(n)
  \/ Reset

Spec == Init /\ [][Next]_<<window, unread, res>>
=============================================================================
