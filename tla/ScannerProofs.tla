--------------------------- MODULE ScannerProofs ---------------------------
(***************************************************************************)
(* The scanner, proved for every stream, every size of the buffers and of  *)
(* the reads, and every pace of the loop that takes the tokens: it hands   *)
(* over the frames in order, each once and whole, all that have arrived    *)
(* before it ends, and it fails only in the two ways that Scanner names    *)
(* (Spec is that of Scanner).  At the end: which frames are written.       *)
(***************************************************************************)
EXTENDS FrameScanner, FiniteSetTheorems, SequenceTheorems, TLAPS

\* How many tokens were found.
Scanned == IF sc = "send" THEN emitted + 1 ELSE emitted

\* The token t is frame k, with at most one newline after it.
IsFrame(t, k) ==
    \E last \in {ends[k].nul, ends[k].nul + 1} : t = <<ends[k].first, last>>

\* Every counter and offset is a number.
NumbersOK ==
    /\ nread \in Nat /\ start \in Nat /\ off \in Nat /\ size \in Nat /\ emitted \in Nat
    /\ moved \in BOOLEAN

\* The frames found are those that begin in what was consumed, and they end there.
ConsumedOK ==
    /\ Scanned <= Len(ends)
    /\ \A k \in 1 .. Len(ends) : IF k <= Scanned THEN ends[k].nul <= start ELSE start < ends[k].first

\* A token is in the hands of the scanner and of the loop only as long as they say so.
TokensOK ==
    /\ sc = "send" => IsFrame(tok, emitted + 1)
    /\ cons = "decode" => emitted \in 1 .. Len(ends) /\ IsFrame(held, emitted)

\* The scanner asks for more, and ends, only when no whole frame is left.
NothingWhole ==
    sc \in {"fill", "read", "closed"} =>
        \A k \in 1 .. Len(ends) : Scanned < k => nread < ends[k].nul

\* An error of the splitter or of the buffer ends the scanner at once; after the end of
\* the stream nothing is read.
ErrorsOK ==
    /\ sc \in {"fill", "read"} => err = ""
    /\ err \in {"split", "too long"} => sc = "closed"

ScannerInv ==
    /\ Layout /\ NumbersOK /\ WireTypeOK
    /\ ConsumedOK /\ TokensOK /\ NothingWhole /\ ErrorsOK
    /\ StopsOnlyMidHead /\ TooLongNeeds

----------------------------------------------------------------------------
\* The layout, in the form in which the proofs use it.
LEMMA FramesOf ==
    ASSUME Layout
    PROVE  /\ total \in Nat /\ Len(ends) \in Nat /\ DOMAIN ends = 1 .. Len(ends)
           /\ \A k \in 1 .. Len(ends) :
                /\ ends[k].first \in Nat /\ ends[k].blank \in Nat /\ ends[k].nul \in Nat
                /\ 0 < ends[k].first /\ ends[k].first < ends[k].blank
                /\ ends[k].blank < ends[k].nul /\ ends[k].nul <= total
           /\ \A j, k \in 1 .. Len(ends) : j < k => ends[j].nul < ends[k].first
<1>1. ends \in Seq([first : Nat, blank : Nat, nul : Nat]) /\ total \in Nat
  BY DEF Layout
<1>2. Len(ends) \in Nat /\ DOMAIN ends = 1 .. Len(ends)
  BY <1>1
<1>3. \A k \in 1 .. Len(ends) : ends[k] \in [first : Nat, blank : Nat, nul : Nat]
  BY <1>1, ElementOfSeq
<1> QED BY <1>1, <1>2, <1>3 DEF Layout

\* No action changes the stream.
LEMMA LayoutKept ==
    ASSUME Layout, UNCHANGED streamVars
    PROVE  Layout'
  BY DEF Layout, streamVars

\* Where a token ends: after the NUL or one symbol further, which was read, and before
\* the next frame.
LEMMA TokenLastIs ==
    ASSUME Layout, nread \in Nat, NEW k \in 1 .. Len(ends), ends[k].nul <= nread
    PROVE  /\ TokenLast(k) \in {ends[k].nul, ends[k].nul + 1}
           /\ TokenLast(k) <= nread
           /\ \A j \in 1 .. Len(ends) : k < j => TokenLast(k) < ends[j].first
<1>1. \A j \in 1 .. Len(ends) : k < j => ends[k].nul < ends[j].first
  BY FramesOf
<1>2. ends[k].nul \in Nat /\ \A j \in 1 .. Len(ends) : ends[j].first \in Nat
  BY FramesOf
<1>3. CASE ends[k].nul + 1 <= nread /\ \A j \in DOMAIN ends : ends[j].first # ends[k].nul + 1
  <2>1. TokenLast(k) = ends[k].nul + 1
    BY <1>3 DEF TokenLast
  <2>2. \A j \in 1 .. Len(ends) : ends[j].first # ends[k].nul + 1
    BY <1>3, FramesOf
  <2> QED BY <2>1, <2>2, <1>1, <1>2, <1>3
<1>4. CASE ~(ends[k].nul + 1 <= nread /\ \A j \in DOMAIN ends : ends[j].first # ends[k].nul + 1)
  <2>1. TokenLast(k) = ends[k].nul
    BY <1>4 DEF TokenLast
  <2> QED BY <2>1, <1>1, <1>2
<1> QED BY <1>3, <1>4

\* In the first state nothing was read.
LEMMA ScannerStarts ==
    ASSUME Init
    PROVE  ScannerInv
<1>1. Layout /\ Len(ends) \in Nat /\ DOMAIN ends = 1 .. Len(ends) /\ total \in Nat
  BY FramesOf DEF Init
<1>2. \A k \in 1 .. Len(ends) : 0 < ends[k].first /\ 0 < ends[k].nul
  <2>1. \A k \in 1 .. Len(ends) :
            /\ ends[k].first \in Nat /\ ends[k].blank \in Nat /\ ends[k].nul \in Nat
            /\ 0 < ends[k].first /\ ends[k].first < ends[k].blank /\ ends[k].blank < ends[k].nul
    BY <1>1, FramesOf
  <2> QED BY <2>1
<1>3. NumbersOK
  BY DEF Init, NumbersOK
<1>4. WireTypeOK
  <2>1. 0 <= MaxToken /\ 0 <= total /\ 0 <= Len(ends)
    BY <1>1, ScannerAssumption
  <2>2. sc = "fill" /\ err = "" /\ cons = "recv" /\ held = <<>> /\ moved = FALSE
    BY DEF Init
  <2>5. nread = 0 /\ start = 0 /\ off = 0 /\ size = 0 /\ emitted = 0
    BY DEF Init
  <2>3. /\ 0 <= start /\ start <= nread /\ nread <= total
        /\ 0 <= off /\ off + (nread - start) <= size /\ size <= MaxToken /\ emitted <= Len(ends)
    BY <2>1, <2>5
  <2>4. (held # <<>>) = (cons = "decode")
    BY <2>2
  <2>6. moved => cons = "decode"
    BY <2>2, Zenon
  <2> QED BY <2>2, <2>3, <2>4, <2>6, Zenon DEF WireTypeOK
<1>5. ConsumedOK
  <2>1. Scanned = 0 /\ start = 0
    BY DEF Init, Scanned
  <2>2. \A k \in 1 .. Len(ends) : ~(k <= 0)
    BY <1>1
  <2> QED BY <2>1, <2>2, <1>1, <1>2 DEF ConsumedOK
<1>6. TokensOK /\ ErrorsOK /\ StopsOnlyMidHead /\ TooLongNeeds
  BY DEF Init, TokensOK, ErrorsOK, StopsOnlyMidHead, TooLongNeeds
<1>7. NothingWhole
  BY <1>1, <1>2 DEF Init, NothingWhole
<1> QED BY <1>1, <1>3, <1>4, <1>5, <1>6, <1>7 DEF ScannerInv
----------------------------------------------------------------------------
\* A whole frame is found, and consumed with the newline after it.
LEMMA TokenKeeps ==
    ASSUME ScannerInv, sc = "split", emitted + 1 <= Len(ends), ends[emitted + 1].nul <= nread,
           tok' = <<ends[emitted + 1].first, TokenLast(emitted + 1)>>,
           start' = TokenLast(emitted + 1), off' = off + (TokenLast(emitted + 1) - start),
           sc' = "send", UNCHANGED <<streamVars, nread, size, err, emitted, consVars>>
    PROVE  ScannerInv'
<1> DEFINE k == emitted + 1
           last == TokenLast(k)
<1>u. /\ ends' = ends /\ total' = total /\ nread' = nread /\ size' = size /\ err' = err
      /\ emitted' = emitted /\ cons' = cons /\ held' = held /\ moved' = moved
  BY DEF streamVars, consVars
<1>l. Layout /\ NumbersOK /\ WireTypeOK /\ ConsumedOK /\ TokensOK /\ ErrorsOK
  BY DEF ScannerInv
<1>n. nread \in Nat /\ start \in Nat /\ off \in Nat /\ size \in Nat /\ emitted \in Nat /\ Len(ends) \in Nat
  BY <1>l, FramesOf DEF NumbersOK
<1>k. k \in 1 .. Len(ends)
  BY <1>n
<1>f. \A j \in 1 .. Len(ends) :
        /\ ends[j].first \in Nat /\ ends[j].nul \in Nat /\ ends[j].first < ends[j].nul
  <2>1. \A j \in 1 .. Len(ends) :
            /\ ends[j].first \in Nat /\ ends[j].blank \in Nat /\ ends[j].nul \in Nat
            /\ ends[j].first < ends[j].blank /\ ends[j].blank < ends[j].nul
    BY <1>l, FramesOf
  <2> QED BY <2>1
<1>t. /\ last \in {ends[k].nul, ends[k].nul + 1} /\ last <= nread /\ last \in Nat
      /\ \A j \in 1 .. Len(ends) : k < j => last < ends[j].first
  <2>1. ends[k].nul <= nread
    OBVIOUS
  <2>2. /\ last \in {ends[k].nul, ends[k].nul + 1} /\ last <= nread
        /\ \A j \in 1 .. Len(ends) : k < j => last < ends[j].first
    BY <2>1, <1>l, <1>n, <1>k, TokenLastIs
  <2> QED BY <2>2, <1>f, <1>k
<1>s. Scanned = emitted /\ Scanned' = k
  BY <1>u DEF Scanned
<1>b. start < ends[k].first /\ start < last
  <2>1. start < ends[k].first
    BY <1>s, <1>l, <1>k, <1>n DEF ConsumedOK
  <2> QED BY <2>1, <1>t, <1>f, <1>k, <1>n
<1>1. Layout'
  BY <1>l, LayoutKept
<1>2. NumbersOK'
  <2>1. off' \in Nat /\ start' \in Nat
    BY <1>b, <1>t, <1>n
  <2> QED BY <2>1, <1>u, <1>l, Zenon DEF NumbersOK
<1>3. WireTypeOK'
  <2>1. 0 <= start' /\ start' <= nread' /\ 0 <= off' /\ off' + (nread' - start') <= size'
    <3>1. off + (nread - start) <= size
      BY <1>l DEF WireTypeOK
    <3> QED BY <3>1, <1>b, <1>t, <1>n, <1>u
  <2> QED BY <2>1, <1>u, <1>l, Zenon DEF WireTypeOK
<1>4. ConsumedOK'
  <2>1. Scanned' <= Len(ends')
    BY <1>s, <1>u
  <2>2. ASSUME NEW j \in 1 .. Len(ends), j <= k
        PROVE  ends[j].nul <= last
    <3>1. CASE j = k
      BY <3>1, <1>t, <1>f, <1>n
    <3>2. CASE j # k
      <4>1. j <= emitted
        BY <3>2, <2>2, <1>n
      <4>2. ends[j].nul <= start
        BY <4>1, <1>s, <1>l DEF ConsumedOK
      <4> QED BY <4>2, <1>b, <1>t, <1>f, <1>n
    <3> QED BY <3>1, <3>2
  <2>3. ASSUME NEW j \in 1 .. Len(ends), ~(j <= k)
        PROVE  last < ends[j].first
    BY <2>3, <1>t, <1>n
  <2> QED BY <2>1, <2>2, <2>3, <1>s, <1>u DEF ConsumedOK
<1>5. TokensOK'
  <2>1. IsFrame(tok, emitted + 1)'
    BY <1>t, <1>u DEF IsFrame
  <2>2. cons' = "decode" => emitted' \in 1 .. Len(ends') /\ IsFrame(held, emitted)'
    BY <1>l, <1>u DEF TokensOK, IsFrame
  <2> QED BY <2>1, <2>2 DEF TokensOK
<1>6. NothingWhole'
  BY DEF NothingWhole
<1>7. err # "split" /\ err # "too long"
  BY <1>l DEF ErrorsOK
<1>8. ErrorsOK' /\ StopsOnlyMidHead' /\ TooLongNeeds'
  BY <1>7, <1>u DEF ErrorsOK, StopsOnlyMidHead, TooLongNeeds
<1> QED BY <1>1, <1>2, <1>3, <1>4, <1>5, <1>6, <1>8 DEF ScannerInv

\* The splitter asks for more, or refuses the stream: no whole frame is left.
LEMMA NoTokenKeeps ==
    ASSUME ScannerInv, sc = "split", sc' \in {"fill", "closed"}, sc' = "fill" => err' = "",
           \A k \in 1 .. Len(ends) : emitted < k => nread < ends[k].nul,
           err' = err \/ (err' = "split" /\ sc' = "closed"),
           err' = "split" => \E k \in 1 .. Len(ends) : ends[k].first <= nread /\ nread < ends[k].blank,
           UNCHANGED <<streamVars, nread, size, tok, start, off, emitted, consVars>>
    PROVE  ScannerInv'
<1>u. /\ ends' = ends /\ total' = total /\ nread' = nread /\ size' = size /\ tok' = tok
      /\ start' = start /\ off' = off
      /\ emitted' = emitted /\ cons' = cons /\ held' = held /\ moved' = moved
  BY DEF streamVars, consVars
<1>l. Layout /\ NumbersOK /\ WireTypeOK /\ ConsumedOK /\ TokensOK /\ ErrorsOK
  BY DEF ScannerInv
<1>s. Scanned = emitted /\ Scanned' = emitted
  BY <1>u DEF Scanned
<1>e. err # "split" /\ err # "too long" /\ err' # "too long" /\ err' \in {"", "EOF", "split"}
  <2>1. err \in {"", "EOF", "split", "too long"}
    BY <1>l DEF WireTypeOK
  <2> QED BY <1>l, <2>1 DEF ErrorsOK
<1>1. Layout'
  BY <1>l, LayoutKept
<1>2. NumbersOK'
  BY <1>u, <1>l, Zenon DEF NumbersOK
<1>3. WireTypeOK'
  BY <1>e, <1>u, <1>l, Zenon DEF WireTypeOK
<1>4. ConsumedOK'
  BY <1>u, <1>s, <1>l DEF ConsumedOK
<1>5. TokensOK'
  BY <1>u, <1>l DEF TokensOK, IsFrame
<1>6. NothingWhole'
  BY <1>s, <1>u DEF NothingWhole
<1>7. ErrorsOK'
  BY <1>e DEF ErrorsOK
<1>8. StopsOnlyMidHead'
  <2>1. DOMAIN ends = 1 .. Len(ends)
    BY <1>l, FramesOf
  <2> QED BY <1>e, <1>u, <2>1 DEF StopsOnlyMidHead
<1>9. TooLongNeeds'
  BY <1>e DEF TooLongNeeds
<1> QED BY <1>1, <1>2, <1>3, <1>4, <1>5, <1>6, <1>7, <1>8, <1>9 DEF ScannerInv
\* A call of the splitter, by its answer.
LEMMA SplitKeeps ==
    ASSUME ScannerInv, ScanSplit(Verdict)
    PROVE  ScannerInv'
<1> DEFINE k == emitted + 1
<1>l. Layout /\ NumbersOK /\ WireTypeOK /\ ConsumedOK
  BY DEF ScannerInv
<1>n. nread \in Nat /\ start \in Nat /\ emitted \in Nat /\ Len(ends) \in Nat
  BY <1>l, FramesOf DEF NumbersOK
<1>f. \A j \in 1 .. Len(ends) :
        /\ ends[j].first \in Nat /\ ends[j].blank \in Nat /\ ends[j].nul \in Nat
        /\ ends[j].first < ends[j].blank /\ ends[j].blank < ends[j].nul
  BY <1>l, FramesOf
<1>o. \A j \in 1 .. Len(ends) : k < j => ends[k].nul < ends[j].first
  <2>1. \A i, j \in 1 .. Len(ends) : i < j => ends[i].nul < ends[j].first
    BY <1>l, FramesOf
  <2>2. ASSUME NEW j \in 1 .. Len(ends), k < j  PROVE k \in 1 .. Len(ends)
    BY <2>2, <1>n
  <2> QED BY <2>1, <2>2
<1>g. sc = "split"
  BY DEF ScanSplit
<1>r. err = "" \/ err = "EOF"
  <2>1. err \in {"", "EOF", "split", "too long"}
    BY <1>l DEF WireTypeOK
  <2>2. err # "split" /\ err # "too long"
    BY <1>g DEF ScannerInv, ErrorsOK
  <2> QED BY <2>1, <2>2
<1>1. CASE k > Len(ends) \/ nread < ends[k].first
  <2>1. Verdict = NeedMore
    BY <1>1 DEF Verdict
  <2>2. Verdict.kind = "more"
    BY <2>1 DEF NeedMore
  <2>3. /\ sc' = (IF err = "" THEN "fill" ELSE "closed")
        /\ UNCHANGED <<tok, start, off, err>>
        /\ UNCHANGED <<streamVars, nread, size, emitted, consVars>>
    BY <2>2 DEF ScanSplit
  <2>4. ASSUME NEW j \in 1 .. Len(ends), emitted < j
        PROVE  nread < ends[j].nul
    <3>1. k \in 1 .. Len(ends) /\ ~(k > Len(ends))
      BY <2>4, <1>n
    <3>2. nread < ends[k].first
      BY <1>1, <3>1
    <3>3. nread < ends[k].nul
      BY <3>1, <3>2, <1>f, <1>n
    <3>4. CASE j = k
      BY <3>3, <3>4
    <3>5. CASE j # k
      <4>1. k < j
        BY <3>5, <2>4, <1>n
      <4> QED BY <4>1, <3>1, <3>3, <1>o, <1>f, <1>n
    <3> QED BY <3>4, <3>5
  <2> QED BY <1>g, <1>r, <2>3, <2>4, NoTokenKeeps
<1>2. CASE ~(k > Len(ends) \/ nread < ends[k].first) /\ nread < ends[k].nul
  <2>k. k \in 1 .. Len(ends)
    BY <1>2, <1>n
  <2>4. ASSUME NEW j \in 1 .. Len(ends), emitted < j
        PROVE  nread < ends[j].nul
    <3>4. CASE j = k
      BY <1>2, <3>4
    <3>5. CASE j # k
      <4>1. k < j
        BY <3>5, <2>4, <1>n
      <4> QED BY <4>1, <2>k, <1>2, <1>o, <1>f, <1>n
    <3> QED BY <3>4, <3>5
  <2>5. CASE nread < ends[k].blank
    <3>1. Verdict = Bad
      BY <1>2, <2>5 DEF Verdict
    <3>2. Verdict.kind = "error"
      BY <3>1 DEF Bad
    <3>3. /\ err' = "split" /\ sc' = "closed"
          /\ UNCHANGED <<tok, start, off>>
          /\ UNCHANGED <<streamVars, nread, size, emitted, consVars>>
      BY <3>2 DEF ScanSplit
    <3>4. ends[k].first <= nread
      BY <1>2, <2>k, <1>f, <1>n
    <3>5. \E j \in 1 .. Len(ends) : ends[j].first <= nread /\ nread < ends[j].blank
      BY <2>k, <2>5, <3>4
    <3> QED BY <1>g, <3>3, <3>5, <2>4, NoTokenKeeps
  <2>6. CASE ~(nread < ends[k].blank)
    <3>1. Verdict = NeedMore
      BY <1>2, <2>6 DEF Verdict
    <3>2. Verdict.kind = "more"
      BY <3>1 DEF NeedMore
    <3>3. /\ sc' = (IF err = "" THEN "fill" ELSE "closed")
          /\ UNCHANGED <<tok, start, off, err>>
          /\ UNCHANGED <<streamVars, nread, size, emitted, consVars>>
      BY <3>2 DEF ScanSplit
    <3> QED BY <1>g, <1>r, <3>3, <2>4, NoTokenKeeps
  <2> QED BY <2>5, <2>6
<1>3. CASE ~(k > Len(ends) \/ nread < ends[k].first) /\ ~(nread < ends[k].nul)
  <2>k. k \in 1 .. Len(ends)
    BY <1>3, <1>n
  <2>1. ends[k].nul <= nread /\ ~(nread < ends[k].blank) /\ k <= Len(ends)
    BY <1>3, <2>k, <1>f, <1>n
  <2>2. Verdict = Token(ends[k].first - start, TokenLast(k) - start)
    BY <1>3, <2>1 DEF Verdict
  <2>3. /\ Verdict.kind = "token" /\ Verdict.first = ends[k].first - start
        /\ Verdict.last = TokenLast(k) - start
    BY <2>2 DEF Token
  <2>4. TokenLast(k) \in Nat
    <3>1. TokenLast(k) \in {ends[k].nul, ends[k].nul + 1}
      BY <1>l, <1>n, <2>k, <2>1, TokenLastIs
    <3> QED BY <3>1, <2>k, <1>f
  <2>5. /\ start + (ends[k].first - start) = ends[k].first
        /\ start + (TokenLast(k) - start) = TokenLast(k)
    BY <2>4, <2>k, <1>f, <1>n
  <2>6. /\ tok' = <<start + Verdict.first, start + Verdict.last>>
        /\ start' = start + Verdict.last /\ off' = off + Verdict.last
        /\ sc' = "send" /\ UNCHANGED err
        /\ UNCHANGED <<streamVars, nread, size, emitted, consVars>>
    BY <2>3 DEF ScanSplit
  <2>7. /\ tok' = <<ends[k].first, TokenLast(k)>>
        /\ start' = TokenLast(k) /\ off' = off + (TokenLast(k) - start)
    BY <2>3, <2>5, <2>6
  <2> QED BY <1>g, <2>1, <2>6, <2>7, TokenKeeps
<1> QED BY <1>1, <1>2, <1>3

----------------------------------------------------------------------------
\* Reading, and the end of the stream.

LEMMA ReadKeeps ==
    ASSUME ScannerInv, NEW k \in 1 .. MaxToken, Read(k)
    PROVE  ScannerInv'
<1>u. /\ ends' = ends /\ total' = total /\ size' = size /\ tok' = tok /\ err' = err
      /\ start' = start /\ off' = off /\ nread' = nread + k /\ sc = "read" /\ sc' = "split"
      /\ emitted' = emitted /\ cons' = cons /\ held' = held /\ moved' = moved
  BY DEF Read, streamVars, consVars
<1>l. Layout /\ NumbersOK /\ WireTypeOK /\ ConsumedOK /\ TokensOK /\ ErrorsOK
  BY DEF ScannerInv
<1>n. /\ nread \in Nat /\ start \in Nat /\ off \in Nat /\ size \in Nat /\ total \in Nat
      /\ k \in Nat
  BY <1>l, FramesOf, ScannerAssumption DEF NumbersOK
<1>s. Scanned = emitted /\ Scanned' = emitted
  BY <1>u DEF Scanned
<1>1. Layout'
  BY <1>l, <1>u, LayoutKept DEF streamVars
<1>2. NumbersOK'
  <2>1. nread' \in Nat
    BY <1>u, <1>n
  <2> QED BY <2>1, <1>u, <1>l, Zenon DEF NumbersOK
<1>3. WireTypeOK'
  <2>1. nread + k <= total /\ off + (nread - start) + k <= size
    BY DEF Read
  <2>2. start <= nread
    BY <1>l DEF WireTypeOK
  <2>3. start' <= nread' /\ nread' <= total' /\ off' + (nread' - start') <= size'
    BY <2>1, <2>2, <1>u, <1>n
  <2> QED BY <2>3, <1>u, <1>l, Zenon DEF WireTypeOK
<1>4. ConsumedOK'
  BY <1>u, <1>s, <1>l DEF ConsumedOK
<1>5. TokensOK'
  BY <1>u, <1>l DEF TokensOK, IsFrame
<1>6. NothingWhole'
  BY <1>u DEF NothingWhole
<1>7. err = ""
  BY <1>u, <1>l DEF ErrorsOK
<1>8. ErrorsOK' /\ StopsOnlyMidHead' /\ TooLongNeeds'
  BY <1>7, <1>u DEF ErrorsOK, StopsOnlyMidHead, TooLongNeeds
<1> QED BY <1>1, <1>2, <1>3, <1>4, <1>5, <1>6, <1>8 DEF ScannerInv

LEMMA ReadEOFKeeps ==
    ASSUME ScannerInv, ReadEOF
    PROVE  ScannerInv'
<1>u. /\ ends' = ends /\ total' = total /\ size' = size /\ tok' = tok /\ err' = "EOF"
      /\ start' = start /\ off' = off /\ nread' = nread /\ sc = "read" /\ sc' = "split"
      /\ emitted' = emitted /\ cons' = cons /\ held' = held /\ moved' = moved
  BY DEF ReadEOF, streamVars, bufVars, consVars
<1>l. Layout /\ NumbersOK /\ WireTypeOK /\ ConsumedOK /\ TokensOK
  BY DEF ScannerInv
<1>s. Scanned = emitted /\ Scanned' = emitted
  BY <1>u DEF Scanned
<1>1. Layout'
  BY <1>l, <1>u, LayoutKept DEF streamVars
<1>2. NumbersOK'
  BY <1>u, <1>l, Zenon DEF NumbersOK
<1>3. WireTypeOK'
  BY <1>u, <1>l, Zenon DEF WireTypeOK
<1>4. ConsumedOK'
  BY <1>u, <1>s, <1>l DEF ConsumedOK
<1>5. TokensOK'
  BY <1>u, <1>l DEF TokensOK, IsFrame
<1>6. NothingWhole' /\ ErrorsOK' /\ StopsOnlyMidHead' /\ TooLongNeeds'
  BY <1>u DEF NothingWhole, ErrorsOK, StopsOnlyMidHead, TooLongNeeds
<1> QED BY <1>1, <1>2, <1>3, <1>4, <1>5, <1>6 DEF ScannerInv
----------------------------------------------------------------------------
\* The buffer.

\* What shifting and growing do to the offset and the size, for a rest of any length.
LEMMA RoomIsMade ==
    ASSUME NEW rest \in Nat, off \in Nat, size \in Nat, off + rest <= size, size <= MaxToken,
           NEW from \in {0, off}, NEW newOff, NEW newSize,
           ~(from + rest = size /\ size >= MaxToken),
           newOff = IF from + rest = size THEN 0 ELSE from,
           newSize = IF ~(from + rest = size) THEN size
                     ELSE IF size = 0 THEN StartBuf
                     ELSE IF 2 * size > MaxToken THEN MaxToken ELSE 2 * size
    PROVE  newOff \in Nat /\ newSize \in Nat /\ newOff + rest <= newSize /\ newSize <= MaxToken
<1>1. StartBuf \in Nat /\ MaxToken \in Nat /\ StartBuf <= MaxToken
  BY ScannerAssumption
<1>2. from \in Nat /\ from + rest <= size
  OBVIOUS
<1>3. CASE ~(from + rest = size)
  BY <1>1, <1>2, <1>3
<1>4. CASE from + rest = size
  <2>1. newOff = 0 /\ rest <= size
    BY <1>2, <1>4
  <2>2. newSize \in Nat /\ size <= newSize /\ newSize <= MaxToken
    <3>1. CASE size = 0
      BY <1>1, <1>4, <3>1
    <3>2. CASE size # 0 /\ 2 * size > MaxToken
      BY <1>1, <1>4, <3>2
    <3>3. CASE size # 0 /\ ~(2 * size > MaxToken)
      BY <1>1, <1>4, <3>3
    <3> QED BY <3>1, <3>2, <3>3
  <2> QED BY <2>1, <2>2, <1>1
<1> QED BY <1>3, <1>4

\* A buffer that is full of the rest and may not grow: the rest is all of it.
LEMMA FullOfRest ==
    ASSUME NEW rest \in Nat, off \in Nat, size \in Nat, off + rest <= size, size <= MaxToken,
           NEW P, NEW from, from = IF off > 0 /\ (off + rest = size \/ P) THEN 0 ELSE off,
           from + rest = size, size >= MaxToken
    PROVE  from = 0 /\ rest = MaxToken
<1>1. MaxToken \in Nat
  BY ScannerAssumption
<1>2. size = MaxToken
  BY <1>1
<1>3. from = 0
  BY <1>1
<1> QED BY <1>1, <1>2, <1>3
\* The rest is shifted, the buffer grows, or the token is too long.
LEMMA FillKeeps ==
    ASSUME ScannerInv, ScanFill
    PROVE  ScannerInv'
<1> DEFINE rest == nread - start
           half == off > size \div 2
           shift == off > 0 /\ (off + rest = size \/ half)
           from == IF shift THEN 0 ELSE off
           full == from + rest = size
<1>u. /\ ends' = ends /\ total' = total /\ tok' = tok /\ sc = "fill"
      /\ start' = start /\ nread' = nread
      /\ emitted' = emitted /\ cons' = cons /\ held' = held
      /\ moved' = (moved \/ (shift /\ cons = "decode"))
  BY DEF ScanFill, streamVars
<1>f. IF full /\ size >= MaxToken
      THEN err' = "too long" /\ sc' = "closed" /\ off' = from /\ UNCHANGED size
      ELSE /\ sc' = "read" /\ UNCHANGED err
           /\ off' = IF full THEN 0 ELSE from
           /\ size' = IF ~full THEN size
                      ELSE IF size = 0 THEN StartBuf
                      ELSE IF 2 * size > MaxToken THEN MaxToken ELSE 2 * size
  BY Zenon DEF ScanFill
<1>l. Layout /\ NumbersOK /\ WireTypeOK /\ ConsumedOK /\ TokensOK /\ NothingWhole /\ ErrorsOK
  BY DEF ScannerInv
<1>n. /\ nread \in Nat /\ start \in Nat /\ off \in Nat /\ size \in Nat /\ total \in Nat
      /\ emitted \in Nat /\ Len(ends) \in Nat
  BY <1>l, FramesOf DEF NumbersOK
<1>w. off + rest <= size /\ size <= MaxToken /\ start <= nread /\ nread <= total
  BY <1>l DEF WireTypeOK
<1>r. rest \in Nat
  BY <1>n, <1>w
<1>m. from \in {0, off}
  OBVIOUS
<1>b. shift \in BOOLEAN /\ moved' \in BOOLEAN /\ (moved' => cons' = "decode")
  <2>1. moved => cons = "decode"
    BY <1>l DEF WireTypeOK
  <2> QED BY <1>u, <2>1, Zenon
<1>s. Scanned = emitted /\ (sc' # "send" => Scanned' = emitted)
  BY <1>u DEF Scanned
<1>1. Layout'
  BY <1>l, <1>u, LayoutKept DEF streamVars
<1>e. err = ""
  BY <1>u, <1>l DEF ErrorsOK
<1>v. \A k \in 1 .. Len(ends) : emitted < k => nread < ends[k].nul
  BY <1>u, <1>s, <1>l DEF NothingWhole
<1>2. CASE full /\ size >= MaxToken
  <2>1. err' = "too long" /\ sc' = "closed" /\ off' = from /\ size' = size
    BY <1>f, <1>2
  <2>2. from = 0 /\ rest = MaxToken
    <3>1. from = IF off > 0 /\ (off + rest = size \/ half) THEN 0 ELSE off
      OBVIOUS
    <3> HIDE DEF half, rest, from, shift
    <3>2. from + rest = size /\ size >= MaxToken
      BY <1>2
    <3> QED BY <1>r, <1>n, <1>w, <3>1, <3>2, FullOfRest
  <2>3. off' \in Nat /\ off' + (nread' - start') <= size'
    <3>1. off' = 0 /\ nread' - start' = rest /\ size' = size
      BY <2>1, <2>2, <1>u
    <3>2. 0 + rest = size
      BY <2>2, <1>2
    <3> HIDE DEF rest
    <3> QED BY <3>1, <3>2, <1>r, <1>n
  <2>4. Scanned' = emitted
    BY <2>1, <1>s
  <2>5. NumbersOK'
    BY <2>1, <2>3, <1>u, <1>b, <1>l, Zenon DEF NumbersOK
  <2>6. WireTypeOK'
    <3>1. 0 <= off'
      BY <2>3
    <3> QED BY <3>1, <2>1, <2>3, <1>u, <1>b, <1>l, Zenon DEF WireTypeOK
  <2>7. ConsumedOK'
    BY <2>4, <1>u, <1>s, <1>l DEF ConsumedOK
  <2>8. TokensOK'
    BY <2>1, <1>u, <1>l DEF TokensOK, IsFrame
  <2>9. NothingWhole'
    BY <2>4, <1>u, <1>v DEF NothingWhole
  <2>10. ErrorsOK' /\ StopsOnlyMidHead'
    BY <2>1 DEF ErrorsOK, StopsOnlyMidHead
  <2>11. TooLongNeeds'
    <3>0. MaxToken \in Nat /\ nread - start = MaxToken
      BY <2>2, ScannerAssumption
    <3>1. CASE emitted < Len(ends)
      <4>1. emitted + 1 \in 1 .. Len(ends) /\ emitted < emitted + 1
        BY <3>1, <1>n
      <4>2. nread < ends[emitted + 1].nul /\ ends[emitted + 1].nul \in Nat
        BY <4>1, <1>v, <1>l, FramesOf
      <4>3. ends[emitted + 1].nul - start > MaxToken
        BY <4>2, <3>0, <1>n
      <4> QED BY <4>3, <3>1, <1>u DEF TooLongNeeds
    <3>2. CASE ~(emitted < Len(ends))
      <4>1. total - start >= MaxToken
        BY <3>0, <1>n, <1>w
      <4> QED BY <4>1, <3>2, <1>u DEF TooLongNeeds
    <3> QED BY <3>1, <3>2
  <2> QED BY <1>1, <2>5, <2>6, <2>7, <2>8, <2>9, <2>10, <2>11 DEF ScannerInv
<1>3. CASE ~(full /\ size >= MaxToken)
  <2>1. /\ sc' = "read" /\ err' = err
        /\ off' = IF full THEN 0 ELSE from
        /\ size' = IF ~full THEN size
                   ELSE IF size = 0 THEN StartBuf
                   ELSE IF 2 * size > MaxToken THEN MaxToken ELSE 2 * size
    BY <1>f, <1>3
  <2>2. off' \in Nat /\ size' \in Nat /\ off' + rest <= size' /\ size' <= MaxToken
    <3> HIDE DEF half, shift, rest, from
    <3> QED BY <1>r, <1>n, <1>w, <1>m, <1>3, <2>1, RoomIsMade
  <2>3. 0 <= off' /\ off' + (nread' - start') <= size'
    BY <2>2, <1>u
  <2>4. Scanned' = emitted
    BY <2>1, <1>s
  <2>5. NumbersOK'
    BY <2>2, <1>u, <1>b, <1>l, Zenon DEF NumbersOK
  <2>6. WireTypeOK'
    BY <2>1, <2>2, <2>3, <1>u, <1>b, <1>l, Zenon DEF WireTypeOK
  <2>7. ConsumedOK'
    BY <2>4, <1>u, <1>s, <1>l DEF ConsumedOK
  <2>8. TokensOK'
    BY <2>1, <1>u, <1>l DEF TokensOK, IsFrame
  <2>9. NothingWhole'
    BY <2>4, <1>u, <1>v DEF NothingWhole
  <2>10. ErrorsOK' /\ StopsOnlyMidHead' /\ TooLongNeeds'
    BY <2>1, <1>e DEF ErrorsOK, StopsOnlyMidHead, TooLongNeeds
  <2> QED BY <1>1, <2>5, <2>6, <2>7, <2>8, <2>9, <2>10 DEF ScannerInv
<1> QED BY <1>2, <1>3

----------------------------------------------------------------------------
\* The channel and the loop.

LEMMA HandOverKeeps ==
    ASSUME ScannerInv, HandOver
    PROVE  ScannerInv'
<1>u. /\ ends' = ends /\ total' = total /\ size' = size /\ tok' = tok /\ err' = err
      /\ start' = start /\ off' = off /\ nread' = nread /\ sc = "send" /\ sc' = "split"
      /\ emitted' = emitted + 1 /\ cons' = "decode" /\ held' = tok /\ moved' = FALSE
  BY DEF HandOver, streamVars, bufVars
<1>l. Layout /\ NumbersOK /\ WireTypeOK /\ ConsumedOK /\ TokensOK /\ ErrorsOK
  BY DEF ScannerInv
<1>n. emitted \in Nat /\ Len(ends) \in Nat
  BY <1>l, FramesOf DEF NumbersOK
<1>s. Scanned = emitted + 1 /\ Scanned' = emitted + 1
  BY <1>u DEF Scanned
<1>e. emitted + 1 <= Len(ends)
  BY <1>s, <1>l DEF ConsumedOK
<1>t. IsFrame(tok, emitted + 1)
  BY <1>u, <1>l DEF TokensOK
<1>1. Layout'
  BY <1>l, <1>u, LayoutKept DEF streamVars
<1>2. NumbersOK'
  <2>1. emitted' \in Nat
    BY <1>u, <1>n
  <2> QED BY <2>1, <1>u, <1>l, Zenon DEF NumbersOK
<1>3. WireTypeOK'
  <2>1. held' # <<>>
    <3>1. PICK last : tok = <<ends[emitted + 1].first, last>>
      BY <1>t DEF IsFrame
    <3>2. <<ends[emitted + 1].first, last>> # <<>>
      OBVIOUS
    <3> QED BY <1>u, <3>1, <3>2
  <2>2. (held' # <<>>) = (cons' = "decode")
    BY <2>1, <1>u
  <2>3. emitted' <= Len(ends')
    BY <1>e, <1>u
  <2> QED BY <2>2, <2>3, <1>u, <1>l, Zenon DEF WireTypeOK
<1>4. ConsumedOK'
  BY <1>u, <1>s, <1>l DEF ConsumedOK
<1>5. TokensOK'
  <2>1. emitted' \in 1 .. Len(ends')
    BY <1>e, <1>n, <1>u
  <2> QED BY <2>1, <1>u, <1>t DEF TokensOK, IsFrame
<1>6. err # "split" /\ err # "too long"
  BY <1>u, <1>l DEF ErrorsOK
<1>7. NothingWhole' /\ ErrorsOK' /\ StopsOnlyMidHead' /\ TooLongNeeds'
  BY <1>6, <1>u DEF NothingWhole, ErrorsOK, StopsOnlyMidHead, TooLongNeeds
<1> QED BY <1>1, <1>2, <1>3, <1>4, <1>5, <1>7 DEF ScannerInv

\* Steps of the loop, which leave the scanner alone.
LEMMA LoopKeeps ==
    ASSUME ScannerInv, cons' \in {"recv", "stopped"}, held' = <<>>, moved' = FALSE,
           UNCHANGED <<streamVars, bufVars, sc, err, tok, emitted>>
    PROVE  ScannerInv'
<1>u. /\ ends' = ends /\ total' = total /\ size' = size /\ tok' = tok /\ err' = err
      /\ start' = start /\ off' = off /\ nread' = nread /\ sc' = sc /\ emitted' = emitted
  BY DEF streamVars, bufVars
<1>l. /\ Layout /\ NumbersOK /\ WireTypeOK /\ ConsumedOK /\ TokensOK /\ NothingWhole
      /\ ErrorsOK /\ StopsOnlyMidHead /\ TooLongNeeds
  BY DEF ScannerInv
<1>s. Scanned' = Scanned
  BY <1>u DEF Scanned
<1>1. Layout'
  BY <1>l, <1>u, LayoutKept DEF streamVars
<1>2. NumbersOK'
  BY <1>u, <1>l, Zenon DEF NumbersOK
<1>3. WireTypeOK'
  <2>1. (held' # <<>>) = (cons' = "decode")
    OBVIOUS
  <2>2. cons' \in {"recv", "decode", "stopped"}
    OBVIOUS
  <2> QED BY <2>1, <2>2, <1>u, <1>l, Zenon DEF WireTypeOK
<1>4. ConsumedOK' /\ NothingWhole'
  BY <1>u, <1>s, <1>l DEF ConsumedOK, NothingWhole
<1>5. TokensOK'
  BY <1>u, <1>l DEF TokensOK, IsFrame
<1>6. ErrorsOK' /\ StopsOnlyMidHead' /\ TooLongNeeds'
  BY <1>u, <1>l DEF ErrorsOK, StopsOnlyMidHead, TooLongNeeds
<1> QED BY <1>1, <1>2, <1>3, <1>4, <1>5, <1>6 DEF ScannerInv

\* Every step keeps the invariant.
LEMMA ScannerSteps ==
    ASSUME ScannerInv, [Next]_vars
    PROVE  ScannerInv'
<1>1. CASE ScanSplit(Verdict)
  BY <1>1, SplitKeeps
<1>2. CASE ScanFill
  BY <1>2, FillKeeps
<1>3. CASE ReadEOF
  BY <1>3, ReadEOFKeeps
<1>4. CASE HandOver
  BY <1>4, HandOverKeeps
<1>5. CASE ChannelClosed
  <2>1. cons = "recv" /\ cons' = "stopped" /\ held' = held /\ moved' = moved
    BY <1>5 DEF ChannelClosed
  <2>2. held = <<>>
    BY <2>1 DEF ScannerInv, WireTypeOK
  <2>3. moved = FALSE
    <3>1. moved \in BOOLEAN /\ (moved => cons = "decode")
      BY DEF ScannerInv, NumbersOK, WireTypeOK
    <3>2. cons # "decode"
      BY <2>1
    <3> QED BY <3>1, <3>2, Zenon
  <2>4. UNCHANGED <<streamVars, bufVars, sc, err, tok, emitted>>
    BY <1>5 DEF ChannelClosed
  <2> QED BY <2>1, <2>2, <2>3, <2>4, LoopKeeps
<1>6. ASSUME NEW k \in 1 .. MaxToken, Read(k)
      PROVE  ScannerInv'
  BY <1>6, ReadKeeps
<1>7. CASE Decode
  BY <1>7, LoopKeeps DEF Decode
<1>8. CASE UNCHANGED vars
  <2>u. /\ ends' = ends /\ total' = total /\ size' = size /\ tok' = tok /\ err' = err
        /\ start' = start /\ off' = off /\ nread' = nread /\ sc' = sc /\ emitted' = emitted
        /\ cons' = cons /\ held' = held /\ moved' = moved
    BY <1>8 DEF vars, streamVars, bufVars, consVars
  <2> QED BY <2>u, Zenon DEF ScannerInv, Layout, NumbersOK, WireTypeOK, ConsumedOK, TokensOK,
        NothingWhole, ErrorsOK, StopsOnlyMidHead, TooLongNeeds, Scanned, IsFrame
<1> QED BY <1>1, <1>2, <1>3, <1>4, <1>5, <1>6, <1>7, <1>8 DEF Next, Transport
----------------------------------------------------------------------------
\* Theorems.

\* What the code promises follows from the invariant: the frames found are the first
\* ones, and no frame after them has arrived whole when the scanner ends.
LEMMA ScannerPromises ==
    ASSUME ScannerInv
    PROVE  WireTypeOK /\ TokenIsFrame /\ ArrivedIsEmitted /\ StopsOnlyMidHead /\ TooLongNeeds
<1>l. /\ Layout /\ NumbersOK /\ WireTypeOK /\ ConsumedOK /\ TokensOK /\ NothingWhole
      /\ StopsOnlyMidHead /\ TooLongNeeds
  BY DEF ScannerInv
<1>n. /\ emitted \in Nat /\ Len(ends) \in Nat /\ DOMAIN ends = 1 .. Len(ends)
      /\ nread \in Nat /\ start \in Nat
      /\ \A k \in 1 .. Len(ends) : ends[k].first \in Nat /\ ends[k].nul \in Nat
  BY <1>l, FramesOf DEF NumbersOK
<1>1. TokenIsFrame
  <2> SUFFICES ASSUME cons = "decode"
               PROVE  /\ emitted \in DOMAIN ends
                      /\ held[1] = ends[emitted].first
                      /\ held[2] - ends[emitted].nul \in {0, 1}
    BY DEF TokenIsFrame
  <2>1. emitted \in 1 .. Len(ends) /\ IsFrame(held, emitted)
    BY <1>l DEF TokensOK
  <2>2. PICK last \in {ends[emitted].nul, ends[emitted].nul + 1} :
                held = <<ends[emitted].first, last>>
    BY <2>1 DEF IsFrame
  <2>3. held[1] = ends[emitted].first /\ held[2] = last
    BY <2>2
  <2>4. last - ends[emitted].nul \in {0, 1}
    BY <2>1, <2>2, <1>n
  <2> QED BY <2>1, <2>3, <2>4, <1>n
<1>2. ArrivedIsEmitted
  <2> SUFFICES ASSUME sc = "closed"
               PROVE  emitted = Cardinality({k \in DOMAIN ends : ends[k].nul <= nread})
    BY DEF ArrivedIsEmitted
  <2>1. Scanned = emitted
    BY DEF Scanned
  <2>2. emitted <= Len(ends)
    BY <2>1, <1>l DEF ConsumedOK
  <2>3. start <= nread
    BY <1>l DEF WireTypeOK
  <2>4. ASSUME NEW k \in 1 .. Len(ends)
        PROVE  ends[k].nul <= nread <=> k <= emitted
    <3>1. CASE k <= emitted
      <4>1. ends[k].nul <= start
        BY <3>1, <2>1, <1>l DEF ConsumedOK
      <4> QED BY <3>1, <4>1, <2>3, <1>n
    <3>2. CASE ~(k <= emitted)
      <4>1. nread < ends[k].nul
        BY <3>2, <2>1, <1>l, <1>n DEF NothingWhole
      <4> QED BY <3>2, <4>1, <1>n
    <3> QED BY <3>1, <3>2
  <2>5. {k \in DOMAIN ends : ends[k].nul <= nread} = 1 .. emitted
    <3>1. \A k \in 1 .. emitted : k \in 1 .. Len(ends) /\ k <= emitted
      BY <2>2, <1>n
    <3>2. \A k \in 1 .. Len(ends) : k <= emitted => k \in 1 .. emitted
      BY <1>n
    <3> QED BY <2>4, <3>1, <3>2, <1>n
  <2>6. Cardinality(1 .. emitted) = emitted
    <3>1. Cardinality(1 .. emitted) = IF 1 > emitted THEN 0 ELSE emitted - 1 + 1
      BY <1>n, FS_Interval
    <3> QED BY <3>1, <1>n
  <2> QED BY <2>5, <2>6
<1> QED BY <1>l, <1>1, <1>2

\* The inductive invariant.
THEOREM ScannerInvariant == Spec => []ScannerInv
<1>1. Init => ScannerInv
  BY ScannerStarts
<1>2. ScannerInv /\ [Next]_vars => ScannerInv'
  BY ScannerSteps
<1> QED BY <1>1, <1>2, PTL DEF Spec

\* The rest of the stream always fits into the buffer, which never outgrows
\* MaxScanTokenSize, and positions stay in order, whatever the sizes of buffers and
\* reads (bufio.Scanner.Scan).
THEOREM ScannerTypeCorrect == Spec => []WireTypeOK
  BY ScannerInvariant, ScannerPromises, PTL

\* The loop gets the frames one after the other, none skipped, repeated, torn or merged
\* with the next, in any stream (frame_scanner.go:86, :108).
THEOREM FramesInOrder == Spec => []TokenIsFrame
  BY ScannerInvariant, ScannerPromises, PTL

\* The scanner never ends with a whole frame in its buffer, not even after an error of
\* the splitter or of the buffer (frame_scanner.go:107).
THEOREM NoFrameLeftBehind == Spec => []ArrivedIsEmitted
  BY ScannerInvariant, ScannerPromises, PTL

\* Only one frame with the heartbeats before it, or heartbeats alone, can be too long
\* for the buffer (frame_scanner.go:24).
THEOREM TooLongIsOneFrame == Spec => []TooLongNeeds
  BY ScannerInvariant, ScannerPromises, PTL

----------------------------------------------------------------------------
\* The frames that are written.

\* What a header or a body holds.
Text == Seq(STRING)

\* The headers a program may add to a SEND: any keys with any texts.
HeaderMaps == UNION {[keys -> Text] : keys \in SUBSET Text}

\* The frames that the methods of client.go and broker.go build, from any arguments.
ClientBuilds(f) ==
    \/ \E cmd \in {"CONNECT", "STOMP"}, host, login, hb \in Text :
          f = ConnectFrame(cmd, host, login, hb)
    \/ \E dest, body \in Text, custom \in HeaderMaps : f = SendFrame(dest, body, custom)
    \/ \E dest, id, mode \in Text : f = SubscribeFrame(dest, id, mode)
    \/ \E id, tx \in Text : f = AckFrame(id, tx)
    \/ \E cmd \in {"BEGIN", "COMMIT", "ABORT"}, tx \in Text : f = OneHeader(cmd, "transaction", tx)
    \/ \E id \in Text : f = OneHeader("UNSUBSCRIBE", "id", id)
    \/ \E receipt \in Text : f = OneHeader("DISCONNECT", "receipt", receipt)

BrokerBuilds(f) ==
    \/ \E hb \in Text : f = ConnectedFrame(hb)
    \/ \E msg, body \in Text : f = ErrorFrame(msg, body)
    \/ \E receipt \in Text : f = OneHeader("RECEIPT", "receipt-id", receipt)
    \/ \E dest, id, tx, body \in Text, n \in Nat, headers \in HeaderMaps :
          f \in MessageFrames(dest, id, n, tx, headers, body)

\* The keys of the maps that the methods write.
LEMMA HeadersOfOne ==
    ASSUME NEW key, NEW text
    PROVE  DOMAIN Header(key, text) = Keys({key})
  BY DEF Header, Keys

LEMMA NoHeaders == DOMAIN <<>> = {}
  OBVIOUS

LEMMA HeadersOfTx ==
    ASSUME NEW tx
    PROVE  DOMAIN WithTx(tx) \subseteq Keys({"transaction"})
  BY HeadersOfOne, NoHeaders DEF WithTx

\* What Validate() asks for beside the escapes.
Fits(cmd, keys) ==
    /\ cmd \in ServerCmds \cup ClientCmds
    /\ Keys(Required(cmd)) \subseteq keys
    /\ keys \subseteq Keys(Required(cmd) \cup Optional(cmd)) \/ CustomHeadersAllowed(cmd)

\* What is left are the escapes.
LEMMA FitsIsValid ==
    ASSUME NEW f, Fits(f.command, DOMAIN f.headers)
    PROVE  Validate(f, Source(f)) <=> LegalEscapes(f)
<1>1. f.command \in (IF Source(f) = "server" THEN ServerCmds ELSE ClientCmds)
  BY DEF Fits, Source
<1>2. \A k \in DOMAIN f.headers : 
          k \in Keys(Required(f.command) \cup Optional(f.command)) \/ CustomHeadersAllowed(f.command)
  BY DEF Fits
<1>3. Keys(Required(f.command)) \subseteq DOMAIN f.headers
  BY DEF Fits
<1> QED BY <1>1, <1>2, <1>3, Zenon DEF Validate, ValidateHeaders, LegalEscapes

\* The methods and validationMap agree, frame by frame.
LEMMA ClientFramesFit ==
    ASSUME NEW f, ClientBuilds(f)
    PROVE  Fits(f.command, DOMAIN f.headers)
<1> USE DEF Fits, ClientCmds, Required, Optional, CustomHeadersAllowed, Keys
<1>1. ASSUME NEW cmd \in {"CONNECT", "STOMP"}, NEW host, NEW login, NEW hb,
             f = ConnectFrame(cmd, host, login, hb)
      PROVE  Fits(f.command, DOMAIN f.headers)
  <2> DEFINE l == IF login = <<>> THEN <<>> ELSE Header("login", login) ++ Header("passcode", login)
             b == IF hb = <<>> THEN <<>> ELSE Header("heart-beat", hb)
  <2>1. DOMAIN l \subseteq Keys({"login", "passcode"}) /\ DOMAIN b \subseteq Keys({"heart-beat"})
    BY DEF Header, ++, Keys
  <2>2. f.command = cmd /\ f.headers = Header("accept-version", Itoa(1)) ++ Header("host", host) ++ l ++ b
    BY <1>1 DEF ConnectFrame, NewFrame
  <2> HIDE DEF l, b
  <2>3. DOMAIN f.headers = Keys({"accept-version", "host"}) \cup DOMAIN l \cup DOMAIN b
    BY <2>2 DEF Header, ++
  <2> QED BY <2>1, <2>2, <2>3
<1>2. ASSUME NEW dest, NEW body, NEW custom, f = SendFrame(dest, body, custom)
      PROVE  Fits(f.command, DOMAIN f.headers)
  <2>1. f.command = "SEND" /\ Key("destination") \in DOMAIN f.headers
    BY <1>2 DEF SendFrame, NewFrame, Header, ++
  <2> QED BY <2>1
<1>3. ASSUME NEW dest, NEW id, NEW mode, f = SubscribeFrame(dest, id, mode)
      PROVE  Fits(f.command, DOMAIN f.headers)
  <2>1. f.command = "SUBSCRIBE" /\ DOMAIN f.headers = Keys({"id", "destination", "ack"})
    BY <1>3 DEF SubscribeFrame, NewFrame, Header, ++
  <2> QED BY <2>1
<1>4. ASSUME NEW id, NEW tx, f = AckFrame(id, tx)
      PROVE  Fits(f.command, DOMAIN f.headers)
  <2>1. f.command = "ACK" /\ f.headers = Header("id", id) ++ WithTx(tx)
    BY <1>4 DEF AckFrame, NewFrame
  <2>2. DOMAIN f.headers = Keys({"id"}) \cup DOMAIN WithTx(tx)
    BY <2>1 DEF Header, ++
  <2> QED BY <2>1, <2>2, HeadersOfTx
<1>5. ASSUME NEW cmd \in {"BEGIN", "COMMIT", "ABORT"}, NEW tx, f = OneHeader(cmd, "transaction", tx)
      PROVE  Fits(f.command, DOMAIN f.headers)
  <2>1. f.command = cmd /\ DOMAIN f.headers = Keys({"transaction"})
    BY <1>5 DEF OneHeader, NewFrame, Header
  <2> QED BY <2>1
<1>6. ASSUME NEW id, f = OneHeader("UNSUBSCRIBE", "id", id)
      PROVE  Fits(f.command, DOMAIN f.headers)
  <2>1. f.command = "UNSUBSCRIBE" /\ DOMAIN f.headers = Keys({"id"})
    BY <1>6 DEF OneHeader, NewFrame, Header
  <2> QED BY <2>1
<1>7. ASSUME NEW receipt, f = OneHeader("DISCONNECT", "receipt", receipt)
      PROVE  Fits(f.command, DOMAIN f.headers)
  <2>1. f.command = "DISCONNECT" /\ DOMAIN f.headers = Keys({"receipt"})
    BY <1>7 DEF OneHeader, NewFrame, Header
  <2> QED BY <2>1
<1> HIDE DEF Fits, ClientCmds, Required, Optional, CustomHeadersAllowed, Keys
<1> QED BY <1>1, <1>2, <1>3, <1>4, <1>5, <1>6, <1>7, Zenon DEF ClientBuilds

LEMMA BrokerFramesFit ==
    ASSUME NEW f, BrokerBuilds(f)
    PROVE  Fits(f.command, DOMAIN f.headers)
<1>1. ASSUME NEW hb, f = ConnectedFrame(hb)
      PROVE  Fits(f.command, DOMAIN f.headers)
  <2>1. f.command = "CONNECTED" /\ DOMAIN f.headers = Keys({"version", "session", "server", "heart-beat"})
    BY <1>1 DEF ConnectedFrame, NewFrame, Header, ++, Keys
  <2> QED BY <2>1 DEF Fits, ServerCmds, Required, Optional, Keys
<1>2. ASSUME NEW msg, NEW body, f = ErrorFrame(msg, body)
      PROVE  Fits(f.command, DOMAIN f.headers)
  <2>1. f.command = "ERROR"
    BY <1>2 DEF ErrorFrame, NewFrame
  <2> QED BY <2>1 DEF Fits, ServerCmds, Required, CustomHeadersAllowed, Keys
<1>3. ASSUME NEW receipt, f = OneHeader("RECEIPT", "receipt-id", receipt)
      PROVE  Fits(f.command, DOMAIN f.headers)
  <2>1. f.command = "RECEIPT" /\ DOMAIN f.headers = Keys({"receipt-id"})
    BY <1>3 DEF OneHeader, NewFrame, Header, Keys
  <2> QED BY <2>1 DEF Fits, ServerCmds, Required, Optional, Keys
<1>4. ASSUME NEW dest, NEW id, NEW tx, NEW body, NEW n, NEW headers,
             f \in MessageFrames(dest, id, n, tx, headers, body)
      PROVE  Fits(f.command, DOMAIN f.headers)
  <2>1. PICK copied : f = NewFrame("MESSAGE",
            copied ++ Header("destination", dest) ++ Header("message-id", <<"a">>)
                ++ Header("subscription", id) ++ Header("ack", FmtAckNum(dest, id, n))
                ++ WithTx(tx), body)
    BY <1>4, Zenon DEF MessageFrames
  <2>2. f.command = "MESSAGE"
    BY <2>1 DEF NewFrame
  <2>3. Keys({"destination", "message-id", "subscription"}) \subseteq DOMAIN f.headers
    BY <2>1 DEF NewFrame, Header, ++, Keys
  <2> QED BY <2>2, <2>3 DEF Fits, ServerCmds, Required, CustomHeadersAllowed
<1> QED BY <1>1, <1>2, <1>3, <1>4, Zenon DEF BrokerBuilds

\* What a program asks for is built by the methods of one end or of the other.
OwnScripts ==
    \A fs \in Scripts : \A k \in DOMAIN fs : ClientBuilds(fs[k]) \/ BrokerBuilds(fs[k])

\* For every text, body and set of headers with any keys: what a method of either end
\* builds is refused by its own send() exactly when a key or a text has an escape that is
\* not legal, and never for its kind or for a header that validationMap does not list or
\* misses (frame.go:85, :284, broker.go:199).
THEOREM OwnFramesAreWritten ==
    ASSUME OwnScripts
    PROVE  WireSpec => []OwnFramesWritten
<1>1. WireInit => OwnFramesWritten
  <2> SUFFICES ASSUME WireInit, NEW k \in DOMAIN asked
               PROVE  Validate(asked[k], Source(asked[k])) <=> LegalEscapes(asked[k])
    BY DEF OwnFramesWritten
  <2>1. asked \in Scripts
    BY DEF WireInit
  <2>2. ClientBuilds(asked[k]) \/ BrokerBuilds(asked[k])
    BY <2>1 DEF OwnScripts
  <2> QED BY <2>2, ClientFramesFit, BrokerFramesFit, FitsIsValid, Zenon
<1>2. OwnFramesWritten /\ [WireNext]_wireVars => OwnFramesWritten'
  <2> SUFFICES ASSUME OwnFramesWritten, [WireNext]_wireVars
               PROVE  OwnFramesWritten'
    OBVIOUS
  <2>1. asked' = asked
    BY DEF WireNext, WireSplit, WireDecode, wireVars, sendVars
  <2> QED BY <2>1 DEF OwnFramesWritten
<1> QED BY <1>1, <1>2, PTL DEF WireSpec
============================================================================
