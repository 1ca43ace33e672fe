------------------------- MODULE Fingerprint_proofs -------------------------
(***************************************************************************)
(* Proofs about module Fingerprint, for any fingers, pages, answers of the *)
(* sensor and number of procedures: what enrolling, findFinger and         *)
(* deleteModel return is true as long as the link keeps CommandLink.       *)
(***************************************************************************)
EXTENDS Fingerprint, TLAPS

-----------------------------------------------------------------------------
(* The inductive invariant *)

\* The features of one scan of f.
Scan(f) == [finger |-> f, merged |-> FALSE]

Domains ==
    /\ DOMAIN place = Threads /\ DOMAIN answer = Threads /\ DOMAIN result = Threads
    /\ disturbed \in BOOLEAN

\* The answers the sensor can give to the command a thread sends at a place, as
\* far as it matters.
Possible(p) ==
    CASE p \in {"tz1", "convert"} -> {Ok, <<FINGERPRINT_IMAGEMESS>>, <<FINGERPRINT_PACKETRECIEVER>>}
      [] p \in {"search", "match"} ->
            {<<FINGERPRINT_OK, q>> : q \in SearchPages}
            \cup {<<FINGERPRINT_NOTFOUND>>, <<FINGERPRINT_PACKETRECIEVER>>}
      [] p \in {"create", "create2"} ->
            {Ok, <<FINGERPRINT_ENROLLMISMATCH>>, <<FINGERPRINT_PACKETRECIEVER>>}
      [] p = "store" -> {Ok, <<FINGERPRINT_PACKETRECIEVER>>, <<FINGERPRINT_BADLOCATION>>, <<FINGERPRINT_FLASHERR>>}
      [] p = "delete" -> {Ok, <<FINGERPRINT_PACKETRECIEVER>>, <<FINGERPRINT_DELETEFAIL>>}

Commanding == {"tz1", "convert", "search", "match", "create", "create2", "store", "delete"}

AnswerInv == \A t \in asking : place[t] \in Commanding => answer[t] \in Possible(place[t])

\* The sensor has carried out main's present command.
Done == main \in asking /\ answer[main] = Ok

\* The first buffer holds the scanned finger once image2Tz has been carried out,
\* and a model of it once createModel has.
CharInv ==
    "link" \notin trouble =>
        /\ place[main] \in {"tz1", "convert"} /\ Done => char[1] = Scan(scanned) /\ scanned \in Fingers
        /\ place[main] \in {"search", "lift", "image2", "tz2", "match"} =>
               char[1] = Scan(scanned) /\ scanned \in Fingers
        /\ place[main] \in {"create", "create2"} =>
               char[1] = (IF Done THEN Model(scanned) ELSE Scan(scanned)) /\ scanned \in Fingers
        /\ place[main] = "store" => char[1] = Model(scanned) /\ scanned \in Fingers

\* The store has been carried out exactly when its answer says so.
StoreInv ==
    /\ stored => place[main] = "store" /\ Done
    /\ place[main] = "store" /\ Done => stored
    /\ stored /\ ~disturbed /\ "link" \notin trouble => library[page[main]] = Model(scanned)

\* No template that a search covers is of the scanned finger.
Unknown == \A q \in SearchPages : library[q].finger # scanned

SearchInv ==
    /\ /\ place[main] = "search" /\ main \in asking /\ answer[main] = <<FINGERPRINT_NOTFOUND>>
       /\ "link" \notin trouble
       => Unknown
    /\ /\ place[main] \in {"lift", "image2", "tz2", "create", "create2", "store"}
       /\ trouble = {} /\ ~stored
       => Unknown

\* A page found is still of the scanned finger, unless the link was disturbed.
MatchInv ==
    \A p \in SearchPages :
        /\ place[main] = "match" /\ main \in asking /\ answer[main] = <<FINGERPRINT_OK, p>>
        /\ ~disturbed /\ "link" \notin trouble
        => library[p].finger = scanned

\* A page deleted is still empty, unless the link was disturbed.
DeleteInv ==
    \A t \in asking :
        place[t] = "delete" /\ answer[t] = Ok /\ ~disturbed => library[page[t]] = Nothing

IInv == TypeOK /\ Domains /\ AnswerInv /\ CharInv /\ StoreInv /\ SearchInv /\ MatchInv /\ DeleteInv

-----------------------------------------------------------------------------
(* Facts about the constants and about tuples *)

USE DEF FINGERPRINT_OK, FINGERPRINT_PACKETRECIEVER, FINGERPRINT_NOFINGER, FINGERPRINT_IMAGEFAIL,
        FINGERPRINT_IMAGEMESS, FINGERPRINT_NOTFOUND, FINGERPRINT_ENROLLMISMATCH,
        FINGERPRINT_BADLOCATION, FINGERPRINT_DELETEFAIL, FINGERPRINT_FLASHERR

\* Tuples of one and of two members.
LEMMA Tuples ==
    /\ \A c, d : <<c>> = <<d>> <=> c = d
    /\ \A c, d, e : <<c>> # <<d, e>>
    /\ \A c, d, e, f : <<c, d>> = <<e, f>> <=> c = e /\ d = f
    /\ \A c : <<c>>[1] = c /\ Len(<<c>>) = 1
    /\ \A c, d : <<c, d>>[1] = c /\ <<c, d>>[2] = d /\ Len(<<c, d>>) = 2
<1>1. \A c, d : <<c>> = <<d>> <=> c = d  OBVIOUS
<1>2. \A c, d, e : <<c>> # <<d, e>>
  <2> SUFFICES ASSUME NEW c, NEW d, NEW e, <<c>> = <<d, e>> PROVE FALSE  OBVIOUS
  <2>1. Len(<<c>>) = 1 /\ Len(<<d, e>>) = 2  OBVIOUS
  <2> QED  BY <2>1
<1>3. \A c, d, e, f : <<c, d>> = <<e, f>> <=> c = e /\ d = f  OBVIOUS
<1>4. \A c : <<c>>[1] = c /\ Len(<<c>>) = 1  OBVIOUS
<1>5. \A c, d : <<c, d>>[1] = c /\ <<c, d>>[2] = d /\ Len(<<c, d>>) = 2  OBVIOUS
<1> QED  BY <1>1, <1>2, <1>3, <1>4, <1>5

\* The results differ.
LEMMA Results ==
    /\ SUCCESS # FAILED /\ SUCCESS # ERROR /\ SUCCESS # TIMEOUT
    /\ \A n : /\ Found(n) # SUCCESS /\ Found(n) # FAILED /\ Found(n) # ERROR /\ Found(n) # TIMEOUT
              /\ \A m : Found(n) = Found(m) <=> n = m
BY Tuples DEF SUCCESS, FAILED, ERROR, TIMEOUT, Found

\* Templates.
LEMMA TemplateFacts ==
    /\ Nothing \in Templates /\ Nothing.finger = NoFinger
    /\ \A f \in Fingers : Model(f) \in Templates /\ Scan(f) \in Templates
    /\ \A f : Model(f).finger = f /\ Scan(f).finger = f /\ Model(f).merged
    /\ \A f : f \in Fingers => f # NoFinger /\ Scan(f) # Nothing
    /\ \A x \in Templates : x.finger \in Fingers \cup {NoFinger}
    /\ \A x \in Templates : x # Nothing => x.finger \in Fingers
<1>1. NoFinger \notin Fingers  BY FingerprintAssumption DEF FingerprintAssumption
<1> QED  BY <1>1 DEF Nothing, Templates, Model, Scan

\* A page found is a page.
LEMMA PageFacts ==
    /\ \A n \in SearchPages : n \in Pages
    /\ \A n \in Pages : n \in Int /\ n # 0
BY FingerprintAssumption DEF FingerprintAssumption

LEMMA LibraryFacts == \A l \in Libraries : l \in [Pages -> Templates]
BY FingerprintAssumption DEF FingerprintAssumption

LEMMA TwoThreads == main # deletion /\ Threads = {main, deletion}
BY FingerprintAssumption DEF FingerprintAssumption

-----------------------------------------------------------------------------
(* What the steps do, as far as the invariant asks *)

\* What a command of t changes whatever it is.
Sent(t) ==
    /\ t \notin asking /\ asking' = asking \cup {t}
    /\ DOMAIN answer' = Threads
    /\ \A u \in Threads \ {t} : answer'[u] = answer[u]
    /\ disturbed' \in BOOLEAN /\ (asking # {} => disturbed')
    /\ UNCHANGED <<place, page, late, result, trouble>>
    /\ place[t] # "idle"
    /\ image' \in Images

LEMMA CommandSent ==
    ASSUME Domains, NEW t \in Threads, NEW a, Command(t, a)
    PROVE  /\ t \notin asking /\ asking' = asking \cup {t}
           /\ DOMAIN answer' = Threads /\ answer'[t] = a
           /\ \A u \in Threads \ {t} : answer'[u] = answer[u]
           /\ disturbed' \in BOOLEAN /\ (asking # {} => disturbed')
BY DEF Domains, Command

LEMMA StepSent ==
    ASSUME TypeOK, Domains, NEW t \in Threads, Sends(t) \/ IsRefused(t)
    PROVE  Sent(t)
<1>1. UNCHANGED <<place, page, late, result, trouble>>  BY DEF Sends, IsRefused
<1>2. PICK a : Command(t, a)
  <2>1. CASE IsRefused(t)  BY <2>1 DEF IsRefused, Refuse
  <2>2. CASE Sends(t)
    BY <2>2 DEF Sends, GetImage, Image2Tz, CreateModel, StoreModel, DeleteTemplate, FingerFastSearch
  <2> QED  BY <2>1, <2>2
<1>3. place[t] # "idle"
  <2>1. CASE IsRefused(t)  BY <2>1 DEF IsRefused
  <2>2. CASE Sends(t)  BY <2>2 DEF Sends, LoopPlaces
  <2> QED  BY <2>1, <2>2
<1>4. image' \in Images
  <2>1. CASE IsRefused(t)  BY <2>1 DEF IsRefused, Refuse, TypeOK
  <2>2. CASE UNCHANGED image  BY <2>2 DEF TypeOK
  <2>3. ASSUME NEW f \in Fingers \cup {NoFinger}, GetImage(t, f) PROVE image' \in Images
    BY <2>3 DEF GetImage, Images, TypeOK
  <2>4. CASE Sends(t)
    BY <2>2, <2>3, <2>4 DEF Sends, Image2Tz, CreateModel, StoreModel, DeleteTemplate, FingerFastSearch
  <2> QED  BY <2>1, <2>4
<1> QED  BY <1>1, <1>2, <1>3, <1>4, CommandSent DEF Sent

\* A deletion empties its page or changes nothing.
DeletesOrNot(t) ==
    /\ UNCHANGED <<char, scanned, stored>>
    /\ answer'[t] \in Possible("delete")
    /\ IF answer'[t] = Ok THEN library' = [library EXCEPT ![page[t]] = Nothing]
                          ELSE library' = library

LEMMA StepDeletes ==
    ASSUME TypeOK, Domains, NEW t \in Threads, Sends(t) \/ IsRefused(t), place[t] = "delete"
    PROVE  DeletesOrNot(t)
<1>1. CASE Sends(t)
  <2>1. DeleteTemplate(t)
    <3>1. /\ place[t] \notin LoopPlaces \cup {"lift"} /\ place[t] \notin {"tz1", "convert"}
          /\ place[t] \notin {"search", "match"} /\ place[t] \notin {"create", "create2"}
          /\ place[t] # "tz2" /\ place[t] # "store"
      BY DEF LoopPlaces
    <3> QED  BY <1>1, <3>1 DEF Sends
  <2>2. Command(t, Ok)  BY <2>1 DEF DeleteTemplate
  <2>3. answer'[t] = Ok  BY <2>2, CommandSent
  <2>4. Ok \in Possible("delete")  BY DEF Possible
  <2> QED  BY <2>1, <2>3, <2>4 DEF DeleteTemplate, DeletesOrNot
<1>2. CASE IsRefused(t)
  <2>1. Refuse(t)  BY <1>2 DEF IsRefused
  <2>2. PICK code \in {FINGERPRINT_PACKETRECIEVER, FINGERPRINT_DELETEFAIL} : Command(t, <<code>>)
    BY <2>1 DEF Refuse, Refusals
  <2>3. answer'[t] = <<code>>  BY <2>2, CommandSent
  <2>4. <<code>> \in Possible("delete") /\ <<code>> # Ok  BY <2>2, Tuples DEF Possible, Ok
  <2> QED  BY <2>1, <2>3, <2>4 DEF Refuse, DeletesOrNot
<1> QED  BY <1>1, <1>2

\* The places at which a command leaves what main works with alone.
Asks == {"image1", "image2", "scan", "lift"}

\* What a command of main does to the sensor, place by place.
AsksMain == place[main] \in Asks => UNCHANGED <<char, library, scanned, stored>>

ConvertsMain ==
    /\ place[main] \in {"tz1", "convert"} =>
          /\ UNCHANGED <<library, stored>>
          /\ scanned' \in Fingers \cup {NoFinger}
          /\ char' \in [1..2 -> Templates]
          /\ answer'[main] = Ok => char'[1] = Scan(scanned') /\ scanned' \in Fingers
          /\ answer'[main] \in Possible(place[main])
    /\ place[main] = "tz2" =>
          /\ UNCHANGED <<library, scanned, stored>>
          /\ char' \in [1..2 -> Templates] /\ char'[1] = char[1]

SearchesMain ==
    place[main] \in {"search", "match"} =>
        /\ UNCHANGED <<char, library, scanned, stored>>
        /\ answer'[main] \in Possible(place[main])
        /\ \A q \in SearchPages :
              answer'[main] = <<FINGERPRINT_OK, q>> => library[q].finger = char[1].finger
        /\ answer'[main] = <<FINGERPRINT_NOTFOUND>> /\ char[1] # Nothing =>
              \A q \in SearchPages : library[q].finger # char[1].finger

CreatesMain ==
    place[main] \in {"create", "create2"} =>
        /\ UNCHANGED <<library, scanned, stored>>
        /\ answer'[main] \in Possible(place[main])
        /\ char' \in [1..2 -> Templates]
        /\ char'[1] = IF answer'[main] = Ok THEN Model(char[1].finger) ELSE char[1]

StoresMain ==
    place[main] = "store" =>
        /\ UNCHANGED <<char, scanned>>
        /\ answer'[main] \in Possible(place[main])
        /\ IF answer'[main] = Ok
           THEN library' = [library EXCEPT ![page[main]] = char[1]] /\ stored'
           ELSE UNCHANGED <<library, stored>>

LEMMA MainRefused ==
    ASSUME TypeOK, Domains, IsRefused(main)
    PROVE  AsksMain /\ ConvertsMain /\ SearchesMain /\ CreatesMain /\ StoresMain
<1>1. UNCHANGED <<char, library, scanned, stored>>  BY DEF IsRefused, Refuse
<1>2. PICK code \in Refusals(place[main]) : Command(main, <<code>>)  BY DEF IsRefused, Refuse
<1>3. answer'[main] = <<code>>  BY <1>2, CommandSent, TwoThreads
<1>4. code \in {FINGERPRINT_PACKETRECIEVER, FINGERPRINT_IMAGEFAIL, FINGERPRINT_BADLOCATION,
                FINGERPRINT_FLASHERR, FINGERPRINT_DELETEFAIL}
  BY <1>2 DEF Refusals
<1>5. <<code>> # Ok /\ <<code>> # <<FINGERPRINT_NOTFOUND>>  BY <1>4, Tuples DEF Ok
<1>6. \A q : <<code>> # <<FINGERPRINT_OK, q>>  BY Tuples
<1>7. char \in [1..2 -> Templates] /\ scanned \in Fingers \cup {NoFinger}  BY DEF TypeOK
<1>8. place[main] \in {"tz1", "convert", "search", "match", "create", "create2"}
      => code = FINGERPRINT_PACKETRECIEVER
  BY <1>2 DEF Refusals
<1>9. place[main] = "store" =>
          code \in {FINGERPRINT_PACKETRECIEVER, FINGERPRINT_BADLOCATION, FINGERPRINT_FLASHERR}
  BY <1>2 DEF Refusals
<1>10. place[main] \in {"tz1", "convert", "search", "match", "create", "create2", "store"}
       => <<code>> \in Possible(place[main])
  BY <1>8, <1>9 DEF Possible
<1>11. AsksMain /\ StoresMain  BY <1>1, <1>3, <1>5, <1>10 DEF AsksMain, StoresMain
<1>12. ConvertsMain  BY <1>1, <1>3, <1>5, <1>7, <1>10 DEF ConvertsMain
<1>13. SearchesMain  BY <1>1, <1>3, <1>5, <1>6, <1>10 DEF SearchesMain
<1>14. CreatesMain  BY <1>1, <1>3, <1>5, <1>7, <1>10 DEF CreatesMain
<1> QED  BY <1>11, <1>12, <1>13, <1>14

LEMMA MainSends ==
    ASSUME TypeOK, Domains, Sends(main)
    PROVE  AsksMain /\ ConvertsMain /\ SearchesMain /\ CreatesMain /\ StoresMain
<1> USE DEF Asks, LoopPlaces
<1>0. main \in Threads /\ char \in [1..2 -> Templates] /\ image \in Images
      /\ library \in [Pages -> Templates] /\ scanned \in Fingers \cup {NoFinger}
  BY TwoThreads DEF TypeOK
<1>1. AsksMain
  <2> SUFFICES ASSUME place[main] \in Asks PROVE UNCHANGED <<char, library, scanned, stored>>
    BY DEF AsksMain
  <2>1. PICK f : GetImage(main, f)  BY DEF Sends
  <2> QED  BY <2>1 DEF GetImage
<1>2. ConvertsMain
  <2>1. ASSUME place[main] \in {"tz1", "convert"}
        PROVE  /\ UNCHANGED <<library, stored>>
               /\ scanned' \in Fingers \cup {NoFinger}
               /\ char' \in [1..2 -> Templates]
               /\ answer'[main] = Ok => char'[1] = Scan(scanned') /\ scanned' \in Fingers
               /\ answer'[main] \in Possible(place[main])
    <3>1. Image2Tz(main, 1)  BY <2>1 DEF Sends
    <3>2. UNCHANGED <<library, stored>> /\ scanned' = image.finger  BY <3>1 DEF Image2Tz
    <3>3. image.finger \in Fingers \cup {NoFinger}  BY <1>0 DEF Images, NoImage
    <3>4. CASE image.clear
      <4>1. Command(main, Ok) /\ char' = [char EXCEPT ![1] = Scan(image.finger)]
        BY <3>1, <3>4 DEF Image2Tz, Scan
      <4>2. image.finger \in Fingers  BY <1>0, <3>4 DEF Images, NoImage
      <4>3. answer'[main] = Ok  BY <1>0, <4>1, CommandSent
      <4>4. Ok \in Possible(place[main])  BY <2>1 DEF Possible
      <4>5. Scan(image.finger) \in Templates  BY <4>2, TemplateFacts
      <4> QED  BY <1>0, <3>2, <4>1, <4>2, <4>3, <4>4, <4>5
    <3>5. CASE ~image.clear
      <4>1. Command(main, <<FINGERPRINT_IMAGEMESS>>) /\ char' = char  BY <3>1, <3>5 DEF Image2Tz
      <4>2. answer'[main] = <<FINGERPRINT_IMAGEMESS>>  BY <1>0, <4>1, CommandSent
      <4>3. <<FINGERPRINT_IMAGEMESS>> \in Possible(place[main])  BY <2>1 DEF Possible
      <4>4. <<FINGERPRINT_IMAGEMESS>> # Ok  BY Tuples DEF Ok
      <4> QED  BY <1>0, <3>2, <3>3, <4>1, <4>2, <4>3, <4>4
    <3> QED  BY <3>4, <3>5
  <2>2. ASSUME place[main] = "tz2"
        PROVE  /\ UNCHANGED <<library, scanned, stored>>
               /\ char' \in [1..2 -> Templates] /\ char'[1] = char[1]
    <3>1. Image2Tz(main, 2)  BY <2>2 DEF Sends
    <3>2. image.clear => Scan(image.finger) \in Templates
      BY <1>0, TemplateFacts DEF Images, NoImage
    <3>3. UNCHANGED <<library, stored>> /\ scanned' = scanned  BY <3>1 DEF Image2Tz
    <3>4. \/ image.clear /\ char' = [char EXCEPT ![2] = Scan(image.finger)]
          \/ char' = char
      BY <3>1 DEF Image2Tz, Scan
    <3> QED  BY <1>0, <3>2, <3>3, <3>4
  <2> QED  BY <2>1, <2>2 DEF ConvertsMain
<1>3. SearchesMain
  <2> SUFFICES ASSUME place[main] \in {"search", "match"}
               PROVE  SearchesMain
    BY DEF SearchesMain
  <2>1. FingerFastSearch(main)  BY DEF Sends
  <2>2. UNCHANGED <<char, library, scanned, stored>>  BY <2>1 DEF FingerFastSearch
  <2>3. ASSUME NEW p \in Matches, Command(main, <<FINGERPRINT_OK, p>>) PROVE SearchesMain
    <3>1. answer'[main] = <<FINGERPRINT_OK, p>>  BY <1>0, <2>3, CommandSent
    <3>2. answer'[main] \in Possible(place[main])  BY <2>3, <3>1 DEF Possible, Matches
    <3>3. library[p].finger = char[1].finger  BY <2>3 DEF Matches
    <3> QED  BY <2>2, <3>1, <3>2, <3>3, Tuples DEF SearchesMain
  <2>4. ASSUME Matches = {}, Command(main, <<FINGERPRINT_NOTFOUND>>) PROVE SearchesMain
    <3>1. answer'[main] = <<FINGERPRINT_NOTFOUND>>  BY <1>0, <2>4, CommandSent
    <3>2. answer'[main] \in Possible(place[main])  BY <3>1 DEF Possible
    <3>3. char[1] # Nothing => \A q \in SearchPages : library[q].finger # char[1].finger
      BY <2>4 DEF Matches
    <3> QED  BY <2>2, <3>1, <3>2, <3>3, Tuples DEF SearchesMain
  <2> QED  BY <2>1, <2>3, <2>4 DEF FingerFastSearch
<1>4. CreatesMain
  <2> SUFFICES ASSUME place[main] \in {"create", "create2"} PROVE CreatesMain
    BY DEF CreatesMain
  <2>1. CreateModel(main)  BY DEF Sends
  <2>2. CASE Mergeable
    <3>1. Command(main, Ok) /\ char' = [i \in 1..2 |-> Model(char[1].finger)]
          /\ UNCHANGED <<library, scanned, stored>>
      BY <2>1, <2>2 DEF CreateModel
    <3>2. answer'[main] = Ok  BY <1>0, <3>1, CommandSent
    <3>3. Model(char[1].finger) \in Templates
      BY <1>0, <2>2, TemplateFacts DEF Mergeable
    <3>4. Ok \in Possible(place[main])  BY DEF Possible
    <3> QED  BY <3>1, <3>2, <3>3, <3>4 DEF CreatesMain
  <2>3. CASE ~Mergeable
    <3>1. Command(main, <<FINGERPRINT_ENROLLMISMATCH>>) /\ UNCHANGED <<char, library, scanned, stored>>
      BY <2>1, <2>3 DEF CreateModel
    <3>2. answer'[main] = <<FINGERPRINT_ENROLLMISMATCH>>  BY <1>0, <3>1, CommandSent
    <3>3. <<FINGERPRINT_ENROLLMISMATCH>> \in Possible(place[main])  BY DEF Possible
    <3> QED  BY <1>0, <3>1, <3>2, <3>3, Tuples DEF CreatesMain, Ok
  <2> QED  BY <2>2, <2>3
<1>5. StoresMain
  <2> SUFFICES ASSUME place[main] = "store" PROVE StoresMain
    BY DEF StoresMain
  <2>1. StoreModel(main)  BY DEF Sends
  <2>2. answer'[main] = Ok  BY <1>0, <2>1, CommandSent DEF StoreModel
  <2>3. Ok \in Possible(place[main])  BY DEF Possible
  <2> QED  BY <2>1, <2>2, <2>3 DEF StoreModel, StoresMain
<1> QED  BY <1>1, <1>2, <1>3, <1>4, <1>5

\* The command of t returns: what changes at the link.
Returned(t) ==
    /\ t \in asking /\ asking' = asking \ {t}
    /\ DOMAIN answer' = Threads
    /\ \A u \in Threads \ {t} : answer'[u] = answer[u]
    /\ disturbed' \in BOOLEAN /\ (~disturbed' => ~disturbed)

LEMMA ReturnFrame ==
    ASSUME Domains, NEW t \in Threads, NEW r, Return(t, r)
    PROVE  Returned(t) /\ (~disturbed' => r = answer[t])
BY DEF Domains, Return, Returned

\* What remains of main's procedure at its end, or as it goes on at q.
Ended ==
    /\ \E r : Finish(main, r)
    /\ page' \in {page, [page EXCEPT ![main] = 0]}
    /\ late' = FALSE /\ scanned' = NoFinger /\ stored' = FALSE /\ trouble' = {}

Goes(q) ==
    /\ place' = [place EXCEPT ![main] = q]
    /\ UNCHANGED <<page, late, result, scanned, stored>>
    /\ trouble \subseteq trouble' /\ trouble' \subseteq trouble \cup {"link", "search"}
    /\ disturbed' => "link" \in trouble'
    /\ place[main] # "store"
    /\ \/ place[main] \in EnrolPlaces /\ q \in EnrolPlaces
       \/ place[main] \in FindPlaces /\ q \in FindPlaces

\* From where main gets to q, and what it has been told, if the link was undisturbed.
Follows(q) ==
    \/ place[main] \in {"image1", "lift", "image2", "tz2", "scan"}
       /\ <<place[main], q>> \in {<<"image1", "image1">>, <<"image1", "tz1">>, <<"lift", "lift">>,
             <<"lift", "image2">>, <<"image2", "image2">>, <<"image2", "tz2">>, <<"tz2", "create">>,
             <<"scan", "scan">>, <<"scan", "convert">>}
    \/ place[main] = "tz1" /\ (q = "tz1" \/ (q = "search" /\ answer[main] = Ok))
    \/ place[main] = "convert" /\ q = "match" /\ answer[main] = Ok
    \/ place[main] = "search" /\ q = "lift"
       /\ (trouble' = {} => answer[main] = <<FINGERPRINT_NOTFOUND>>)
    \/ place[main] = "create" /\ q = "create2" /\ answer[main] # Ok
    \/ place[main] \in {"create", "create2"} /\ q = "store" /\ answer[main] = Ok

\* The codes of the answers that are possible.
LEMMA PossibleCodes ==
    ASSUME NEW r
    PROVE  /\ r \in Possible("tz1") \cup Possible("convert") /\ r[1] = FINGERPRINT_OK => r = Ok
           /\ /\ r \in Possible("create") \cup Possible("create2")
              /\ r[1] \notin {FINGERPRINT_PACKETRECIEVER, FINGERPRINT_ENROLLMISMATCH}
              => r = Ok
           /\ /\ r \in Possible("create") \cup Possible("create2")
              /\ r[1] = FINGERPRINT_ENROLLMISMATCH
              => r # Ok
           /\ r \in Possible("search") /\ r[1] = FINGERPRINT_NOTFOUND => r = <<FINGERPRINT_NOTFOUND>>
           /\ r \in Possible("match") /\ r[1] = FINGERPRINT_OK =>
                 \E q \in SearchPages : r = <<FINGERPRINT_OK, q>>
           /\ r \in Possible("store") =>
                 /\ r[1] \in {FINGERPRINT_OK, FINGERPRINT_PACKETRECIEVER,
                              FINGERPRINT_BADLOCATION, FINGERPRINT_FLASHERR}
                 /\ r[1] = FINGERPRINT_OK <=> r = Ok
           /\ r \in Possible("delete") => (r[1] = FINGERPRINT_OK <=> r = Ok)
<1>1. \A c : <<c>>[1] = c /\ (\A d : <<c>> = <<d>> <=> c = d)  BY Tuples
<1>2. \A c, d : <<c, d>>[1] = c  BY Tuples
<1>3. ASSUME r \in Possible("tz1") \cup Possible("convert")
      PROVE  r \in {Ok, <<FINGERPRINT_IMAGEMESS>>, <<FINGERPRINT_PACKETRECIEVER>>}
  BY <1>3 DEF Possible
<1>4. ASSUME r \in Possible("create") \cup Possible("create2")
      PROVE  r \in {Ok, <<FINGERPRINT_ENROLLMISMATCH>>, <<FINGERPRINT_PACKETRECIEVER>>}
  BY <1>4 DEF Possible
<1>5. ASSUME r \in Possible("search") \cup Possible("match")
      PROVE  \/ r \in {<<FINGERPRINT_NOTFOUND>>, <<FINGERPRINT_PACKETRECIEVER>>}
             \/ \E q \in SearchPages : r = <<FINGERPRINT_OK, q>>
  BY <1>5 DEF Possible
<1>6. ASSUME r \in Possible("store")
      PROVE  r \in {Ok, <<FINGERPRINT_PACKETRECIEVER>>, <<FINGERPRINT_BADLOCATION>>, <<FINGERPRINT_FLASHERR>>}
  BY <1>6 DEF Possible
<1>7. ASSUME r \in Possible("delete")
      PROVE  r \in {Ok, <<FINGERPRINT_PACKETRECIEVER>>, <<FINGERPRINT_DELETEFAIL>>}
  BY <1>7 DEF Possible
<1>8. r \in Possible("tz1") \cup Possible("convert") /\ r[1] = FINGERPRINT_OK => r = Ok
  BY <1>1, <1>3 DEF Ok
<1>9. r \in Possible("create") \cup Possible("create2") =>
        /\ r[1] \notin {FINGERPRINT_PACKETRECIEVER, FINGERPRINT_ENROLLMISMATCH} => r = Ok
        /\ r[1] = FINGERPRINT_ENROLLMISMATCH => r # Ok
  BY <1>1, <1>4 DEF Ok
<1>10. r \in Possible("search") /\ r[1] = FINGERPRINT_NOTFOUND => r = <<FINGERPRINT_NOTFOUND>>
  BY <1>1, <1>2, <1>5
<1>11. r \in Possible("match") /\ r[1] = FINGERPRINT_OK => \E q \in SearchPages : r = <<FINGERPRINT_OK, q>>
  BY <1>1, <1>2, <1>5
<1>12. r \in Possible("store") =>
         /\ r[1] \in {FINGERPRINT_OK, FINGERPRINT_PACKETRECIEVER,
                      FINGERPRINT_BADLOCATION, FINGERPRINT_FLASHERR}
         /\ r[1] = FINGERPRINT_OK <=> r = Ok
  BY <1>1, <1>6 DEF Ok
<1>13. r \in Possible("delete") => (r[1] = FINGERPRINT_OK <=> r = Ok)
  BY <1>1, <1>7 DEF Ok
<1> QED  BY <1>8, <1>9, <1>10, <1>11, <1>12, <1>13

LEMMA MainHeard ==
    ASSUME TypeOK, Domains, AnswerInv, MainHears
    PROVE  /\ Returned(main) /\ UNCHANGED sensor
           /\ \/ Ended
              \/ \E q : Goes(q) /\ ("link" \notin trouble' => Follows(q))
<1> USE DEF EnrolPlaces, FindPlaces
<1>1. main \in Threads  BY TwoThreads
<1>2. \A p, r : Hears(p, r) =>
         /\ Returned(main) /\ UNCHANGED sensor /\ place[main] = p
         /\ ~disturbed' => r = answer[main] /\ (p \in Commanding => r \in Possible(p))
  <2> SUFFICES ASSUME NEW p, NEW r, Hears(p, r)
               PROVE  /\ Returned(main) /\ UNCHANGED sensor /\ place[main] = p
                      /\ ~disturbed' => r = answer[main] /\ (p \in Commanding => r \in Possible(p))
    OBVIOUS
  <2>1. Return(main, r) /\ place[main] = p /\ UNCHANGED sensor  BY DEF Hears
  <2>2. Returned(main) /\ (~disturbed' => r = answer[main])  BY <1>1, <2>1, ReturnFrame
  <2>3. main \in asking  BY <2>2 DEF Returned
  <2> QED  BY <2>1, <2>2, <2>3 DEF AnswerInv
<1>3. ASSUME NEW q, GoTo(q), place[main] # "store",
             \/ (place[main] \in EnrolPlaces /\ q \in EnrolPlaces)
             \/ (place[main] \in FindPlaces /\ q \in FindPlaces)
      PROVE  Goes(q) /\ ("link" \notin trouble' => ~disturbed')
  BY <1>3 DEF GoTo, Goes
<1>4. \A r : End(r) => Ended
  <2> SUFFICES ASSUME NEW r, End(r) PROVE Ended  OBVIOUS
  <2>1. page' \in {page, [page EXCEPT ![main] = 0]}  BY DEF End
  <2> QED  BY <2>1 DEF End, Ended
<1> HIDE DEF EnrolPlaces, FindPlaces
<1> DEFINE Told(p, r) == r = answer[main] /\ (p \in Commanding => r \in Possible(p))
<1> DEFINE Outcome == Ended \/ \E q : Goes(q) /\ ("link" \notin trouble' => Follows(q))
<1>5. ASSUME NEW p, NEW r, NEW q, Hears(p, r), GoTo(q), p # "store",
             (p \in EnrolPlaces /\ q \in EnrolPlaces) \/ (p \in FindPlaces /\ q \in FindPlaces),
             Told(p, r) => Follows(q)
      PROVE  Outcome
  <2>1. Goes(q) /\ ("link" \notin trouble' => ~disturbed')  BY <1>2, <1>3, <1>5
  <2>2. "link" \notin trouble' => Follows(q)  BY <1>2, <1>5, <2>1
  <2> QED  BY <2>1, <2>2
<1> USE DEF Commanding
<1>6. ASSUME HearImage("image1", "tz1") PROVE Outcome
  <2>1. PICK r : Hears("image1", r) /\ GoTo(IF r[1] = FINGERPRINT_OK THEN "tz1" ELSE "image1")
    BY <1>6 DEF HearImage
  <2>2. PICK q \in {"tz1", "image1"} : GoTo(q)  BY <2>1
  <2>3. Follows(q)  BY <1>2, <2>1, <2>2 DEF Follows
  <2>4. q \in EnrolPlaces /\ "image1" \in EnrolPlaces  BY <2>2 DEF EnrolPlaces
  <2> QED  BY <1>5, <2>1, <2>2, <2>3, <2>4
<1>7. ASSUME HearImage("image2", "tz2") PROVE Outcome
  <2>1. PICK r : Hears("image2", r) /\ GoTo(IF r[1] = FINGERPRINT_OK THEN "tz2" ELSE "image2")
    BY <1>7 DEF HearImage
  <2>2. PICK q \in {"tz2", "image2"} : GoTo(q)  BY <2>1
  <2>3. Follows(q)  BY <1>2, <2>1, <2>2 DEF Follows
  <2>4. q \in EnrolPlaces /\ "image2" \in EnrolPlaces  BY <2>2 DEF EnrolPlaces
  <2> QED  BY <1>5, <2>1, <2>2, <2>3, <2>4
<1>8. ASSUME HearImage("scan", "convert") PROVE Outcome
  <2>1. PICK r : Hears("scan", r) /\ GoTo(IF r[1] = FINGERPRINT_OK THEN "convert" ELSE "scan")
    BY <1>8 DEF HearImage
  <2>2. PICK q \in {"convert", "scan"} : GoTo(q)  BY <2>1
  <2>3. Follows(q)  BY <1>2, <2>1, <2>2 DEF Follows
  <2>4. q \in FindPlaces /\ "scan" \in FindPlaces  BY <2>2 DEF FindPlaces
  <2> QED  BY <1>5, <2>1, <2>2, <2>3, <2>4
<1>9. ASSUME HearLift PROVE Outcome
  <2>1. PICK r : Hears("lift", r) /\ GoTo(IF r[1] = FINGERPRINT_NOFINGER THEN "image2" ELSE "lift")
    BY <1>9 DEF HearLift
  <2>2. PICK q \in {"image2", "lift"} : GoTo(q)  BY <2>1
  <2>3. Follows(q)  BY <1>2, <2>1, <2>2 DEF Follows
  <2>4. q \in EnrolPlaces /\ "lift" \in EnrolPlaces  BY <2>2 DEF EnrolPlaces
  <2> QED  BY <1>5, <2>1, <2>2, <2>3, <2>4
<1>10. ASSUME HearSecondFeatures PROVE Outcome
  <2>1. PICK r : Hears("tz2", r) /\ GoTo("create")  BY <1>10 DEF HearSecondFeatures
  <2>2. Follows("create")  BY <1>2, <2>1 DEF Follows
  <2>3. "tz2" \in EnrolPlaces /\ "create" \in EnrolPlaces  BY DEF EnrolPlaces
  <2> QED  BY <1>5, <2>1, <2>2, <2>3
<1>11. ASSUME HearFeatures PROVE Outcome
  <2>1. PICK r : Hears("tz1", r) /\ GoTo(IF r[1] = FINGERPRINT_OK THEN "search" ELSE "tz1")
    BY <1>11 DEF HearFeatures
  <2>2. "tz1" \in EnrolPlaces /\ "search" \in EnrolPlaces  BY DEF EnrolPlaces
  <2>3. CASE r[1] = FINGERPRINT_OK
    <3>1. Told("tz1", r) => Follows("search")
      BY <1>2, <2>1, <2>3, PossibleCodes DEF Follows
    <3> QED  BY <1>5, <2>1, <2>2, <2>3, <3>1
  <2>4. CASE r[1] # FINGERPRINT_OK
    <3>1. Hears("tz1", r) /\ GoTo("tz1")  BY <2>1, <2>4, Zenon
    <3>2. Follows("tz1")  BY <1>2, <3>1 DEF Follows
    <3> QED  BY <1>5, <2>2, <3>1, <3>2
  <2> QED  BY <2>3, <2>4
<1>12. ASSUME HearConvert PROVE Outcome
  <2>1. PICK r : Hears("convert", r) /\ IF r[1] = FINGERPRINT_OK THEN GoTo("match") ELSE End(FAILED)
    BY <1>12 DEF HearConvert
  <2>2. "convert" \in FindPlaces /\ "match" \in FindPlaces  BY DEF FindPlaces
  <2>3. CASE r[1] = FINGERPRINT_OK
    <3>1. Told("convert", r) => Follows("match")
      BY <1>2, <2>1, <2>3, PossibleCodes DEF Follows
    <3> QED  BY <1>5, <2>1, <2>2, <2>3, <3>1
  <2>4. CASE r[1] # FINGERPRINT_OK  BY <1>4, <2>1, <2>4
  <2> QED  BY <2>3, <2>4
<1>13. ASSUME NEW p \in {"create", "create2"}, HearCreate(p) PROVE Outcome
  <2>1. PICK r : /\ Hears(p, r)
                 /\ CASE r[1] = FINGERPRINT_PACKETRECIEVER -> End(FAILED)
                      [] r[1] = FINGERPRINT_ENROLLMISMATCH ->
                             IF p = "create" THEN GoTo("create2") ELSE End(FAILED)
                      [] OTHER -> GoTo("store")
    BY <1>13 DEF HearCreate
  <2>2. p \in EnrolPlaces /\ "create2" \in EnrolPlaces /\ "store" \in EnrolPlaces  BY DEF EnrolPlaces
  <2>3. CASE End(FAILED)  BY <1>4, <2>3
  <2>4. CASE p = "create" /\ GoTo("create2") /\ r[1] = FINGERPRINT_ENROLLMISMATCH
    <3>1. Told(p, r) => Follows("create2")
      BY <1>2, <2>1, <2>4, PossibleCodes DEF Follows
    <3> QED  BY <1>5, <2>1, <2>2, <2>4, <3>1
  <2>5. CASE GoTo("store") /\ r[1] \notin {FINGERPRINT_PACKETRECIEVER, FINGERPRINT_ENROLLMISMATCH}
    <3>1. Told(p, r) => Follows("store")
      BY <1>2, <2>1, <2>5, PossibleCodes DEF Follows
    <3> QED  BY <1>5, <2>1, <2>2, <2>5, <3>1
  <2> QED  BY <2>1, <2>3, <2>4, <2>5
<1>14. ASSUME HearSearch PROVE Outcome
  <2>1. PICK r : /\ Hears("search", r)
                 /\ CASE r[1] = FINGERPRINT_OK -> End(ERROR)
                      [] r[1] = FINGERPRINT_NOTFOUND -> GoTo("lift")
                      [] OTHER -> Unsearched
    BY <1>14 DEF HearSearch
  <2>2. "search" \in EnrolPlaces /\ "lift" \in EnrolPlaces  BY DEF EnrolPlaces
  <2>3. CASE End(ERROR)  BY <1>4, <2>3
  <2>4. CASE GoTo("lift") /\ r[1] = FINGERPRINT_NOTFOUND
    <3>1. Told("search", r) => Follows("lift")
      BY <1>2, <2>1, <2>4, PossibleCodes DEF Follows
    <3> QED  BY <1>5, <2>1, <2>2, <2>4, <3>1
  <2>5. CASE Unsearched
    <3>1. Goes("lift") /\ trouble' # {}  BY <1>2, <2>1, <2>2, <2>5 DEF Unsearched, Goes
    <3>2. Follows("lift")  BY <1>2, <2>1, <3>1 DEF Follows
    <3> QED  BY <3>1, <3>2
  <2> QED  BY <2>1, <2>3, <2>4, <2>5
<1>15. ASSUME HearStore \/ HearMatch \/ HearDelete PROVE Outcome
  <2>1. PICK r : End(r)
    <3>1. CASE HearStore  BY <3>1 DEF HearStore
    <3>2. CASE HearMatch  BY <3>2 DEF HearMatch
    <3>3. CASE HearDelete  BY <3>3 DEF HearDelete
    <3> QED  BY <1>15, <3>1, <3>2, <3>3
  <2> QED  BY <1>4, <2>1
<1>16. Returned(main) /\ UNCHANGED sensor
  <2>1. PICK p, r : Hears(p, r)
    BY DEF MainHears, HearImage, HearFeatures, HearSearch, HearLift, HearSecondFeatures, HearCreate,
           HearStore, HearConvert, HearMatch, HearDelete
  <2> QED  BY <1>2, <2>1
<1>17. Outcome
  BY <1>6, <1>7, <1>8, <1>9, <1>10, <1>11, <1>12, <1>13, <1>14, <1>15 DEF MainHears
<1> QED  BY <1>16, <1>17

-----------------------------------------------------------------------------
(* The steps keep the invariant *)

LEMMA InitHolds == Init => IInv
<1> SUFFICES ASSUME Init PROVE IInv  OBVIOUS
<1> USE TwoThreads DEF Init, LinkInit
<1>1. library \in [Pages -> Templates]  BY LibraryFacts
<1>2. image \in Images  BY DEF Images
<1>3. char \in [1..2 -> Templates]  BY TemplateFacts
<1>4. TypeOK
  <2>1. place[main] = "idle" /\ place[deletion] = "idle" /\ \A t \in Threads : place[t] = "idle"
    OBVIOUS
  <2>2. \A t \in Threads : place[t] \notin EnrolPlaces \cup {"delete"}  BY <2>1 DEF EnrolPlaces
  <2>3. page \in [Threads -> Pages \cup {0}]  OBVIOUS
  <2> QED  BY <1>1, <1>2, <1>3, <2>1, <2>2, <2>3 DEF TypeOK
<1>5. Domains /\ AnswerInv /\ CharInv  BY DEF Domains, AnswerInv, CharInv
<1>6. StoreInv /\ SearchInv /\ MatchInv /\ DeleteInv
  BY DEF StoreInv, SearchInv, MatchInv, DeleteInv
<1> QED  BY <1>4, <1>5, <1>6 DEF IInv

\* A deletion, by either thread.
LEMMA DeleteKeeps ==
    ASSUME IInv, NEW t \in Threads, Sends(t) \/ IsRefused(t), place[t] = "delete"
    PROVE  IInv'
<1>0. TypeOK /\ Domains /\ AnswerInv /\ CharInv /\ StoreInv /\ SearchInv /\ MatchInv /\ DeleteInv
  BY DEF IInv
<1>1. Sent(t)  BY <1>0, StepSent
<1>2. DeletesOrNot(t)  BY <1>0, StepDeletes
<1>3. main \in Threads /\ deletion \in Threads /\ Threads = {main, deletion} /\ main # deletion
  BY TwoThreads
<1>4. library \in [Pages -> Templates] /\ library' \in [Pages -> Templates]
      /\ \A q \in Pages : library'[q] \in {library[q], Nothing}
  BY <1>0, <1>2, TemplateFacts DEF TypeOK, DeletesOrNot
<1>5. TypeOK'
  <2>1. (\A u \in asking : place[u] # "idle")'  BY <1>0, <1>1 DEF TypeOK, Sent
  <2>2. (asking \subseteq Threads)'  BY <1>0, <1>1 DEF TypeOK, Sent
  <2> QED  BY <1>0, <1>1, <1>2, <1>4, <2>1, <2>2 DEF TypeOK, Sent, DeletesOrNot
<1>6. Domains'  BY <1>0, <1>1 DEF Domains, Sent
<1>7. AnswerInv'
  <2> SUFFICES ASSUME NEW u \in asking', place[u] \in Commanding PROVE answer'[u] \in Possible(place[u])
    BY <1>1 DEF AnswerInv, Sent
  <2>1. CASE u = t  BY <1>2, <2>1 DEF DeletesOrNot
  <2>2. CASE u # t
    <3>1. u \in asking /\ u \in Threads  BY <1>0, <1>1, <2>2 DEF Sent, TypeOK
    <3> QED  BY <1>0, <1>1, <2>2, <3>1 DEF Sent, AnswerInv
  <2> QED  BY <2>1, <2>2
<1>8. place[main] # "delete" => t = deletion /\ (Done' <=> Done)
                                /\ answer'[main] = answer[main]
                                /\ (main \in asking' <=> main \in asking)
  BY <1>1, <1>3 DEF Sent, Done
<1>9. CharInv'
  <2>1. CASE place[main] = "delete"  BY <1>1, <2>1 DEF CharInv, Sent
  <2>2. CASE place[main] # "delete"  BY <1>0, <1>1, <1>2, <1>8, <2>2 DEF CharInv, Sent, DeletesOrNot
  <2> QED  BY <2>1, <2>2
<1>10. main \in asking /\ place[main] # "delete" => disturbed'
  BY <1>1, <1>8 DEF Sent
<1>11. StoreInv'
  <2>1. CASE place[main] = "delete"
    BY <1>0, <1>1, <1>2, <2>1 DEF StoreInv, Sent, DeletesOrNot
  <2>2. CASE place[main] # "delete"
    BY <1>0, <1>1, <1>2, <1>8, <1>10, <2>2 DEF StoreInv, Sent, DeletesOrNot, Done
  <2> QED  BY <2>1, <2>2
<1>12. scanned \in Fingers /\ Unknown => Unknown'
  BY <1>2, <1>4, PageFacts, TemplateFacts DEF Unknown, DeletesOrNot
<1>13. SearchInv'
  <2>1. CASE place[main] = "delete"  BY <1>1, <2>1 DEF SearchInv, Sent
  <2>2. CASE place[main] # "delete"
    <3>1. "link" \notin trouble
          /\ place[main] \in {"search", "lift", "image2", "tz2", "create", "create2", "store"}
          => scanned \in Fingers
      BY <1>0 DEF CharInv
    <3> QED  BY <1>0, <1>1, <1>2, <1>8, <1>12, <2>2, <3>1 DEF SearchInv, Sent, DeletesOrNot
  <2> QED  BY <2>1, <2>2
<1>14. MatchInv'
  <2>1. CASE place[main] = "delete"  BY <1>1, <2>1 DEF MatchInv, Sent
  <2>2. CASE place[main] # "delete"
    BY <1>0, <1>1, <1>8, <1>10, <2>2 DEF MatchInv, Sent
  <2> QED  BY <2>1, <2>2
<1>15. DeleteInv'
  <2> SUFFICES ASSUME NEW u \in asking', place[u] = "delete", answer'[u] = Ok, ~disturbed'
               PROVE  library'[page[u]] = Nothing
    BY <1>1 DEF DeleteInv, Sent
  <2>1. u = t  BY <1>1 DEF Sent
  <2>2. page[t] \in Pages  BY <1>0 DEF TypeOK
  <2> QED  BY <1>2, <1>4, <2>1, <2>2 DEF DeletesOrNot
<1> QED  BY <1>5, <1>6, <1>7, <1>9, <1>11, <1>13, <1>14, <1>15 DEF IInv

\* Any other command of main.
LEMMA CommandKeeps ==
    ASSUME IInv, Sends(main) \/ IsRefused(main), place[main] # "delete"
    PROVE  IInv'
<1>0. TypeOK /\ Domains /\ AnswerInv /\ CharInv /\ StoreInv /\ SearchInv /\ MatchInv /\ DeleteInv
  BY DEF IInv
<1>1. main \in Threads /\ deletion \in Threads /\ Threads = {main, deletion} /\ main # deletion
  BY TwoThreads
<1>2. Sent(main)  BY <1>0, <1>1, StepSent
<1>3. AsksMain /\ ConvertsMain /\ SearchesMain /\ CreatesMain /\ StoresMain
  BY <1>0, MainSends, MainRefused
<1>4. place[main] \in Asks \cup {"tz1", "convert", "tz2", "search", "match", "create", "create2", "store"}
  BY <1>0, <1>2 DEF TypeOK, Sent, EnrolPlaces, FindPlaces, Asks
<1>5. char' \in [1..2 -> Templates] /\ scanned' \in Fingers \cup {NoFinger}
  BY <1>0, <1>3, <1>4
  DEF TypeOK, AsksMain, ConvertsMain, SearchesMain, CreatesMain, StoresMain
<1>6. library' \in [Pages -> Templates]
  <2>1. CASE place[main] = "store"
    <3>1. page[main] \in Pages  BY <1>0, <1>1, <2>1 DEF TypeOK, EnrolPlaces
    <3> QED  BY <1>0, <1>3, <2>1, <3>1 DEF TypeOK, StoresMain
  <2>2. CASE place[main] # "store"
    BY <1>0, <1>3, <1>4, <2>2 DEF TypeOK, AsksMain, ConvertsMain, SearchesMain, CreatesMain
  <2> QED  BY <2>1, <2>2
<1>7. stored' \in BOOLEAN
  <2>1. stored \in BOOLEAN  BY <1>0 DEF TypeOK
  <2>2. stored' \in {stored, TRUE}
    <3>1. CASE Sends(main)
      BY <3>1 DEF Sends, GetImage, Image2Tz, CreateModel, StoreModel, DeleteTemplate, FingerFastSearch
    <3>2. CASE IsRefused(main)  BY <3>2 DEF IsRefused, Refuse
    <3> QED  BY <3>1, <3>2
  <2> QED  BY <2>1, <2>2
<1>8. TypeOK'
  <2>1. (\A u \in asking : place[u] # "idle")'  BY <1>0, <1>2 DEF TypeOK, Sent
  <2>2. (asking \subseteq Threads)'  BY <1>0, <1>1, <1>2 DEF TypeOK, Sent
  <2> QED  BY <1>0, <1>2, <1>5, <1>6, <1>7, <2>1, <2>2 DEF TypeOK, Sent
<1>9. Domains'  BY <1>0, <1>2 DEF Domains, Sent
<1>10. AnswerInv'
  <2> SUFFICES ASSUME NEW u \in asking', place[u] \in Commanding PROVE answer'[u] \in Possible(place[u])
    BY <1>2 DEF AnswerInv, Sent
  <2>1. CASE u = main
    BY <1>3, <2>1 DEF ConvertsMain, SearchesMain, CreatesMain, StoresMain, Commanding
  <2>2. CASE u # main
    <3>1. u \in asking /\ u \in Threads  BY <1>0, <1>2, <2>2 DEF Sent, TypeOK
    <3> QED  BY <1>0, <1>2, <2>2, <3>1 DEF Sent, AnswerInv
  <2> QED  BY <2>1, <2>2
<1>11. main \in asking' /\ ~Done /\ (Done' <=> answer'[main] = Ok) /\ main \notin asking
  BY <1>2 DEF Sent, Done
<1>12. ~stored  BY <1>0, <1>11 DEF StoreInv
<1>13. CharInv'
  <2> SUFFICES ASSUME "link" \notin trouble PROVE CharInv'
    BY <1>2 DEF CharInv, Sent
  <2>1. CASE place[main] \in Asks
    BY <1>0, <1>2, <1>3, <2>1 DEF CharInv, Sent, AsksMain, Asks
  <2>2. CASE place[main] \in {"tz1", "convert"}
    BY <1>0, <1>2, <1>3, <1>11, <2>2 DEF CharInv, Sent, ConvertsMain
  <2>3. CASE place[main] = "tz2"
    BY <1>0, <1>2, <1>3, <2>3 DEF CharInv, Sent, ConvertsMain
  <2>4. CASE place[main] \in {"search", "match"}
    BY <1>0, <1>2, <1>3, <2>4 DEF CharInv, Sent, SearchesMain
  <2>5. CASE place[main] \in {"create", "create2"}
    <3>1. char[1] = Scan(scanned) /\ scanned \in Fingers  BY <1>0, <1>11, <2>5 DEF CharInv
    <3>2. char[1].finger = scanned  BY <3>1, TemplateFacts
    <3> QED  BY <1>2, <1>3, <1>11, <2>5, <3>1, <3>2 DEF CharInv, Sent, CreatesMain
  <2>6. CASE place[main] = "store"
    BY <1>0, <1>2, <1>3, <2>6 DEF CharInv, Sent, StoresMain
  <2> QED  BY <1>4, <2>1, <2>2, <2>3, <2>4, <2>5, <2>6
<1>14. StoreInv'
  <2>1. CASE place[main] = "store" /\ answer'[main] = Ok
    <3>1. "link" \notin trouble => char[1] = Model(scanned)  BY <1>0, <2>1 DEF CharInv
    <3>2. page[main] \in Pages  BY <1>0, <1>1, <2>1 DEF TypeOK, EnrolPlaces
    <3> QED  BY <1>0, <1>2, <1>3, <1>11, <2>1, <3>1, <3>2 DEF StoreInv, Sent, StoresMain, TypeOK
  <2>2. CASE place[main] = "store" /\ answer'[main] # Ok
    BY <1>2, <1>3, <1>11, <1>12, <2>2 DEF StoreInv, Sent, StoresMain
  <2>3. CASE place[main] # "store"
    <3>1. stored' = stored
      BY <1>3, <1>4, <2>3 DEF AsksMain, ConvertsMain, SearchesMain, CreatesMain
    <3> QED  BY <1>2, <1>12, <2>3, <3>1 DEF StoreInv, Sent
  <2> QED  BY <2>1, <2>2, <2>3
<1>15. SearchInv'
  <2>1. CASE place[main] = "search"
    <3> SUFFICES ASSUME answer'[main] = <<FINGERPRINT_NOTFOUND>>, "link" \notin trouble PROVE Unknown'
      BY <1>2, <2>1 DEF SearchInv, Sent
    <3>1. char[1] = Scan(scanned) /\ scanned \in Fingers  BY <1>0, <2>1 DEF CharInv
    <3>2. char[1] # Nothing /\ char[1].finger = scanned  BY <3>1, TemplateFacts
    <3> QED  BY <1>3, <2>1, <3>2 DEF SearchesMain, Unknown
  <2>2. CASE place[main] \in {"lift", "image2", "tz2", "create", "create2"}
    <3>1. UNCHANGED <<library, scanned, stored>>
      BY <1>3, <2>2 DEF AsksMain, Asks, ConvertsMain, CreatesMain
    <3> QED  BY <1>0, <1>2, <2>2, <3>1 DEF SearchInv, Sent, Unknown
  <2>3. CASE place[main] = "store"
    BY <1>0, <1>2, <1>3, <1>12, <2>3 DEF SearchInv, Sent, StoresMain, Unknown
  <2>4. CASE place[main] \in {"image1", "scan", "tz1", "convert", "match"}
    BY <1>2, <2>4 DEF SearchInv, Sent
  <2> QED  BY <1>4, <2>1, <2>2, <2>3, <2>4 DEF Asks
<1>16. MatchInv'
  <2> SUFFICES ASSUME NEW p \in SearchPages, place[main] = "match",
                      answer'[main] = <<FINGERPRINT_OK, p>>, "link" \notin trouble
               PROVE  library'[p].finger = scanned'
    BY <1>2 DEF MatchInv, Sent
  <2>1. char[1] = Scan(scanned)  BY <1>0 DEF CharInv
  <2> QED  BY <1>3, <2>1, TemplateFacts DEF SearchesMain
<1>17. DeleteInv'
  <2> SUFFICES ASSUME NEW u \in asking', place[u] = "delete", ~disturbed' PROVE FALSE
    BY <1>2 DEF DeleteInv, Sent
  <2> QED  BY <1>2 DEF Sent
<1> QED  BY <1>8, <1>9, <1>10, <1>13, <1>14, <1>15, <1>16, <1>17 DEF IInv

\* main ends its procedure, by an answer or by the clock.
LEMMA EndKeeps ==
    ASSUME IInv, Ended, UNCHANGED sensor,
           UNCHANGED linkVars \/ Returned(main),
           place[main] # "idle", main \notin asking'
    PROVE  IInv'
<1>0. TypeOK /\ Domains /\ AnswerInv /\ CharInv /\ StoreInv /\ SearchInv /\ MatchInv /\ DeleteInv
  BY DEF IInv
<1>1. main \in Threads /\ deletion \in Threads /\ Threads = {main, deletion} /\ main # deletion
  BY TwoThreads
<1>2. /\ DOMAIN place' = Threads /\ DOMAIN result' = Threads
      /\ place'[main] = "idle" /\ place'[deletion] = place[deletion]
  BY <1>0, <1>1 DEF Domains, Ended, Finish
<1>3. /\ asking' \subseteq asking /\ DOMAIN answer' = Threads
      /\ answer'[deletion] = answer[deletion] /\ (~disturbed' => ~disturbed)
      /\ disturbed' \in BOOLEAN
  <2>1. CASE UNCHANGED linkVars  BY <1>0, <2>1 DEF Domains, linkVars
  <2>2. CASE Returned(main)  BY <1>1, <2>2 DEF Returned
  <2> QED  BY <2>1, <2>2
<1>4. \A u \in asking' : u = deletion /\ u \in asking
  BY <1>0, <1>1, <1>3 DEF TypeOK
<1>5. page' \in [Threads -> Pages \cup {0}] /\ page'[deletion] = page[deletion]
  <2>1. page \in [Threads -> Pages \cup {0}]  BY <1>0 DEF TypeOK
  <2>2. CASE page' = page  BY <2>1, <2>2
  <2>3. CASE page' = [page EXCEPT ![main] = 0]  BY <1>1, <2>1, <2>3
  <2> QED  BY <2>2, <2>3 DEF Ended
<1>6. TypeOK'
  <2>1. (\A u \in asking : place[u] # "idle")'  BY <1>0, <1>1, <1>2, <1>4 DEF TypeOK
  <2>2. (\A t \in Threads : place[t] \in EnrolPlaces \cup {"delete"} => page[t] # 0)'
    BY <1>0, <1>1, <1>2, <1>5 DEF TypeOK, EnrolPlaces
  <2>3. image' \in Images /\ char' \in [1..2 -> Templates] /\ library' \in [Pages -> Templates]
    BY <1>0 DEF TypeOK, sensor
  <2> QED  BY <1>0, <1>1, <1>2, <1>4, <1>5, <2>1, <2>2, <2>3 DEF TypeOK, Ended
<1>7. Domains'  BY <1>2, <1>3 DEF Domains
<1>8. AnswerInv'  BY <1>0, <1>2, <1>3, <1>4 DEF AnswerInv
<1>9. CharInv' /\ StoreInv' /\ SearchInv' /\ MatchInv'
  BY <1>2 DEF CharInv, StoreInv, SearchInv, MatchInv, Ended
<1>10. DeleteInv'
  BY <1>0, <1>2, <1>3, <1>4, <1>5 DEF DeleteInv, sensor
<1> QED  BY <1>6, <1>7, <1>8, <1>9, <1>10 DEF IInv

\* main goes on.
LEMMA GoKeeps ==
    ASSUME IInv, Returned(main), UNCHANGED sensor, NEW q, Goes(q),
           "link" \notin trouble' => Follows(q)
    PROVE  IInv'
<1>0. TypeOK /\ Domains /\ AnswerInv /\ CharInv /\ StoreInv /\ SearchInv /\ MatchInv /\ DeleteInv
  BY DEF IInv
<1>1. main \in Threads /\ deletion \in Threads /\ Threads = {main, deletion} /\ main # deletion
  BY TwoThreads
<1>2. /\ DOMAIN place' = Threads /\ place'[main] = q /\ place'[deletion] = place[deletion]
      /\ q \in EnrolPlaces \cup FindPlaces
  BY <1>0, <1>1 DEF Domains, Goes
<1>3. \A u \in asking' : u = deletion /\ u \in asking /\ answer'[u] = answer[u]
  BY <1>0, <1>1 DEF TypeOK, Returned
<1>4. ~Done' /\ main \notin asking'  BY DEF Returned, Done
<1>5. q # "idle" /\ q # "delete"  BY <1>2 DEF EnrolPlaces, FindPlaces
<1>6. TypeOK'
  <2>1. (\A u \in asking : place[u] # "idle")'  BY <1>0, <1>1, <1>2, <1>3 DEF TypeOK
  <2>2. q \in EnrolPlaces => place[main] \in EnrolPlaces  BY DEF Goes, EnrolPlaces, FindPlaces
  <2>3. (\A t \in Threads : place[t] \in EnrolPlaces \cup {"delete"} => page[t] # 0)'
    BY <1>0, <1>1, <1>2, <1>5, <2>2 DEF TypeOK, Goes
  <2>4. image' \in Images /\ char' \in [1..2 -> Templates] /\ library' \in [Pages -> Templates]
    BY <1>0 DEF TypeOK, sensor
  <2>5. trouble' \subseteq {"link", "search"}  BY <1>0 DEF TypeOK, Goes
  <2> QED  BY <1>0, <1>1, <1>2, <1>3, <2>1, <2>3, <2>4, <2>5 DEF TypeOK, Goes
<1>7. Domains'  BY <1>0, <1>2 DEF Domains, Returned, Goes
<1>8. AnswerInv'  BY <1>0, <1>2, <1>3 DEF AnswerInv
<1>9. UNCHANGED <<char, library, page, scanned, stored>>  BY DEF sensor, Goes
<1>10. ASSUME "link" \notin trouble'
       PROVE  "link" \notin trouble /\ ~disturbed' /\ ~disturbed /\ Follows(q) /\ main \in asking
  BY <1>10 DEF Goes, Returned
<1>11. CharInv'
  <2> SUFFICES ASSUME "link" \notin trouble' PROVE CharInv'
    BY DEF CharInv
  <2>1. Follows(q) /\ "link" \notin trouble /\ main \in asking  BY <1>10
  <2>2. /\ place[main] \in {"tz1", "convert"} /\ Done => char[1] = Scan(scanned) /\ scanned \in Fingers
        /\ place[main] \in {"search", "lift", "image2", "tz2", "match"} =>
               char[1] = Scan(scanned) /\ scanned \in Fingers
        /\ place[main] \in {"create", "create2"} =>
               char[1] = (IF Done THEN Model(scanned) ELSE Scan(scanned)) /\ scanned \in Fingers
    BY <1>0, <2>1 DEF CharInv
  <2>3. CASE place[main] \in {"image1", "lift", "image2", "tz2", "scan"}
    <3>1. \/ q \in {"image1", "tz1", "scan", "convert"}
          \/ q \in {"lift", "image2", "tz2", "create"} /\ place[main] \in {"lift", "image2", "tz2"}
      BY <2>1, <2>3 DEF Follows
    <3>2. CASE q \in {"image1", "tz1", "scan", "convert"}
      BY <1>2, <1>4, <3>2 DEF CharInv
    <3>3. CASE q \in {"lift", "image2", "tz2", "create"} /\ place[main] \in {"lift", "image2", "tz2"}
      BY <1>2, <1>4, <1>9, <2>2, <3>3 DEF CharInv
    <3> QED  BY <3>1, <3>2, <3>3
  <2>4. CASE place[main] = "tz1"
    <3>1. q = "tz1" \/ (q = "search" /\ Done)  BY <2>1, <2>4 DEF Follows, Done
    <3> QED  BY <1>2, <1>4, <1>9, <2>2, <2>4, <3>1 DEF CharInv
  <2>5. CASE place[main] = "convert"
    <3>1. q = "match" /\ Done  BY <2>1, <2>5 DEF Follows, Done
    <3> QED  BY <1>2, <1>4, <1>9, <2>2, <2>5, <3>1 DEF CharInv
  <2>6. CASE place[main] = "search"
    <3>1. q = "lift"  BY <2>1, <2>6 DEF Follows
    <3> QED  BY <1>2, <1>4, <1>9, <2>2, <2>6, <3>1 DEF CharInv
  <2>7. CASE place[main] \in {"create", "create2"}
    <3>1. \/ q = "create2" /\ ~Done
          \/ q = "store" /\ Done
      BY <2>1, <2>7 DEF Follows, Done
    <3> QED  BY <1>2, <1>4, <1>9, <2>2, <2>7, <3>1 DEF CharInv
  <2> QED  BY <2>1, <2>3, <2>4, <2>5, <2>6, <2>7 DEF Follows
<1>12. ~stored /\ ~stored'  BY <1>0, <1>9 DEF StoreInv, Goes
<1>13. StoreInv'  BY <1>4, <1>12 DEF StoreInv
<1>14. SearchInv'
  <2> SUFFICES ASSUME q \in {"lift", "image2", "tz2", "create", "create2", "store"}, trouble' = {}
               PROVE  Unknown'
    BY <1>2, <1>4 DEF SearchInv
  <2>1. Follows(q) /\ trouble = {} /\ main \in asking  BY <1>10 DEF Goes
  <2>2. CASE place[main] = "search"
    BY <1>0, <1>9, <2>1, <2>2 DEF Follows, SearchInv, Unknown
  <2>3. CASE place[main] \in {"lift", "image2", "tz2", "create", "create2"}
    BY <1>0, <1>9, <1>12, <2>1, <2>3 DEF SearchInv, Unknown
  <2> QED  BY <2>1, <2>2, <2>3 DEF Follows
<1>15. MatchInv'  BY <1>4 DEF MatchInv
<1>16. DeleteInv'
  <2> SUFFICES ASSUME NEW u \in asking', place'[u] = "delete", answer'[u] = Ok, ~disturbed'
               PROVE  library'[page'[u]] = Nothing
    BY DEF DeleteInv
  <2>1. u = deletion /\ u \in asking /\ answer[u] = Ok /\ place[u] = "delete" /\ ~disturbed
    BY <1>2, <1>3 DEF Returned
  <2> QED  BY <1>0, <1>9, <2>1 DEF DeleteInv
<1> QED  BY <1>6, <1>7, <1>8, <1>11, <1>13, <1>14, <1>15, <1>16 DEF IInv

\* The deletion of post_requestThread ends.
LEMMA DeletionEndKeeps ==
    ASSUME IInv, DeletionHears
    PROVE  IInv'
<1>0. TypeOK /\ Domains /\ AnswerInv /\ CharInv /\ StoreInv /\ SearchInv /\ MatchInv /\ DeleteInv
  BY DEF IInv
<1>1. main \in Threads /\ deletion \in Threads /\ Threads = {main, deletion} /\ main # deletion
  BY TwoThreads
<1>2. PICK r : /\ Return(deletion, r) /\ Finish(deletion, Deleted(r))
               /\ page' = [page EXCEPT ![deletion] = 0]
               /\ UNCHANGED <<sensor, late, scanned, stored, trouble, procedures>>
  BY DEF DeletionHears
<1>3. Returned(deletion)  BY <1>0, <1>1, <1>2, ReturnFrame
<1>4. /\ DOMAIN place' = Threads /\ DOMAIN result' = Threads
      /\ place'[deletion] = "idle" /\ place'[main] = place[main]
      /\ page' \in [Threads -> Pages \cup {0}] /\ page'[main] = page[main]
  BY <1>0, <1>1, <1>2 DEF Domains, TypeOK, Finish
<1>5. UNCHANGED <<image, char, library, late, scanned, stored, trouble>>  BY <1>2 DEF sensor
<1>6. \A u \in asking' : u = main /\ u \in asking  BY <1>0, <1>1, <1>3 DEF TypeOK, Returned
<1>7. answer'[main] = answer[main] /\ (main \in asking' <=> main \in asking)
      /\ (~disturbed' => ~disturbed)
  BY <1>1, <1>3 DEF Returned
<1>8. TypeOK'
  <2>1. (\A u \in asking : place[u] # "idle")'  BY <1>0, <1>4, <1>6 DEF TypeOK
  <2>2. (\A t \in Threads : place[t] \in EnrolPlaces \cup {"delete"} => page[t] # 0)'
    BY <1>0, <1>1, <1>4 DEF TypeOK, EnrolPlaces
  <2> QED  BY <1>0, <1>1, <1>4, <1>5, <1>6, <2>1, <2>2 DEF TypeOK
<1>9. Domains'  BY <1>3, <1>4 DEF Domains, Returned
<1>10. AnswerInv'  BY <1>0, <1>4, <1>6, <1>7 DEF AnswerInv
<1>11. Done' <=> Done  BY <1>7 DEF Done
<1>12. CharInv' /\ StoreInv'
  BY <1>0, <1>4, <1>5, <1>7, <1>11 DEF CharInv, StoreInv
<1>13. SearchInv'  BY <1>0, <1>4, <1>5, <1>7 DEF SearchInv, Unknown
<1>14. MatchInv' /\ DeleteInv'  BY <1>0, <1>4, <1>5, <1>6, <1>7 DEF MatchInv, DeleteInv
<1> QED  BY <1>8, <1>9, <1>10, <1>12, <1>13, <1>14 DEF IInv

\* A procedure begins.
LEMMA BeginKeeps ==
    ASSUME IInv, NEW t \in Threads, NEW p, NEW n \in Pages \cup {0}, Begin(t, p, n),
           p \in {"image1", "scan", "delete"}, p # "scan" => n # 0,
           t = deletion => p = "delete"
    PROVE  IInv'
<1>0. TypeOK /\ Domains /\ AnswerInv /\ CharInv /\ StoreInv /\ SearchInv /\ MatchInv /\ DeleteInv
  BY DEF IInv
<1>1. main \in Threads /\ deletion \in Threads /\ Threads = {main, deletion} /\ main # deletion
  BY TwoThreads
<1>2. /\ place[t] = "idle" /\ t \notin asking
      /\ place' = [place EXCEPT ![t] = p] /\ page' = [page EXCEPT ![t] = n]
      /\ DOMAIN result' = Threads
      /\ UNCHANGED <<asking, answer, disturbed, image, char, library, late, scanned, stored, trouble>>
  BY <1>0 DEF Begin, linkVars, sensor, TypeOK, Domains
<1>3. /\ DOMAIN place' = Threads /\ place'[t] = p /\ page'[t] = n
      /\ page' \in [Threads -> Pages \cup {0}]
      /\ \A u \in Threads \ {t} : place'[u] = place[u] /\ page'[u] = page[u]
  BY <1>0, <1>2 DEF Domains, TypeOK
<1>4. p \in {"idle", "delete"} \cup EnrolPlaces \cup FindPlaces
  BY DEF EnrolPlaces, FindPlaces
<1>5. \A u \in asking : u \in Threads /\ u # t /\ place'[u] = place[u] /\ page'[u] = page[u]
  BY <1>0, <1>2, <1>3 DEF TypeOK
<1>6. TypeOK'
  <2>1. (\A u \in asking : place[u] # "idle")'  BY <1>0, <1>2, <1>5 DEF TypeOK
  <2>2. (\A u \in Threads : place[u] \in EnrolPlaces \cup {"delete"} => page[u] # 0)'
    <3> SUFFICES ASSUME NEW u \in Threads, place'[u] \in EnrolPlaces \cup {"delete"} PROVE page'[u] # 0
      OBVIOUS
    <3>1. CASE u = t  BY <1>3, <3>1 DEF EnrolPlaces
    <3>2. CASE u # t  BY <1>0, <1>3, <3>2 DEF TypeOK
    <3> QED  BY <3>1, <3>2
  <2>3. place'[main] \in {"idle", "delete"} \cup EnrolPlaces \cup FindPlaces
        /\ place'[deletion] \in {"idle", "delete"}
    BY <1>0, <1>1, <1>3, <1>4 DEF TypeOK
  <2> QED  BY <1>0, <1>2, <1>3, <2>1, <2>2, <2>3 DEF TypeOK
<1>7. Domains'  BY <1>0, <1>2, <1>3 DEF Domains
<1>8. AnswerInv' /\ DeleteInv'
  BY <1>0, <1>2, <1>5 DEF AnswerInv, DeleteInv
<1>9. CharInv' /\ StoreInv' /\ SearchInv' /\ MatchInv'
  <2>1. CASE t = main
    <3>1. ~stored /\ ~Done /\ ~Done'  BY <1>0, <1>2, <2>1 DEF StoreInv, Done
    <3> QED
      BY <1>2, <1>3, <2>1, <3>1 DEF CharInv, StoreInv, SearchInv, MatchInv
  <2>2. CASE t # main
    <3>1. place'[main] = place[main] /\ page'[main] = page[main]  BY <1>1, <1>3, <2>2
    <3>2. Done' <=> Done  BY <1>2 DEF Done
    <3>3. CharInv' /\ StoreInv'  BY <1>0, <1>2, <3>1, <3>2 DEF CharInv, StoreInv
    <3>4. SearchInv' /\ MatchInv'  BY <1>0, <1>2, <3>1 DEF SearchInv, MatchInv, Unknown
    <3> QED  BY <3>3, <3>4
  <2> QED  BY <2>1, <2>2
<1> QED  BY <1>6, <1>7, <1>8, <1>9 DEF IInv

\* Nothing but the clock, a bound or the state of the link changes.
LEMMA AsideKeeps ==
    ASSUME IInv, UNCHANGED <<asking, answer, sensor, place, page, result, scanned, stored, trouble>>,
           late' \in BOOLEAN, disturbed' \in {disturbed, TRUE}
    PROVE  IInv'
<1>0. TypeOK /\ Domains /\ AnswerInv /\ CharInv /\ StoreInv /\ SearchInv /\ MatchInv /\ DeleteInv
  BY DEF IInv
<1>1. UNCHANGED <<asking, answer, image, char, library, place, page, result, scanned, stored, trouble>>
      /\ (~disturbed' => ~disturbed) /\ disturbed' \in BOOLEAN
  BY <1>0 DEF sensor, Domains
<1>2. TypeOK'  BY <1>0, <1>1 DEF TypeOK
<1>3. Domains' /\ AnswerInv'  BY <1>0, <1>1 DEF Domains, AnswerInv
<1>4. CharInv' /\ StoreInv'  BY <1>0, <1>1 DEF CharInv, StoreInv, Done
<1>5. SearchInv' /\ MatchInv' /\ DeleteInv'
  BY <1>0, <1>1 DEF SearchInv, MatchInv, DeleteInv, Unknown
<1> QED  BY <1>2, <1>3, <1>4, <1>5 DEF IInv

LEMMA StepHolds == IInv /\ [Next]_vars => IInv'
<1> SUFFICES ASSUME IInv, [Next]_vars PROVE IInv'  OBVIOUS
<1>0. TypeOK /\ Domains /\ AnswerInv /\ main \in Threads /\ deletion \in Threads  BY TwoThreads DEF IInv
<1>1. CASE StartProcedure
  <2>1. ASSUME NEW n \in Pages, Begin(main, "image1", n) PROVE IInv'
    BY <1>0, <2>1, BeginKeeps, PageFacts, TwoThreads
  <2>2. ASSUME Begin(main, "scan", 0) PROVE IInv'
    BY <1>0, <2>2, BeginKeeps, TwoThreads
  <2>3. ASSUME page[main] # 0, Begin(main, "delete", page[main]) PROVE IInv'
    <3>1. page[main] \in Pages \cup {0}  BY <1>0 DEF TypeOK
    <3> QED  BY <1>0, <2>3, <3>1, BeginKeeps, TwoThreads
  <2> QED  BY <1>1, <2>1, <2>2, <2>3 DEF StartProcedure
<1>2. CASE MainHears
  <2>1. Returned(main) /\ UNCHANGED sensor  BY <1>0, <1>2, MainHeard
  <2>2. main \in asking /\ main \notin asking'  BY <2>1 DEF Returned
  <2>3. place[main] # "idle"  BY <1>0, <2>2 DEF TypeOK
  <2>4. CASE Ended  BY <2>1, <2>2, <2>3, <2>4, EndKeeps
  <2>5. ASSUME NEW q, Goes(q), "link" \notin trouble' => Follows(q) PROVE IInv'
    BY <2>1, <2>5, GoKeeps
  <2> QED  BY <1>0, <1>2, <2>4, <2>5, MainHeard
<1>3. CASE TimeOut
  <2>1. PICK r : End(r)  BY <1>3 DEF TimeOut
  <2>2. Ended
    <3>1. page' \in {page, [page EXCEPT ![main] = 0]}  BY <2>1 DEF End
    <3> QED  BY <2>1, <3>1 DEF End, Ended
  <2>3. UNCHANGED sensor /\ UNCHANGED linkVars /\ main \notin asking'
    BY <1>3 DEF TimeOut, linkVars
  <2>4. place[main] # "idle"  BY <1>3 DEF TimeOut, LoopPlaces
  <2> QED  BY <2>2, <2>3, <2>4, EndKeeps
<1>4. ASSUME NEW t \in Threads, Sends(t) \/ IsRefused(t) PROVE IInv'
  <2>1. CASE place[t] = "delete"  BY <1>4, <2>1, DeleteKeeps
  <2>2. CASE place[t] # "delete"
    <3>1. Sent(t)  BY <1>0, <1>4, StepSent
    <3>2. t = main  BY <1>0, <2>2, <3>1, TwoThreads DEF Sent, TypeOK
    <3> QED  BY <1>4, <2>2, <3>2, CommandKeeps
  <2> QED  BY <2>1, <2>2
<1>5. CASE StartDeletion
  <2>1. PICK n \in Pages : Begin(deletion, "delete", n)  BY <1>5 DEF StartDeletion
  <2> QED  BY <1>0, <2>1, BeginKeeps, PageFacts
<1>6. CASE DeletionHears  BY <1>6, DeletionEndKeeps
<1>7. CASE TimePasses
  BY <1>7, AsideKeeps DEF TimePasses, linkVars
<1>8. CASE BrokenReply
  <2>1. late' = late /\ late \in BOOLEAN  BY <1>0, <1>8 DEF BrokenReply, TypeOK
  <2> QED  BY <1>8, <2>1, AsideKeeps DEF BrokenReply, Disturb
<1>9. CASE UNCHANGED vars
  <2>1. late' = late /\ late \in BOOLEAN  BY <1>0, <1>9 DEF vars, TypeOK
  <2> QED  BY <1>9, <2>1, AsideKeeps DEF vars, linkVars
<1> QED  BY <1>1, <1>2, <1>3, <1>4, <1>5, <1>6, <1>7, <1>8, <1>9 DEF Next

-----------------------------------------------------------------------------
(* Theorems *)

\* The inductive invariant holds: what the sensor has done for main agrees with
\* what main has been told (FP_enrolling.c, FP_find_finger.c).
THEOREM Invariance == Spec => []IInv
BY InitHolds, StepHolds, PTL DEF Spec

\* TypeOK holds (the variables of the procedures and the state of the sensor).
THEOREM TypeCorrect == Spec => []TypeOK
<1>1. IInv => TypeOK  BY DEF IInv
<1> QED  BY <1>1, Invariance, PTL

\* Only main's store writes a template; only deletions empty a page.
LEMMA OnlyStoreWrites ==
    ASSUME IInv, [Next]_vars, NEW p \in Pages, library'[p] \notin {library[p], Nothing}
    PROVE  /\ Sends(main) \/ IsRefused(main)
           /\ place[main] = "store" /\ p = page[main] /\ library'[p] = char[1]
           /\ main \notin asking
<1>0. TypeOK /\ Domains /\ AnswerInv /\ main \in Threads /\ deletion \in Threads  BY TwoThreads DEF IInv
<1>1. library' # library  OBVIOUS
<1>2. PICK t \in Threads : Sends(t) \/ IsRefused(t)
  <2>1. CASE StartProcedure  BY <1>1, <2>1 DEF StartProcedure, Begin, sensor
  <2>2. CASE MainHears  BY <1>0, <1>1, <2>2, MainHeard DEF sensor
  <2>3. CASE TimeOut  BY <1>1, <2>3 DEF TimeOut, sensor
  <2>4. CASE StartDeletion  BY <1>1, <2>4 DEF StartDeletion, Begin, sensor
  <2>5. CASE DeletionHears  BY <1>1, <2>5 DEF DeletionHears, sensor
  <2>6. CASE TimePasses  BY <1>1, <2>6 DEF TimePasses, sensor
  <2>7. CASE BrokenReply  BY <1>1, <2>7 DEF BrokenReply, sensor
  <2>8. CASE UNCHANGED vars  BY <1>1, <2>8 DEF vars, sensor
  <2> QED  BY <2>1, <2>2, <2>3, <2>4, <2>5, <2>6, <2>7, <2>8 DEF Next
<1>3. Sent(t)  BY <1>0, <1>2, StepSent
<1>4. place[t] # "delete"
  <2> SUFFICES ASSUME place[t] = "delete" PROVE FALSE  OBVIOUS
  <2>1. DeletesOrNot(t)  BY <1>0, <1>2, StepDeletes
  <2> QED  BY <1>0, <1>1, <2>1 DEF DeletesOrNot, TypeOK
<1>5. t = main  BY <1>0, <1>3, <1>4, TwoThreads DEF Sent, TypeOK
<1>6. AsksMain /\ ConvertsMain /\ SearchesMain /\ CreatesMain /\ StoresMain
  BY <1>0, <1>2, <1>5, MainSends, MainRefused
<1>7. place[main] = "store"
  <2>1. place[main] \in Asks \cup {"tz1", "convert", "tz2", "search", "match", "create", "create2", "store"}
    BY <1>0, <1>3, <1>4, <1>5 DEF TypeOK, Sent, EnrolPlaces, FindPlaces, Asks
  <2> QED  BY <1>1, <1>6, <2>1 DEF AsksMain, ConvertsMain, SearchesMain, CreatesMain
<1>8. library' = [library EXCEPT ![page[main]] = char[1]]  BY <1>1, <1>6, <1>7 DEF StoresMain
<1>9. p = page[main] /\ library'[p] = char[1]  BY <1>0, <1>8 DEF TypeOK
<1> QED  BY <1>2, <1>3, <1>5, <1>7, <1>9 DEF Sent

\* Only a model of two scans is ever stored while the link is undisturbed
\* (FP_enrolling.c:186).
THEOREM OnlyModels == Spec => OnlyModelsStored
<1>1. ASSUME IInv, [Next]_vars
      PROVE  \A p \in Pages :
                library'[p] \notin {library[p], Nothing} /\ "link" \notin trouble => library'[p].merged
  <2> SUFFICES ASSUME NEW p \in Pages, library'[p] \notin {library[p], Nothing}, "link" \notin trouble
               PROVE  library'[p].merged
    OBVIOUS
  <2>1. place[main] = "store" /\ library'[p] = char[1]  BY <1>1, OnlyStoreWrites
  <2>2. char[1] = Model(scanned)  BY <1>1, <2>1 DEF IInv, CharInv
  <2> QED  BY <2>1, <2>2, TemplateFacts
<1> QED  BY <1>1, Invariance, PTL DEF Spec, OnlyModelsStored

\* A finger on a page that the search covers is not enrolled a second time, if the
\* search was answered and the link undisturbed (FP_enrolling.c:98).
THEOREM NoSecond == Spec => NoSecondTemplate
<1>1. ASSUME IInv, [Next]_vars
      PROVE  \A p \in Pages :
                library'[p] \notin {library[p], Nothing} /\ trouble = {} =>
                   \A q \in SearchPages \ {p} : library[q].finger # library'[p].finger
  <2> SUFFICES ASSUME NEW p \in Pages, library'[p] \notin {library[p], Nothing}, trouble = {},
                      NEW q \in SearchPages
               PROVE  library[q].finger # library'[p].finger
    OBVIOUS
  <2>1. place[main] = "store" /\ library'[p] = char[1] /\ main \notin asking
    BY <1>1, OnlyStoreWrites
  <2>2. char[1].finger = scanned
    <3>1. char[1] = Model(scanned)  BY <1>1, <2>1 DEF IInv, CharInv
    <3> QED  BY <3>1, TemplateFacts
  <2>3. ~stored  BY <1>1, <2>1 DEF IInv, StoreInv, Done
  <2>4. Unknown  BY <1>1, <2>1, <2>3 DEF IInv, SearchInv
  <2> QED  BY <2>1, <2>2, <2>4 DEF Unknown
<1> QED  BY <1>1, Invariance, PTL DEF Spec, NoSecondTemplate

\* How main's procedure can end.
LEMMA MainEnds ==
    ASSUME IInv, [Next]_vars, place[main] # "idle", place'[main] = "idle"
    PROVE  \/ TimeOut
           \/ HearSearch \/ HearCreate("create") \/ HearCreate("create2") \/ HearStore
           \/ HearConvert \/ HearMatch \/ HearDelete
<1>0. TypeOK /\ Domains /\ AnswerInv /\ main \in Threads /\ deletion \in Threads /\ main # deletion
  BY TwoThreads DEF IInv
<1>1. place'[main] # place[main]  OBVIOUS
<1>2. ASSUME NEW q, GoTo(q), q # "idle" PROVE FALSE
  BY <1>0, <1>2 DEF GoTo, Domains
<1>3. CASE StartProcedure  BY <1>3 DEF StartProcedure, Begin
<1>4. ASSUME NEW t \in Threads, Sends(t) \/ IsRefused(t) PROVE FALSE
  BY <1>0, <1>1, <1>4, StepSent DEF Sent
<1>5. CASE StartDeletion  BY <1>0, <1>1, <1>5 DEF StartDeletion, Begin, Domains
<1>6. CASE DeletionHears  BY <1>0, <1>1, <1>6 DEF DeletionHears, Finish, Domains
<1>7. CASE TimePasses \/ BrokenReply \/ UNCHANGED vars
  BY <1>1, <1>7 DEF TimePasses, BrokenReply, vars
<1>8. ASSUME HearImage("image1", "tz1") \/ HearImage("image2", "tz2") \/ HearImage("scan", "convert")
      PROVE  FALSE
  <2>1. PICK q \in {"image1", "tz1", "image2", "tz2", "scan", "convert"} : GoTo(q)
    BY <1>8 DEF HearImage
  <2> QED  BY <1>2, <2>1
<1>9. ASSUME HearFeatures \/ HearLift \/ HearSecondFeatures PROVE FALSE
  <2>1. PICK q \in {"search", "tz1", "image2", "lift", "create"} : GoTo(q)
    BY <1>9 DEF HearFeatures, HearLift, HearSecondFeatures
  <2> QED  BY <1>2, <2>1
<1>10. CASE MainHears  BY <1>8, <1>9, <1>10 DEF MainHears
<1> QED  BY <1>3, <1>4, <1>5, <1>6, <1>7, <1>10 DEF Next

\* What main hears, undisturbed, at a place where its answer matters.
LEMMA HeardAnswer ==
    ASSUME IInv, NEW p \in Commanding, NEW r, Hears(p, r), ~disturbed'
    PROVE  /\ place[main] = p /\ main \in asking /\ ~disturbed
           /\ r = answer[main] /\ r \in Possible(p)
<1>1. Domains /\ AnswerInv /\ main \in Threads  BY TwoThreads DEF IInv
<1>2. Return(main, r) /\ place[main] = p  BY DEF Hears
<1>3. Returned(main) /\ r = answer[main]  BY <1>1, <1>2, ReturnFrame
<1> QED  BY <1>1, <1>2, <1>3 DEF Returned, AnswerInv

\* The result that a procedure of main ends with.
LEMMA EndResult ==
    ASSUME IInv, NEW r, End(r)
    PROVE  result'[main] = r
BY TwoThreads DEF IInv, Domains, End, Finish

\* What enrolling returns is true unless the link was disturbed: SUCCESS exactly
\* when a model of the scanned finger has been stored at its page (FP_enrolling.c:212).
THEOREM EnrolTells == Spec => EnrolTellsTruth
<1>1. ASSUME IInv, [Next]_vars,
             place[main] \in EnrolPlaces, place'[main] = "idle", Clean
      PROVE  /\ result'[main] = SUCCESS <=> stored
             /\ stored => library[page[main]] = Model(scanned)
  <2>0. "link" \notin trouble /\ ~disturbed'  BY <1>1 DEF Clean
  <2>1. place[main] # "idle" /\ place[main] \notin FindPlaces /\ place[main] # "delete"
    BY <1>1 DEF EnrolPlaces, FindPlaces
  <2>2. StoreInv  BY <1>1 DEF IInv
  <2>3. ASSUME place[main] # "store", NEW r \in {FAILED, ERROR, TIMEOUT}, End(r)
        PROVE  ~stored /\ result'[main] # SUCCESS
    BY <1>1, <2>2, <2>3, EndResult, Results DEF StoreInv
  <2>4. CASE TimeOut
    <3>1. place[main] \in LoopPlaces /\ \E r \in {FAILED, TIMEOUT} : End(r)  BY <2>4 DEF TimeOut
    <3> QED  BY <2>3, <3>1 DEF LoopPlaces
  <2>5. CASE HearSearch
    <3>1. PICK r : /\ Hears("search", r)
                   /\ CASE r[1] = FINGERPRINT_OK -> End(ERROR)
                        [] r[1] = FINGERPRINT_NOTFOUND -> GoTo("lift")
                        [] OTHER -> Unsearched
      BY <2>5 DEF HearSearch
    <3>2. End(ERROR)
      <4>1. DOMAIN place = Threads /\ main \in Threads  BY <1>1, TwoThreads DEF IInv, Domains
      <4>2. ~GoTo("lift") /\ ~Unsearched  BY <1>1, <4>1 DEF GoTo, Unsearched
      <4> QED  BY <3>1, <4>2
    <3>3. place[main] = "search"  BY <3>1 DEF Hears
    <3> QED  BY <2>3, <3>2, <3>3
  <2>6. ASSUME NEW p \in {"create", "create2"}, HearCreate(p)
        PROVE  ~stored /\ result'[main] # SUCCESS
    <3>1. PICK r : /\ Hears(p, r)
                   /\ CASE r[1] = FINGERPRINT_PACKETRECIEVER -> End(FAILED)
                        [] r[1] = FINGERPRINT_ENROLLMISMATCH ->
                               IF p = "create" THEN GoTo("create2") ELSE End(FAILED)
                        [] OTHER -> GoTo("store")
      BY <2>6 DEF HearCreate
    <3>2. End(FAILED)
      <4>1. DOMAIN place = Threads /\ main \in Threads  BY <1>1, TwoThreads DEF IInv, Domains
      <4>2. ~GoTo("create2") /\ ~GoTo("store")  BY <1>1, <4>1 DEF GoTo
      <4> QED  BY <3>1, <4>2
    <3>3. place[main] = p  BY <3>1 DEF Hears
    <3> QED  BY <2>3, <2>6, <3>2, <3>3
  <2>7. CASE HearStore
    <3>1. PICK r : /\ Hears("store", r)
                   /\ CASE r[1] = FINGERPRINT_OK -> End(SUCCESS)
                        [] r[1] \in {FINGERPRINT_PACKETRECIEVER, FINGERPRINT_BADLOCATION,
                                     FINGERPRINT_FLASHERR} -> End(FAILED)
                        [] OTHER -> End(SUCCESS) \/ End(FAILED)
      BY <2>7 DEF HearStore
    <3>2. place[main] = "store" /\ main \in asking /\ ~disturbed /\ r = answer[main] /\ r \in Possible("store")
      BY <1>1, <2>0, <3>1, HeardAnswer DEF Commanding
    <3>3. stored <=> r = Ok  BY <2>2, <3>2 DEF StoreInv, Done
    <3>4. stored => library[page[main]] = Model(scanned)  BY <2>0, <2>2, <3>2 DEF StoreInv
    <3>5. CASE r = Ok
      <4>1. r[1] = FINGERPRINT_OK  BY <3>5, Tuples DEF Ok
      <4>2. End(SUCCESS)  BY <3>1, <4>1
      <4> QED  BY <1>1, <3>3, <3>4, <3>5, <4>2, EndResult
    <3>6. CASE r # Ok
      <4>1. r[1] \in {FINGERPRINT_PACKETRECIEVER, FINGERPRINT_BADLOCATION, FINGERPRINT_FLASHERR}
        BY <3>2, <3>6, PossibleCodes
      <4>2. End(FAILED)  BY <3>1, <4>1
      <4> QED  BY <1>1, <3>3, <3>6, <4>2, EndResult, Results
    <3> QED  BY <3>5, <3>6
  <2>8. CASE HearConvert \/ HearMatch \/ HearDelete
    BY <2>1, <2>8 DEF HearConvert, HearMatch, HearDelete, Hears, FindPlaces
  <2> QED  BY <1>1, <2>1, <2>4, <2>5, <2>6, <2>7, <2>8, MainEnds
<1> QED  BY <1>1, Invariance, PTL DEF Spec, EnrolTellsTruth

\* The number findFinger returns is that of a page that holds the scanned finger,
\* if it fits into num and the link is undisturbed (FP_find_finger.c:165).
THEOREM MatchTrue == Spec => MatchIsTrue
<1>1. ASSUME IInv, [Next]_vars
      PROVE  \A n \in Pages :
                /\ place[main] = "match" /\ place'[main] = "idle" /\ result'[main] = Found(n)
                /\ Clean /\ answer[main][2] < NumLimit
                => library[n].finger = scanned
  <2> SUFFICES ASSUME NEW n \in Pages, place[main] = "match", place'[main] = "idle",
                      result'[main] = Found(n), Clean, answer[main][2] < NumLimit
               PROVE  library[n].finger = scanned
    OBVIOUS
  <2>0. "link" \notin trouble /\ ~disturbed'  BY DEF Clean
  <2>1. HearMatch
    BY <1>1, MainEnds
    DEF TimeOut, LoopPlaces, HearSearch, HearCreate, HearStore, HearConvert, HearDelete, Hears
  <2>2. PICK r : /\ Hears("match", r)
                 /\ CASE r[1] = FINGERPRINT_OK ->
                             IF Len(r) = 1 THEN End(FAILED)
                             ELSE \E k \in Number(r[2]) : End(Found(k))
                      [] r[1] = FINGERPRINT_NOTFOUND -> End(ERROR)
                      [] OTHER -> End(FAILED)
    BY <2>1 DEF HearMatch
  <2>3. main \in asking /\ ~disturbed /\ r = answer[main] /\ r \in Possible("match")
    BY <1>1, <2>0, <2>2, HeardAnswer DEF Commanding
  <2>4. ~End(FAILED) /\ ~End(ERROR)  BY <1>1, EndResult, Results
  <2>5. r[1] = FINGERPRINT_OK /\ \E k \in Number(r[2]) : End(Found(k))
    <3>1. r[1] = FINGERPRINT_OK  BY <2>2, <2>4
    <3> QED  BY <2>2, <2>4, <3>1
  <2>6. PICK q \in SearchPages : r = <<FINGERPRINT_OK, q>>  BY <2>3, <2>5, PossibleCodes
  <2>7. r[2] = q  BY <2>6, Tuples
  <2>8. Number(q) = {q}  BY <2>3, <2>7 DEF Number
  <2>9. End(Found(q))  BY <2>5, <2>7, <2>8
  <2>10. n = q  BY <1>1, <2>9, EndResult, Results
  <2>11. MatchInv  BY <1>1 DEF IInv
  <2> QED  BY <2>0, <2>3, <2>6, <2>10, <2>11 DEF MatchInv
<1> QED  BY <1>1, Invariance, PTL DEF Spec, MatchIsTrue

\* deleteModel returns SUCCESS only when the page is empty, for both threads, if
\* the link was undisturbed (FP_delete.c:16).
THEOREM DeletedGone == Spec => DeletedIsGone
<1>1. ASSUME IInv, [Next]_vars
      PROVE  \A t \in Threads :
                /\ place[t] = "delete" /\ place'[t] = "idle" /\ result'[t] = SUCCESS
                /\ ~disturbed'
                => library[page[t]] = Nothing
  <2> SUFFICES ASSUME NEW t \in Threads, place[t] = "delete", place'[t] = "idle",
                      result'[t] = SUCCESS, ~disturbed'
               PROVE  library[page[t]] = Nothing
    OBVIOUS
  <2>0. TypeOK /\ Domains /\ AnswerInv /\ DeleteInv /\ main # deletion /\ Threads = {main, deletion}
    BY <1>1, TwoThreads DEF IInv
  <2>1. PICK r : Return(t, r) /\ result'[t] = Deleted(r)
    <3>1. CASE t = main
      <4>1. HearDelete
        BY <1>1, <3>1, MainEnds
        DEF TimeOut, LoopPlaces, HearSearch, HearCreate, HearStore, HearConvert, HearMatch, Hears
      <4>2. PICK r : Hears("delete", r) /\ End(Deleted(r))  BY <4>1 DEF HearDelete
      <4> QED  BY <1>1, <3>1, <4>2, EndResult DEF Hears
    <3>2. CASE t = deletion
      <4>1. place'[deletion] # place[deletion]  BY <3>2
      <4>2. CASE DeletionHears  BY <2>0, <3>2, <4>2 DEF DeletionHears, Finish, Domains
      <4>3. CASE MainHears
        <5>1. place'[deletion] = place[deletion]
          BY <2>0, <4>3, MainHeard DEF Ended, Finish, Goes, Domains
        <5> QED  BY <4>1, <5>1
      <4>4. CASE TimeOut  BY <2>0, <4>1, <4>4 DEF TimeOut, End, Finish, Domains
      <4>5. CASE StartProcedure  BY <2>0, <4>1, <4>5 DEF StartProcedure, Begin, Domains
      <4>6. CASE StartDeletion  BY <3>2, <4>6 DEF StartDeletion, Begin
      <4>7. ASSUME NEW u \in Threads, Sends(u) \/ IsRefused(u) PROVE FALSE
        BY <2>0, <4>1, <4>7, StepSent DEF Sent
      <4>8. CASE TimePasses \/ BrokenReply \/ UNCHANGED vars
        BY <4>1, <4>8 DEF TimePasses, BrokenReply, vars
      <4> QED  BY <1>1, <4>2, <4>3, <4>4, <4>5, <4>6, <4>7, <4>8 DEF Next
    <3> QED  BY <2>0, <3>1, <3>2
  <2>2. Returned(t) /\ r = answer[t]  BY <2>0, <2>1, ReturnFrame
  <2>3. t \in asking /\ ~disturbed  BY <2>2 DEF Returned
  <2>4. r \in Possible("delete")  BY <2>0, <2>2, <2>3 DEF AnswerInv, Commanding
  <2>5. r = Ok  BY <2>1, <2>4, PossibleCodes, Results DEF Deleted
  <2> QED  BY <2>0, <2>2, <2>3, <2>5 DEF DeleteInv
<1> QED  BY <1>1, Invariance, PTL DEF Spec, DeletedIsGone

-----------------------------------------------------------------------------
(* The sensor's library *)

\* The variables of SensorLibrary that are not variables of the procedures.
Jobs == [t \in Threads |-> JobAt(place[t])]
Succeeded == [t \in Threads |-> result[t] = SUCCESS]

\* What the properties say of a step.
EnrolTruth ==
    place[main] \in EnrolPlaces /\ place'[main] = "idle" /\ Clean =>
        /\ result'[main] = SUCCESS <=> stored
        /\ stored => library[page[main]] = Model(scanned)

DeleteTruth ==
    \A t \in Threads :
        /\ place[t] = "delete" /\ place'[t] = "idle" /\ result'[t] = SUCCESS
        /\ ~disturbed'
        => library[page[t]] = Nothing

LEMMA Places ==
    /\ \A p : JobAt(p) = "enrol" /\ p \in EnrolPlaces \cup FindPlaces \cup {"idle", "delete"} <=> p \in EnrolPlaces
    /\ \A p \in FindPlaces : JobAt(p) = "find"
    /\ JobAt("idle") = "idle" /\ JobAt("delete") = "delete"
    /\ JobAt("image1") = "enrol" /\ JobAt("scan") = "find"
BY DEF JobAt, EnrolPlaces, FindPlaces

LEMMA JobsMoved ==
    ASSUME Domains, NEW t \in Threads, NEW p, place' = [place EXCEPT ![t] = p]
    PROVE  Jobs' = [Jobs EXCEPT ![t] = JobAt(p)]
<1>1. \A u \in Threads : place'[u] = IF u = t THEN p ELSE place[u]  BY DEF Domains
<1>2. \A u \in Threads : JobAt(place'[u]) = IF u = t THEN JobAt(p) ELSE JobAt(place[u])
  BY <1>1
<1> QED  BY <1>2 DEF Jobs

LEMMA SucceededMoved ==
    ASSUME Domains, NEW t \in Threads, NEW r, result' = [result EXCEPT ![t] = r]
    PROVE  Succeeded' = [Succeeded EXCEPT ![t] = (r = SUCCESS)]
<1>1. \A u \in Threads : result'[u] = IF u = t THEN r ELSE result[u]  BY DEF Domains
<1>2. \A u \in Threads : (result'[u] = SUCCESS) = IF u = t THEN (r = SUCCESS) ELSE (result[u] = SUCCESS)
  BY <1>1
<1> QED  BY <1>2 DEF Succeeded

\* A step in which nothing happens but that what is heard becomes doubtful.
LEMMA DoubtsOnly ==
    ASSUME UNCHANGED <<library, page, stored, result>>, Jobs' = Jobs,
           disturbed' \in BOOLEAN, trouble \subseteq trouble', trouble' \subseteq {"link", "search"},
           trouble' # trouble => JobAt(place[main]) \in {"enrol", "find"} /\ ~stored
    PROVE  Library!Doubts
<1>1. Succeeded' = Succeeded  BY DEF Succeeded
<1>2. [t \in Threads |-> JobAt(place[t])][main] = JobAt(place[main])  BY TwoThreads
<1> QED  BY <1>1, <1>2 DEF Library!Doubts, Library!Causes, Jobs, Succeeded

\* A procedure begins.
LEMMA JobBegins ==
    ASSUME Domains, NEW t \in Threads, NEW p, NEW n, Begin(t, p, n)
    PROVE  Library!Begin(t, JobAt(p), n)
<1>1. Jobs' = [Jobs EXCEPT ![t] = JobAt(p)]  BY JobsMoved DEF Begin
<1>2. Succeeded' = [Succeeded EXCEPT ![t] = (None = SUCCESS)]  BY SucceededMoved DEF Begin
<1>3. None # SUCCESS
  <2>1. Len(None) = 0 /\ Len(SUCCESS) = 1  BY DEF None, SUCCESS
  <2> QED  BY <2>1
<1>4. Jobs[t] = "idle"  BY Places DEF Jobs, Begin
<1>5. Succeeded' = [Succeeded EXCEPT ![t] = FALSE]  BY <1>2, <1>3
<1>6. UNCHANGED <<library, stored, trouble, disturbed>> /\ page' = [page EXCEPT ![t] = n]
  BY DEF Begin, sensor, linkVars
<1> QED  BY <1>1, <1>4, <1>5, <1>6 DEF Library!Begin, Jobs, Succeeded

LEMMA BeginsJob ==
    ASSUME IInv, StartProcedure \/ StartDeletion
    PROVE  Library!Begins
<1>1. Domains /\ main \in Threads /\ deletion \in Threads \ {main}  BY TwoThreads DEF IInv
<1>2. ASSUME NEW n \in Pages, Begin(main, "image1", n) PROVE Library!Begins
  <2>1. Library!Begin(main, "enrol", n)  BY <1>1, <1>2, JobBegins, Places
  <2> QED  BY <2>1 DEF Library!Begins
<1>3. ASSUME Begin(main, "scan", 0) PROVE Library!Begins
  <2>1. Library!Begin(main, "find", 0)  BY <1>1, <1>3, JobBegins, Places
  <2> QED  BY <2>1 DEF Library!Begins
<1>4. ASSUME page[main] # 0, Begin(main, "delete", page[main]) PROVE Library!Begins
  <2>1. PICK n : n = page[main]  OBVIOUS
  <2>2. Library!Begin(main, "delete", n)
    <3>1. Begin(main, "delete", n)  BY <1>4, <2>1
    <3> QED  BY <1>1, <3>1, JobBegins, Places
  <2> QED  BY <1>4, <2>1, <2>2 DEF Library!Begins, Library!Begin
<1>5. ASSUME NEW n \in Pages, Begin(deletion, "delete", n) PROVE Library!Begins
  <2>1. Library!Begin(deletion, "delete", n)  BY <1>1, <1>5, JobBegins, Places
  <2> QED  BY <1>1, <2>1 DEF Library!Begins
<1> QED  BY <1>2, <1>3, <1>4, <1>5 DEF StartProcedure, StartDeletion
\* Main's procedure ends, and only a store or a deletion can be a success.
Ending(r) ==
    /\ place[main] # "idle" /\ End(r)
    /\ UNCHANGED library /\ disturbed' \in BOOLEAN
    /\ r = SUCCESS => place[main] \in {"store", "delete"}

LEMMA MainEnding ==
    ASSUME IInv, Next, place[main] # "idle", place'[main] = "idle"
    PROVE  \E r : Ending(r)
<1>1. Domains /\ main \in Threads  BY TwoThreads DEF IInv
<1>2. \A q : q # "idle" => ~GoTo(q)  BY <1>1 DEF GoTo, Domains
<1>3. ~Unsearched  BY <1>1 DEF Unsearched, Domains
<1>4. \A r : r \in {FAILED, ERROR, TIMEOUT} \/ (\E n : r = Found(n)) => r # SUCCESS  BY Results
<1>5. \A p, r : Hears(p, r) => place[main] = p /\ UNCHANGED library /\ disturbed' \in BOOLEAN
  <2> SUFFICES ASSUME NEW p, NEW r, Hears(p, r)
               PROVE  place[main] = p /\ UNCHANGED library /\ disturbed' \in BOOLEAN
    OBVIOUS
  <2>1. Returned(main)  BY <1>1, ReturnFrame DEF Hears
  <2> QED  BY <2>1 DEF Hears, sensor, Returned
<1>6. ASSUME NEW p, NEW r, Hears(p, r), NEW e, End(e), e = SUCCESS => p \in {"store", "delete"}
      PROVE  Ending(e)
  BY <1>5, <1>6 DEF Ending
<1>7. CASE TimeOut
  <2>1. PICK r \in {FAILED, TIMEOUT} : End(r)  BY <1>7 DEF TimeOut
  <2> QED  BY <1>1, <1>4, <1>7, <2>1 DEF TimeOut, Ending, Domains, linkVars, sensor
<1>8. CASE HearSearch
  <2>1. PICK r : Hears("search", r) /\ (End(ERROR) \/ GoTo("lift") \/ Unsearched)
    BY <1>8 DEF HearSearch
  <2> QED  BY <1>2, <1>3, <1>4, <1>6, <2>1
<1>9. ASSUME NEW p, HearCreate(p) PROVE \E r : Ending(r)
  <2>1. PICK r : Hears(p, r) /\ (End(FAILED) \/ GoTo("create2") \/ GoTo("store"))
    BY <1>9 DEF HearCreate
  <2> QED  BY <1>2, <1>4, <1>6, <2>1
<1>10. CASE HearStore
  <2>1. PICK r, e : Hears("store", r) /\ End(e)  BY <1>10 DEF HearStore
  <2> QED  BY <1>6, <2>1
<1>11. CASE HearConvert
  <2>1. PICK r : Hears("convert", r) /\ (GoTo("match") \/ End(FAILED))  BY <1>11 DEF HearConvert
  <2> QED  BY <1>2, <1>4, <1>6, <2>1
<1>12. CASE HearMatch
  <2>1. PICK r : Hears("match", r) /\ (End(FAILED) \/ End(ERROR) \/ \E n : End(Found(n)))
    BY <1>12 DEF HearMatch
  <2> QED  BY <1>4, <1>6, <2>1
<1>13. CASE HearDelete
  <2>1. PICK r, e : Hears("delete", r) /\ End(e)  BY <1>13 DEF HearDelete
  <2> QED  BY <1>6, <2>1
<1> QED  BY <1>7, <1>8, <1>9, <1>10, <1>11, <1>12, <1>13, MainEnds

\* The end of main's procedure is the end of its job, and what the properties say
\* of it is what SensorLibrary asks.
LEMMA EndsJob ==
    ASSUME IInv, NEW r, Ending(r), EnrolTruth, DeleteTruth
    PROVE  Library!Next
<1>1. TypeOK /\ Domains /\ StoreInv /\ main \in Threads  BY TwoThreads DEF IInv
<1>2. End(r) /\ Finish(main, r)  BY DEF Ending, End
<1>3. Jobs' = [Jobs EXCEPT ![main] = "idle"]  BY <1>1, <1>2, JobsMoved, Places DEF Finish
<1>4. Succeeded' = [Succeeded EXCEPT ![main] = (r = SUCCESS)]  BY <1>1, <1>2, SucceededMoved DEF Finish
<1>5. Jobs[main] = JobAt(place[main])  BY <1>1 DEF Jobs
<1>6. place[main] \in EnrolPlaces \cup FindPlaces \cup {"delete"}  BY <1>1 DEF TypeOK, Ending
<1>7. place'[main] = "idle" /\ result'[main] = r  BY <1>1, <1>2 DEF Finish, Domains
<1>8. page' = IF Jobs[main] = "enrol" /\ r = SUCCESS THEN page ELSE [page EXCEPT ![main] = 0]
  <2>1. r = SUCCESS => (Jobs[main] = "enrol" <=> place[main] = "store")
    BY <1>5, Places DEF Ending, JobAt, EnrolPlaces, FindPlaces
  <2> QED  BY <1>2, <2>1 DEF End
<1>9. Library!End(main, r = SUCCESS)
  <2>1. stored' = FALSE /\ trouble' = {} /\ UNCHANGED library /\ disturbed' \in BOOLEAN
    BY <1>2 DEF End, Ending
  <2> QED  BY <1>3, <1>4, <1>8, <2>1 DEF Library!End, Jobs, Succeeded
<1>10. (r = SUCCESS) \in BOOLEAN  OBVIOUS
<1>11. CASE place[main] \in EnrolPlaces
  <2>1. Jobs[main] = "enrol"  BY <1>5, <1>11 DEF JobAt
  <2>2. "link" \notin trouble /\ ~disturbed' =>
            /\ (r = SUCCESS) <=> stored
            /\ stored => library[page[main]].merged
    BY <1>7, <1>11, TemplateFacts DEF EnrolTruth, Clean
  <2>3. Library!EndEnrolment(r = SUCCESS)  BY <1>9, <2>1, <2>2 DEF Library!EndEnrolment, Jobs
  <2> QED  BY <1>10, <2>3 DEF Library!Next
<1>12. CASE place[main] \in FindPlaces
  <2>1. r # SUCCESS  BY <1>12 DEF Ending, FindPlaces
  <2>2. Jobs[main] = "find"  BY <1>5, <1>12, Places
  <2>3. Library!End(main, FALSE)  BY <1>9, <2>1
  <2> QED  BY <2>2, <2>3 DEF Library!EndSearch, Library!Next, Jobs
<1>13. CASE place[main] = "delete"
  <2>1. Jobs[main] = "delete"  BY <1>5, <1>13, Places
  <2>2. r = SUCCESS /\ ~disturbed' => library[page[main]] = Nothing
    BY <1>1, <1>7, <1>13 DEF DeleteTruth
  <2>3. Library!EndDeletion(main, r = SUCCESS)  BY <1>9, <2>1, <2>2 DEF Library!EndDeletion, Jobs
  <2> QED  BY <1>1, <1>10, <2>3 DEF Library!Next
<1> QED  BY <1>6, <1>11, <1>12, <1>13
\* So is the end of the other thread's deletion.
LEMMA DeletionEndsJob ==
    ASSUME IInv, DeletionHears, DeleteTruth
    PROVE  Library!Next
<1>1. TypeOK /\ Domains /\ main # deletion /\ deletion \in Threads  BY TwoThreads DEF IInv
<1>2. PICK r : Return(deletion, r) /\ Finish(deletion, Deleted(r))
  BY DEF DeletionHears
<1>3. Returned(deletion)  BY <1>1, <1>2, ReturnFrame
<1>4. place[deletion] = "delete"  BY <1>1, <1>3 DEF Returned, TypeOK
<1>5. place'[deletion] = "idle" /\ result'[deletion] = Deleted(r)
  BY <1>1, <1>2 DEF Finish, Domains
<1>6. Jobs' = [Jobs EXCEPT ![deletion] = "idle"]  BY <1>1, <1>2, JobsMoved, Places DEF Finish
<1>7. Succeeded' = [Succeeded EXCEPT ![deletion] = (Deleted(r) = SUCCESS)]
  BY <1>1, <1>2, SucceededMoved DEF Finish
<1>8. Jobs[deletion] = "delete"  BY <1>1, <1>4, Places DEF Jobs
<1>9. /\ UNCHANGED <<library, stored, trouble>> /\ disturbed' \in BOOLEAN
      /\ page' = [page EXCEPT ![deletion] = 0]
  BY <1>3 DEF DeletionHears, sensor, Returned
<1>10. Library!End(deletion, Deleted(r) = SUCCESS)
  BY <1>1, <1>6, <1>7, <1>8, <1>9 DEF Library!End, Jobs, Succeeded
<1>11. Deleted(r) = SUCCESS /\ ~disturbed' => library[page[deletion]] = Nothing
  BY <1>1, <1>4, <1>5 DEF DeleteTruth
<1>12. Library!EndDeletion(deletion, Deleted(r) = SUCCESS)
  BY <1>8, <1>10, <1>11 DEF Library!EndDeletion, Jobs
<1> QED  BY <1>1, <1>12 DEF Library!Next

\* A command that does nothing to the library, or what its job has to do there.
LEMMA CommandOfJob ==
    ASSUME IInv, IInv', NEW t \in Threads, Sends(t) \/ IsRefused(t)
    PROVE  Library!Next
<1>1. TypeOK /\ Domains /\ main \in Threads  BY TwoThreads DEF IInv
<1>2. Sent(t)  BY <1>1, StepSent
<1>3. UNCHANGED <<place, page, result, trouble>> /\ disturbed' \in BOOLEAN  BY <1>2 DEF Sent
<1>4. Jobs' = Jobs /\ Succeeded' = Succeeded  BY <1>3 DEF Jobs, Succeeded
<1>5. ASSUME UNCHANGED <<library, stored>> PROVE Library!Next
  <2>1. Library!Doubts  BY <1>1, <1>3, <1>4, <1>5, DoubtsOnly DEF TypeOK
  <2> QED  BY <2>1 DEF Library!Next
<1>6. CASE place[t] = "delete"
  <2>1. DeletesOrNot(t)  BY <1>1, <1>6, StepDeletes
  <2>2. CASE answer'[t] = Ok
    <3>1. Jobs[t] = "delete"  BY <1>6, Places DEF Jobs
    <3>2. Library!Empty(t)
      BY <1>3, <1>4, <2>1, <2>2, <3>1 DEF DeletesOrNot, Library!Empty, Jobs, Succeeded
    <3> QED  BY <3>2 DEF Library!Next
  <2>3. CASE answer'[t] # Ok  BY <1>5, <2>1, <2>3 DEF DeletesOrNot
  <2> QED  BY <2>2, <2>3
<1>7. CASE place[t] # "delete"
  <2>1. t = main  BY <1>1, <1>2, <1>7, TwoThreads DEF Sent, TypeOK
  <2>2. AsksMain /\ ConvertsMain /\ SearchesMain /\ CreatesMain /\ StoresMain
    BY <1>1, <2>1, MainSends, MainRefused
  <2>3. CASE place[main] # "store"
    <3>1. place[main] \in Asks \cup {"tz1", "convert", "tz2", "search", "match", "create", "create2"}
      BY <1>1, <1>2, <1>7, <2>1, <2>3 DEF TypeOK, Sent, EnrolPlaces, FindPlaces, Asks
    <3>2. UNCHANGED <<library, stored>>
      BY <2>2, <3>1 DEF AsksMain, ConvertsMain, SearchesMain, CreatesMain
    <3> QED  BY <1>5, <3>2
  <2>4. CASE place[main] = "store" /\ answer'[main] # Ok
    BY <1>5, <2>2, <2>4 DEF StoresMain
  <2>5. CASE place[main] = "store" /\ answer'[main] = Ok
    <3>1. library' = [library EXCEPT ![page[main]] = char[1]] /\ stored'
      BY <2>2, <2>5 DEF StoresMain
    <3>2. stored' = TRUE  BY <3>1 DEF IInv, TypeOK
    <3>3. main \notin asking  BY <1>2, <2>1 DEF Sent
    <3>4. stored = FALSE  BY <3>3 DEF IInv, TypeOK, StoreInv, Done
    <3>5. "link" \notin trouble => char[1] = Model(scanned)  BY <2>5 DEF IInv, CharInv
    <3>6. "link" \notin trouble => char[1].merged  BY <3>5, TemplateFacts
    <3>7. trouble = {} => \A q \in SearchPages : library[q].finger # char[1].finger
      <4>1. trouble = {} => Unknown  BY <2>5, <3>4 DEF IInv, SearchInv
      <4> QED  BY <3>5, <4>1, TemplateFacts DEF Unknown
    <3>8. Jobs[main] = "enrol"  BY <1>1, <2>5 DEF Jobs, JobAt, EnrolPlaces
    <3>9. char[1] \in Templates  BY <1>1 DEF TypeOK
    <3>10. Library!Store(char[1])
      BY <1>3, <1>4, <3>1, <3>2, <3>4, <3>6, <3>7, <3>8
      DEF Library!Store, Library!IsNew, Jobs, Succeeded
    <3> QED  BY <3>9, <3>10 DEF Library!Next
  <2> QED  BY <2>3, <2>4, <2>5
<1> QED  BY <1>6, <1>7

\* A step of the procedures is one of SensorLibrary, or none.
LEMMA LibraryStep ==
    ASSUME IInv, IInv', [Next]_vars, EnrolTruth, DeleteTruth
    PROVE  [Library!Next]_(Library!libraryVars)
<1>1. TypeOK /\ Domains /\ AnswerInv /\ main \in Threads  BY TwoThreads DEF IInv
<1>2. CASE StartProcedure \/ StartDeletion  BY <1>2, BeginsJob DEF Library!Next
<1>3. ASSUME Next, place[main] # "idle", place'[main] = "idle" PROVE Library!Next
  BY <1>3, MainEnding, EndsJob
<1>4. CASE TimeOut
  <2>1. place[main] # "idle"  BY <1>4 DEF TimeOut, LoopPlaces
  <2>2. place'[main] = "idle"  BY <1>1, <1>4 DEF TimeOut, End, Finish, Domains
  <2> QED  BY <1>3, <1>4, <2>1, <2>2 DEF Next
<1>5. CASE MainHears
  <2>1. Returned(main) /\ UNCHANGED sensor  BY <1>1, <1>5, MainHeard
  <2>2. place[main] # "idle"  BY <1>1, <2>1 DEF Returned, TypeOK
  <2>3. CASE Ended
    <3>1. place'[main] = "idle"  BY <1>1, <2>3 DEF Ended, Finish, Domains
    <3> QED  BY <1>3, <1>5, <2>2, <3>1 DEF Next
  <2>4. ASSUME NEW q, Goes(q) PROVE Library!Next
    <3>1. JobAt(q) = JobAt(place[main]) /\ JobAt(q) \in {"enrol", "find"}
      BY <2>4, Places DEF Goes, JobAt
    <3>2. Jobs' = [Jobs EXCEPT ![main] = JobAt(q)]  BY <1>1, <2>4, JobsMoved DEF Goes
    <3>3. Jobs' = Jobs  BY <1>1, <3>1, <3>2 DEF Jobs
    <3>4. ~stored  BY <2>4 DEF IInv, StoreInv, Goes
    <3>5. trouble \subseteq trouble' /\ trouble' \subseteq {"link", "search"}
      BY <1>1, <2>4 DEF Goes, TypeOK
    <3>6. UNCHANGED <<library, page, stored, result>> /\ disturbed' \in BOOLEAN
      BY <2>1, <2>4 DEF Goes, sensor, Returned
    <3>7. Library!Doubts  BY <3>1, <3>3, <3>4, <3>5, <3>6, DoubtsOnly
    <3> QED  BY <3>7 DEF Library!Next
  <2> QED  BY <1>1, <1>5, <2>3, <2>4, MainHeard
<1>6. CASE \E t \in Threads : Sends(t) \/ IsRefused(t)  BY <1>6, CommandOfJob
<1>7. CASE DeletionHears  BY <1>7, DeletionEndsJob
<1>8. CASE TimePasses \/ BrokenReply
  <2>1. UNCHANGED <<library, place, page, stored, result, trouble>> /\ disturbed' \in BOOLEAN
    BY <1>1, <1>8 DEF TimePasses, BrokenReply, Disturb, sensor, linkVars, Domains
  <2>2. Jobs' = Jobs  BY <2>1 DEF Jobs
  <2>3. Library!Doubts  BY <1>1, <2>1, <2>2, DoubtsOnly DEF TypeOK
  <2> QED  BY <2>3 DEF Library!Next
<1>9. CASE UNCHANGED vars
  BY <1>9 DEF vars, linkVars, sensor, Library!libraryVars
<1> QED  BY <1>2, <1>4, <1>5, <1>6, <1>7, <1>8, <1>9 DEF Next

\* The procedures keep the sensor's library as SensorLibrary says: an enrolment writes
\* at most one page, its own and once, with a model of a finger that the search does
\* not find, only deletions empty a page, and results that are not in doubt are true.
THEOREM ImplementsLibrary == Spec => LibrarySpec
<1>1. Init => Library!Init
  <2> SUFFICES ASSUME Init PROVE Library!Init  OBVIOUS
  <2>1. \A t \in Threads : place[t] = "idle" /\ result[t] = None  BY DEF Init
  <2>2. None # SUCCESS
    <3>1. Len(None) = 0 /\ Len(SUCCESS) = 1  BY DEF None, SUCCESS
    <3> QED  BY <3>1
  <2>3. [t \in Threads |-> JobAt(place[t])] = [t \in Threads |-> "idle"]  BY <2>1, Places
  <2>4. [t \in Threads |-> result[t] = SUCCESS] = [t \in Threads |-> FALSE]  BY <2>1, <2>2
  <2> QED  BY <2>3, <2>4 DEF Init, LinkInit, Library!Init
<1>2. EnrolTellsTruth <=> [][EnrolTruth]_vars  BY DEF EnrolTellsTruth, EnrolTruth
<1>3. DeletedIsGone <=> [][DeleteTruth]_vars  BY DEF DeletedIsGone, DeleteTruth
<1>4. IInv /\ IInv' /\ [Next]_vars /\ [EnrolTruth]_vars /\ [DeleteTruth]_vars
      => [Library!Next]_(Library!libraryVars)
  <2>1. CASE UNCHANGED vars
    BY <2>1 DEF vars, linkVars, sensor, Library!libraryVars
  <2> QED  BY <2>1, LibraryStep
<1> QED  BY <1>1, <1>2, <1>3, <1>4, Invariance, EnrolTells, DeletedGone, PTL DEF Spec, LibrarySpec, Library!Spec
=============================================================================
