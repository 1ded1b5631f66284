-------------------------- MODULE ImageContextProofs --------------------------
(* Contexts that share imlib's current image, proved for every set of them,    *)
(* of images and of files: what one context at a time may rely on.            *)
EXTENDS ImageContext, TLAPS

Size == Nat \X Nat

(* What the geometry of a context is; of its offsets only that they are      *)
(* integers.                                                                *)
Shapes == [size : Size, aspect : Size, x : Int, y : Int,
           cropped : {"no", "yes"}, crop : Size, cropAspect : Size,
           resized : {"no", "yes"}, resize : Size]

Ranges ==
  /\ st \in [Ctxs -> {"none", "live", "gone"}]
  /\ img \in [Ctxs -> Imgs \cup {Null}] /\ cur \in Imgs \cup {Null}
  /\ dim \in [Imgs -> Size \cup {Null}]
  /\ geo \in [Ctxs -> Shapes]

AloneInv == "together" \notin past => \A c, d \in Live : c = d

(* The image of a context that is alone exists. *)
ExistsInv ==
  "together" \notin past =>
    /\ fault = "none"
    /\ \A c \in Live : img[c] # Null => dim[img[c]] # Null

(* And unless it was loaded over another one, it is the current image. *)
CurrentInv == past = {} => \A c \in Live : img[c] # Null => cur = img[c]

IInv ==
  /\ Ranges /\ AloneInv /\ ExistsInv /\ CurrentInv
  /\ LeakOnlyByReload /\ SizeDescribesImage

-----------------------------------------------------------------------------
LEMMA InitHolds == Init => IInv
<1> SUFFICES ASSUME Init PROVE IInv
  OBVIOUS
<1> USE DEF Init
<1>1. Live = {}
  BY DEF Live
<1>2. Ranges
  BY DEF Ranges, Blank, Shapes, Size
<1>3. LeakOnlyByReload
  BY DEF LeakOnlyByReload
<1> QED BY <1>1, <1>2, <1>3 DEF IInv, AloneInv, ExistsInv, CurrentInv, SizeDescribesImage

LEMMA NewContextKeeps ==
  ASSUME IInv, NEW c \in Ctxs, NewContext(c)
  PROVE  IInv'
<1> USE DEF IInv, NewContext
<1>1. Ranges'
  BY DEF Ranges, Blank, Shapes, Size
<1>2. Live' = Live \cup {c}
  BY DEF Live, Ranges
<1>3. /\ \A d \in Ctxs : img'[d] = IF d = c THEN Null ELSE img[d]
      /\ \A d \in Ctxs : d # c => geo'[d] = geo[d]
  BY DEF Ranges
<1>4. CASE Live = {}
  <2>1. Live' = {c} /\ img'[c] = Null
    BY <1>2, <1>3, <1>4
  <2>2. AloneInv' /\ ExistsInv' /\ CurrentInv' /\ SizeDescribesImage'
    BY <2>1, <1>4 DEF AloneInv, ExistsInv, CurrentInv, SizeDescribesImage
  <2>3. LeakOnlyByReload'
    BY <1>4 DEF LeakOnlyByReload
  <2> QED BY <1>1, <2>2, <2>3
<1>5. CASE Live # {}
  <2>1. "together" \in past'
    BY <1>5
  <2> QED BY <1>1, <2>1 DEF AloneInv, ExistsInv, CurrentInv, LeakOnlyByReload, SizeDescribesImage
<1> QED BY <1>4, <1>5

(* The cleanup frees the current image, which is the context's own if it was *)
(* always alone and never loaded twice.                                      *)
LEMMA DestroyContextKeeps ==
  ASSUME IInv, NEW c \in Ctxs, DestroyContext(c)
  PROVE  IInv'
<1> USE DEF IInv, DestroyContext, Up
<1>1. Ranges'
  BY DEF Ranges, Blank, Shapes, Size
<1>2. Live' = Live \ {c} /\ c \in Live
  BY DEF Live, Ranges
<1>3. CASE "together" \in past
  BY <1>1, <1>3 DEF AloneInv, ExistsInv, CurrentInv, LeakOnlyByReload, SizeDescribesImage
<1>4. CASE "together" \notin past
  <2>1. Live = {c} /\ Live' = {}
    BY <1>2, <1>4 DEF AloneInv
  <2>2. AloneInv' /\ ExistsInv' /\ CurrentInv' /\ SizeDescribesImage'
    BY <2>1, <1>4 DEF AloneInv, ExistsInv, CurrentInv, SizeDescribesImage
  <2>3. LeakOnlyByReload'
    <3> SUFFICES ASSUME past = {}, NEW i \in Imgs, dim'[i] # Null PROVE FALSE
      BY DEF LeakOnlyByReload
    <3>1. dim[i] # Null /\ i # cur
      OBVIOUS
    <3>2. img[c] = i
      BY <2>1, <3>1 DEF LeakOnlyByReload
    <3>3. cur = i
      BY <2>1, <3>2, NullAssumption DEF CurrentInv
    <3> QED BY <3>1, <3>3
  <2> QED BY <1>1, <2>2, <2>3
<1> QED BY <1>3, <1>4

-----------------------------------------------------------------------------
LEMMA LoadedShape ==
  ASSUME NEW g \in Shapes, NEW f \in Files
  PROVE  Loaded(g, f) \in Shapes /\ Loaded(g, f).size = SizeOf[f]
BY FilesAssumption DEF Loaded, Shapes, Size

LEMMA LoadKeeps ==
  ASSUME IInv, NEW c \in Ctxs, NEW f \in Files, Load(c, f)
  PROVE  IInv'
<1> USE DEF IInv, Load, Up
<1>0. SizeOf[f] \in Size /\ SizeOf[f] # Null
  BY FilesAssumption, NullAssumption DEF Size
<1>1. Live' = Live /\ c \in Live
  BY DEF Live
<1>2. "together" \in past' <=> "together" \in past
  OBVIOUS
<1>3. past' = {} => past = {} /\ img[c] = Null
  OBVIOUS
<1>4. AloneInv'
  BY <1>1, <1>2 DEF AloneInv
<1>5. CASE /\ img' = [img EXCEPT ![c] = Null]
           /\ UNCHANGED <<geo, dim, cur, refused>>
  <2>1. Ranges'
    BY <1>5 DEF Ranges
  <2>2. \A d \in Ctxs : img'[d] = IF d = c THEN Null ELSE img[d]
    BY <1>5 DEF Ranges
  <2>3. ExistsInv' /\ CurrentInv' /\ SizeDescribesImage'
    BY <1>5, <1>1, <1>2, <1>3, <2>2 DEF ExistsInv, CurrentInv, SizeDescribesImage, Live
  <2>4. LeakOnlyByReload'
    <3> SUFFICES ASSUME past' = {}, NEW i \in Imgs, dim[i] # Null
                 PROVE  \E d \in Live : img'[d] = i
      BY <1>5, <1>1 DEF LeakOnlyByReload
    <3>1. PICK d \in Live : img[d] = i
      BY <1>3 DEF LeakOnlyByReload
    <3>2. d # c /\ d \in Ctxs
      BY <1>3, <3>1, NullAssumption DEF Live
    <3> QED BY <2>2, <3>1, <3>2
  <2> QED BY <1>4, <2>1, <2>3, <2>4
<1>6. ASSUME NEW i \in Fresh,
             img' = [img EXCEPT ![c] = i],
             dim' = [dim EXCEPT ![i] = SizeOf[f]],
             cur' = i,
             \/ refused' = refused \cup {c} /\ geo' = geo
             \/ refused' = refused \ {c} /\ geo' = [geo EXCEPT ![c] = Loaded(@, f)]
      PROVE  IInv'
  <2>0. i \in Imgs /\ i # Null /\ dim[i] = Null /\ \A d \in Live : img[d] # i
    BY NullAssumption DEF Fresh
  <2>1. Loaded(geo[c], f) \in Shapes /\ Loaded(geo[c], f).size = SizeOf[f]
    BY LoadedShape DEF Ranges
  <2>2. Ranges'
    BY <1>0, <1>6, <2>0, <2>1 DEF Ranges
  <2>3. /\ \A d \in Ctxs : img'[d] = IF d = c THEN i ELSE img[d]
        /\ \A k \in Imgs : dim'[k] = IF k = i THEN SizeOf[f] ELSE dim[k]
    BY <1>6, <2>0 DEF Ranges
  <2>4. "together" \notin past => Live = {c}
    BY <1>1 DEF AloneInv
  <2>5. ExistsInv' /\ CurrentInv'
    BY <1>0, <1>1, <1>2, <1>3, <1>6, <2>0, <2>3, <2>4 DEF ExistsInv, CurrentInv
  <2>6. c \in Live' \ refused' => geo'[c].size = SizeOf[f]
    BY <1>6, <2>1 DEF Ranges
  <2>7. SizeDescribesImage'
    BY <1>1, <1>2, <2>0, <2>3, <2>4, <2>6 DEF SizeDescribesImage
  <2>8. LeakOnlyByReload'
    <3> SUFFICES ASSUME past' = {}, NEW k \in Imgs, dim'[k] # Null
                 PROVE  \E d \in Live : img'[d] = k
      BY <1>1 DEF LeakOnlyByReload
    <3>1. CASE k = i
      BY <1>1, <2>3, <3>1
    <3>2. CASE k # i
      <4>1. PICK d \in Live : img[d] = k
        BY <1>3, <2>3, <3>2 DEF LeakOnlyByReload
      <4>2. d = c /\ img[c] = Null
        BY <1>3, <2>4
      <4> QED BY <4>1, <4>2, NullAssumption
    <3> QED BY <3>1, <3>2
  <2> QED BY <1>4, <2>2, <2>5, <2>7, <2>8
<1>7. \/ /\ img' = [img EXCEPT ![c] = Null]
         /\ UNCHANGED <<geo, dim, cur, refused>>
      \/ \E i \in Fresh :
           /\ img' = [img EXCEPT ![c] = i]
           /\ dim' = [dim EXCEPT ![i] = SizeOf[f]]
           /\ cur' = i
           /\ \/ refused' = refused \cup {c} /\ geo' = geo
              \/ refused' = refused \ {c} /\ geo' = [geo EXCEPT ![c] = Loaded(@, f)]
  OBVIOUS
<1> QED BY <1>5, <1>6, <1>7

-----------------------------------------------------------------------------
(* What only edits the geometry keeps the size. *)
LEMMA EditKeeps ==
  ASSUME IInv, NEW c \in Ctxs, NEW g \in Shapes, g.size = geo[c].size,
         geo' = [geo EXCEPT ![c] = g],
         UNCHANGED <<st, img, dim, cur, saved, refused, past, fault>>
  PROVE  IInv'
<1> USE DEF IInv
<1>1. Live' = Live
  BY DEF Live
<1>2. Ranges'
  BY DEF Ranges
<1>3. \A d \in Ctxs : geo'[d].size = geo[d].size
  BY DEF Ranges
<1>4. SizeDescribesImage'
  BY <1>1, <1>3 DEF SizeDescribesImage, Live
<1>5. AloneInv' /\ ExistsInv' /\ CurrentInv' /\ LeakOnlyByReload'
  BY <1>1 DEF AloneInv, ExistsInv, CurrentInv, LeakOnlyByReload
<1> QED BY <1>2, <1>4, <1>5

LEMMA TimesIsNat ==
  ASSUME NEW len \in Nat, NEW n \in Nat, NEW d \in Nat \ {0}
  PROVE  (len * n) \div d \in Nat
<1>1. len * n \in Nat
  OBVIOUS
<1>2. \A k \in Nat : k \div d \in Nat
  OBVIOUS
<1> QED BY <1>1, <1>2

LEMMA CroppedShape ==
  ASSUME NEW g \in Shapes, NEW a \in Aspects, NEW align \in Aligns
  PROVE  Cropped(g, a, align) \in Shapes /\ Cropped(g, a, align).size = g.size
<1> DEFINE w == Times(g.size[2], a)
           h == Times(g.size[1], <<a[2], a[1]>>)
<1>1. /\ a[1] \in Nat \ {0} /\ a[2] \in Nat \ {0}
      /\ g.size[1] \in Nat /\ g.size[2] \in Nat
  BY AspectsAssumption DEF Shapes, Size
<1>2. w \in Nat /\ h \in Nat
  BY <1>1, TimesIsNat DEF Times
<1>3. \A total, part \in Nat, old \in Int : Offset(align, total, part, old) \in Int
  BY DEF Offset, Aligns
<1>4. g.x \in Int /\ g.y \in Int
  BY DEF Shapes
<1>5. /\ Offset(align, g.size[1], w, g.x) \in Int
      /\ Offset(align, g.size[2], h, g.y) \in Int
  BY <1>1, <1>2, <1>3, <1>4
<1>6. /\ <<w, g.size[2]>> \in Size /\ <<g.size[1], h>> \in Size
  BY <1>1, <1>2 DEF Size
<1> HIDE DEF w, h
<1>7. \/ Cropped(g, a, align) =
           [g EXCEPT !.cropped = "yes", !.crop = <<w, g.size[2]>>,
                     !.cropAspect = <<w, g.size[2]>>,
                     !.x = Offset(align, g.size[1], w, g.x)]
      \/ Cropped(g, a, align) =
           [g EXCEPT !.cropped = "yes", !.crop = <<g.size[1], h>>,
                     !.cropAspect = <<g.size[1], h>>,
                     !.y = Offset(align, g.size[2], h, g.y)]
      \/ Cropped(g, a, align) = [g EXCEPT !.cropped = "no"]
  BY DEF Cropped, w, h, Shapes
<1> QED BY <1>5, <1>6, <1>7 DEF Shapes

LEMMA CropKeeps ==
  ASSUME IInv, NEW c \in Ctxs, NEW a \in Aspects, NEW align \in Aligns, Crop(c, a, align)
  PROVE  IInv'
<1>1. geo[c] \in Shapes
  BY DEF IInv, Ranges
<1>2. /\ geo' = [geo EXCEPT ![c] = Cropped(geo[c], a, align)]
      /\ UNCHANGED <<st, img, dim, cur, saved, refused, past, fault>>
  BY DEF Crop
<1> QED BY <1>1, <1>2, CroppedShape, EditKeeps

LEMMA TargetsAreSizes ==
  ASSUME NEW g \in Shapes, NEW p \in Nat, NEW w \in Nat, NEW h \in Nat, NEW datum
  PROVE  Targets(g, p, w, h, datum) \subseteq Size
<1> DEFINE wh == IF g.cropped = "yes" THEN g.crop ELSE g.size
           a == IF g.cropped = "yes" THEN g.cropAspect ELSE g.aspect
<1>1. wh[1] \in Nat /\ wh[2] \in Nat /\ a[1] \in Nat /\ a[2] \in Nat
  BY DEF Shapes, Size
<1>2. \A len, n, d \in Nat : Scaled(len, n, d) \subseteq Nat
  BY TimesIsNat DEF Scaled
<1>3. (wh[1] * p) \div 100 \in Nat /\ (wh[2] * p) \div 100 \in Nat
  <2>1. \A len \in Nat : (len * p) \div 100 \in Nat
    BY TimesIsNat
  <2> QED BY <1>1, <2>1
<1>4. Scaled(w, a[2], a[1]) \subseteq Nat /\ Scaled(h, a[1], a[2]) \subseteq Nat
  BY <1>1, <1>2
<1>5. Targets(g, p, w, h, datum) =
        CASE p > 0 -> {<<(wh[1] * p) \div 100, (wh[2] * p) \div 100>>}
          [] p = 0 /\ wh = <<w, h>> -> {}
          [] p = 0 /\ wh # <<w, h>> ->
               CASE datum = "none" -> {<<w, h>>}
                 [] datum = "width" /\ w # 0 -> {<<w, k>> : k \in Scaled(w, a[2], a[1])}
                 [] datum = "height" /\ h # 0 -> {<<k, h>> : k \in Scaled(h, a[1], a[2])}
                 [] OTHER -> {}
  BY DEF Targets
<1> HIDE DEF wh, a
<1>6. p > 0 \/ p = 0
  OBVIOUS
<1>7. CASE p > 0
  <2>1. Targets(g, p, w, h, datum) = {<<(wh[1] * p) \div 100, (wh[2] * p) \div 100>>}
    BY <1>5, <1>7
  <2> QED BY <1>3, <2>1 DEF Size
<1>8. CASE p = 0
  <2>1. Targets(g, p, w, h, datum) \in
          {{}, {<<w, h>>}, {<<w, k>> : k \in Scaled(w, a[2], a[1])},
           {<<k, h>> : k \in Scaled(h, a[1], a[2])}}
    BY <1>5, <1>8
  <2> QED BY <1>4, <2>1 DEF Size
<1> QED BY <1>6, <1>7, <1>8

LEMMA ResizeKeeps ==
  ASSUME IInv, NEW c \in Ctxs, NEW p \in Nat, NEW w \in Nat, NEW h \in Nat, NEW datum,
         Resize(c, p, w, h, datum)
  PROVE  IInv'
<1>1. geo[c] \in Shapes /\ geo \in [Ctxs -> Shapes]
  BY DEF IInv, Ranges
<1>2. PICK t \in Targets(geo[c], p, w, h, datum) :
        geo' = [geo EXCEPT ![c].resize = t, ![c].resized = "yes"]
  BY DEF Resize
<1>3. t \in Size
  BY <1>1, <1>2, TargetsAreSizes
<1>4. UNCHANGED <<st, img, dim, cur, saved, refused, past, fault>>
  BY DEF Resize
<1> DEFINE g == [geo[c] EXCEPT !.resize = t, !.resized = "yes"]
<1>5. geo' = [geo EXCEPT ![c] = g]
  BY <1>1, <1>2
<1>6. g \in Shapes /\ g.size = geo[c].size
  BY <1>1, <1>3 DEF Shapes
<1> HIDE DEF g
<1> QED BY <1>4, <1>5, <1>6, EditKeeps

-----------------------------------------------------------------------------
(* Saving frees the image a context had, and leaves it with the clone as the  *)
(* current image.                                                            *)
LEMMA SaveKeeps ==
  ASSUME IInv, NEW c \in Ctxs, Save(c)
  PROVE  IInv'
<1> USE DEF IInv, Save, Up
<1>1. Live' = Live /\ c \in Live
  BY DEF Live
<1>2. "together" \notin past => Live = {c}
  BY <1>1 DEF AloneInv
<1>3. AloneInv'
  BY <1>1 DEF AloneInv
<1>4. CASE img[c] = Null
  <2>1. cur' = Null /\ UNCHANGED <<st, img, geo, dim, refused, past, fault>>
    BY <1>4
  <2>2. Ranges'
    BY <2>1 DEF Ranges
  <2>3. CurrentInv'
    BY <1>1, <1>2, <1>4, <2>1 DEF CurrentInv
  <2>4. ExistsInv' /\ LeakOnlyByReload' /\ SizeDescribesImage'
    BY <1>1, <2>1 DEF ExistsInv, LeakOnlyByReload, SizeDescribesImage
  <2> QED BY <1>3, <2>2, <2>3, <2>4
<1>5. CASE img[c] # Null /\ dim[img[c]] = Null
  <2>1. "together" \in past
    BY <1>1, <1>5 DEF ExistsInv
  <2>2. UNCHANGED <<st, img, geo, dim, cur, past>>
    BY <1>5
  <2>3. Ranges'
    BY <2>2 DEF Ranges
  <2> QED BY <1>3, <2>1, <2>2, <2>3 DEF ExistsInv, CurrentInv, LeakOnlyByReload, SizeDescribesImage
<1>6. CASE img[c] # Null /\ dim[img[c]] # Null
  <2>1. PICK clone \in Fresh :
          /\ dim' = [dim EXCEPT ![img[c]] = Null, ![clone] = dim[img[c]]]
          /\ img' = [img EXCEPT ![c] = clone]
          /\ cur' = img'[c]
    BY <1>6 DEF AfterFree, CloneOf, ImageAfterSave
  <2>2. /\ clone \in Imgs /\ clone # Null /\ dim[clone] = Null
        /\ img[c] \in Imgs /\ clone # img[c]
    BY <1>6, NullAssumption DEF Fresh, Ranges
  <2>3. /\ \A d \in Ctxs : img'[d] = IF d = c THEN clone ELSE img[d]
        /\ \A k \in Imgs : dim'[k] = CASE k = clone -> dim[img[c]]
                                       [] k # clone /\ k = img[c] -> Null
                                       [] k # clone /\ k # img[c] -> dim[k]
    BY <2>1, <2>2 DEF Ranges
  <2>4. dim[img[c]] \in Size \cup {Null} /\ UNCHANGED <<st, geo, refused, past, fault>>
    BY <1>6, <2>2 DEF Ranges
  <2>5. Ranges'
    BY <2>1, <2>2, <2>4 DEF Ranges
  <2>6. ExistsInv' /\ CurrentInv'
    <3>1. img'[c] = clone /\ cur' = clone /\ dim'[clone] = dim[img[c]]
      BY <2>1, <2>2, <2>3
    <3>2. ExistsInv'
      BY <1>1, <1>2, <1>6, <2>4, <3>1 DEF ExistsInv
    <3>3. CurrentInv'
      BY <1>1, <1>2, <2>4, <3>1 DEF CurrentInv
    <3> QED BY <3>2, <3>3
  <2>7. SizeDescribesImage'
    BY <1>1, <1>2, <1>6, <2>2, <2>3, <2>4 DEF SizeDescribesImage
  <2>8. LeakOnlyByReload'
    <3> SUFFICES ASSUME past = {}, NEW k \in Imgs, dim'[k] # Null
                 PROVE  \E d \in Live : img'[d] = k
      BY <1>1, <2>4 DEF LeakOnlyByReload
    <3>1. CASE k = clone
      BY <1>1, <2>3, <3>1
    <3>2. CASE k # clone
      <4>1. k # img[c] /\ dim[k] # Null
        BY <2>3, <3>2
      <4>2. PICK d \in Live : img[d] = k
        BY <4>1 DEF LeakOnlyByReload
      <4> QED BY <1>2, <4>1, <4>2
    <3> QED BY <3>1, <3>2
  <2> QED BY <1>3, <2>5, <2>6, <2>7, <2>8
<1> QED BY <1>4, <1>5, <1>6

-----------------------------------------------------------------------------
LEMMA NextKeeps == IInv /\ [Next]_vars => IInv'
<1> SUFFICES ASSUME IInv, [Next]_vars PROVE IInv'
  OBVIOUS
<1>1. CASE UNCHANGED vars
  <2>1. Live' = Live
    BY <1>1 DEF vars, Live
  <2> QED BY <1>1, <2>1 DEF IInv, vars, Ranges, AloneInv, ExistsInv, CurrentInv,
                            LeakOnlyByReload, SizeDescribesImage
<1>2. ASSUME NEW c \in Ctxs, NewContext(c) PROVE IInv'
  BY <1>2, NewContextKeeps
<1>3. ASSUME NEW c \in Ctxs, DestroyContext(c) PROVE IInv'
  BY <1>3, DestroyContextKeeps
<1>4. ASSUME NEW c \in Ctxs, Save(c) PROVE IInv'
  BY <1>4, SaveKeeps
<1>5. ASSUME NEW c \in Ctxs, NEW f \in Files, Load(c, f) PROVE IInv'
  BY <1>5, LoadKeeps
<1>6. ASSUME NEW c \in Ctxs, NEW a \in Aspects, NEW align \in Aligns, Crop(c, a, align)
      PROVE  IInv'
  BY <1>6, CropKeeps
<1>7. ASSUME NEW c \in Ctxs, NEW p \in Percents, Resize(c, p, 0, 0, "none") PROVE IInv'
  BY <1>7, LengthsAssumption, ResizeKeeps
<1>8. ASSUME NEW c \in Ctxs, NEW w \in Lengths, NEW h \in Lengths,
             NEW datum \in {"none", "width", "height"}, Resize(c, 0, w, h, datum)
      PROVE  IInv'
  BY <1>8, LengthsAssumption, ResizeKeeps
<1> QED BY <1>1, <1>2, <1>3, <1>4, <1>5, <1>6, <1>7, <1>8 DEF Next

-----------------------------------------------------------------------------
(* That offsets are natural numbers rests on the parts kahanaImgCrop takes     *)
(* being no larger than the image, and so on the ratio a context keeps beside  *)
(* its size being that of the size; a context without an image has none.      *)
RatioInv ==
  \A c \in Ctxs : \/ geo[c].aspect = geo[c].size
                  \/ geo[c].size = <<0, 0>> /\ geo[c].aspect = <<1, 1>>

Geometry == [size : Size, aspect : Size, x : Nat, y : Nat,
             cropped : {"no", "yes"}, crop : Size, cropAspect : Size,
             resized : {"no", "yes"}, resize : Size]

TInv == TypeOK /\ RatioInv

LEMMA DivBound ==
  ASSUME NEW k \in Nat, NEW d \in Nat \ {0}, NEW s \in Nat, k <= s * d
  PROVE  k \div d <= s
<1> DEFINE q == k \div d
<1>1. q \in Nat /\ d * q <= k
  BY SMTT(30)
<1> HIDE DEF q
<1>2. SUFFICES ASSUME q >= s + 1 PROVE FALSE
  BY <1>1 DEF q
<1>3. d * q >= d * (s + 1)
  BY <1>1, <1>2, SMTT(30)
<1>4. d * (s + 1) = d * s + d /\ d * s = s * d
  BY SMTT(30)
<1>5. d * s \in Nat /\ d * q \in Nat
  BY <1>1
<1> QED BY <1>1, <1>3, <1>4, <1>5

(* The offset of a part of a whole lies in the whole. *)
LEMMA OffsetIsNat ==
  ASSUME NEW align \in Aligns, NEW total \in Nat, NEW part \in Nat, part <= total, NEW old \in Nat
  PROVE  Offset(align, total, part, old) \in Nat
<1>1. total - part \in Nat
  OBVIOUS
<1>2. (total - part) \div 2 \in Nat
  BY <1>1
<1> QED BY <1>1, <1>2 DEF Offset, Aligns

LEMMA CroppedGeometry ==
  ASSUME NEW g \in Geometry, NEW a \in Aspects, NEW align \in Aligns,
         g.aspect = g.size \/ (g.size = <<0, 0>> /\ g.aspect = <<1, 1>>)
  PROVE  /\ Cropped(g, a, align) \in Geometry
         /\ Cropped(g, a, align).size = g.size /\ Cropped(g, a, align).aspect = g.aspect
<1> DEFINE w == Times(g.size[2], a)
           h == Times(g.size[1], <<a[2], a[1]>>)
<1>1. /\ a[1] \in Nat \ {0} /\ a[2] \in Nat \ {0}
      /\ g.size[1] \in Nat /\ g.size[2] \in Nat
      /\ g.x \in Nat /\ g.y \in Nat
  BY AspectsAssumption DEF Geometry, Size
<1>2. w \in Nat /\ h \in Nat
  BY <1>1, TimesIsNat DEF Times
<1>3. /\ <<w, g.size[2]>> \in Size /\ <<g.size[1], h>> \in Size
  BY <1>1, <1>2 DEF Size
<1>4. ASSUME Wider(g.aspect, a) PROVE w <= g.size[1]
  <2>1. g.size[2] * a[1] \in Nat /\ g.size[1] * a[2] \in Nat
    BY <1>1
  <2>2. g.size[2] * a[1] <= g.size[1] * a[2]
    <3>1. CASE g.aspect = g.size
      BY <1>1, <1>4, <2>1, <3>1 DEF Wider
    <3>2. CASE g.size = <<0, 0>>
      BY <1>1, <3>2
    <3> QED BY <3>1, <3>2
  <2> QED BY <1>1, <2>1, <2>2, DivBound DEF Times
<1>5. ASSUME Wider(a, g.aspect) PROVE h <= g.size[2]
  <2>1. g.size[1] * a[2] \in Nat /\ g.size[2] * a[1] \in Nat
    BY <1>1
  <2>2. g.size[1] * a[2] <= g.size[2] * a[1]
    <3>1. CASE g.aspect = g.size
      BY <1>1, <1>5, <2>1, <3>1 DEF Wider
    <3>2. CASE g.size = <<0, 0>>
      BY <1>1, <3>2
    <3> QED BY <3>1, <3>2
  <2> QED BY <1>1, <2>1, <2>2, DivBound DEF Times
<1>6. CASE Wider(g.aspect, a)
  <2>0. ~ Wider(a, g.aspect)
    <3>1. g.aspect[1] * a[2] \in Nat /\ a[1] * g.aspect[2] \in Nat
      BY <1>1 DEF Geometry, Size
    <3> QED BY <1>6, <3>1 DEF Wider
  <2>1. Offset(align, g.size[1], w, g.x) \in Nat
    BY <1>1, <1>2, <1>4, <1>6, OffsetIsNat
  <2>2. Cropped(g, a, align) =
          [g EXCEPT !.cropped = "yes", !.crop = <<w, g.size[2]>>,
                    !.cropAspect = <<w, g.size[2]>>,
                    !.x = Offset(align, g.size[1], w, g.x)]
    BY <1>6, <2>0 DEF Cropped, Geometry
  <2> HIDE DEF w, h
  <2> QED BY <1>3, <2>1, <2>2 DEF Geometry
<1>7. CASE ~ Wider(g.aspect, a) /\ Wider(a, g.aspect)
  <2>1. Offset(align, g.size[2], h, g.y) \in Nat
    BY <1>1, <1>2, <1>5, <1>7, OffsetIsNat
  <2>2. Cropped(g, a, align) =
          [g EXCEPT !.cropped = "yes", !.crop = <<g.size[1], h>>,
                    !.cropAspect = <<g.size[1], h>>,
                    !.y = Offset(align, g.size[2], h, g.y)]
    BY <1>7 DEF Cropped, Geometry
  <2> HIDE DEF w, h
  <2> QED BY <1>3, <2>1, <2>2 DEF Geometry
<1>8. CASE ~ Wider(g.aspect, a) /\ ~ Wider(a, g.aspect)
  <2>1. Cropped(g, a, align) = [g EXCEPT !.cropped = "no"]
    BY <1>8 DEF Cropped
  <2> QED BY <2>1 DEF Geometry
<1> QED BY <1>6, <1>7, <1>8

LEMMA TypeInit == Init => TInv
BY DEF Init, TInv, TypeOK, RatioInv, Blank

(* An edit of one context's geometry that keeps its size and its ratio. *)
LEMMA TypeEdit ==
  ASSUME TInv, NEW c \in Ctxs, NEW g \in Geometry,
         g.size = geo[c].size, g.aspect = geo[c].aspect,
         geo' = [geo EXCEPT ![c] = g],
         UNCHANGED <<st, img, dim, cur, saved, refused, past, fault>>
  PROVE  TInv'
<1>1. TypeOK'
  BY DEF TInv, TypeOK, Geometry, Size
<1>2. RatioInv'
  BY DEF TInv, TypeOK, RatioInv
<1> QED BY <1>1, <1>2 DEF TInv

LEMMA TypeNext == TInv /\ [Next]_vars => TInv'
<1> SUFFICES ASSUME TInv, [Next]_vars PROVE TInv'
  OBVIOUS
<1>0. geo \in [Ctxs -> Geometry]
  BY DEF TInv, TypeOK, Geometry, Size
<1>1. CASE UNCHANGED vars
  BY <1>1 DEF TInv, vars, TypeOK, RatioInv
<1>2. ASSUME NEW c \in Ctxs, NewContext(c) \/ DestroyContext(c) PROVE TInv'
  <2>1. geo' = [geo EXCEPT ![c] = Blank]
    BY <1>2 DEF NewContext, DestroyContext
  <2>2. Blank \in Geometry
    BY DEF Blank, Geometry, Size
  <2>3. geo' \in [Ctxs -> Geometry]
    BY <1>0, <2>1, <2>2
  <2>4. /\ st' \in [Ctxs -> {"none", "live", "gone"}]
        /\ img' \in [Ctxs -> Imgs \cup {Null}]
        /\ UNCHANGED <<saved, refused, fault>>
    BY <1>2 DEF NewContext, DestroyContext, TInv, TypeOK
  <2>5. /\ dim' \in [Imgs -> ((Nat \ {0}) \X (Nat \ {0})) \cup {Null}]
        /\ cur' \in Imgs \cup {Null} /\ past' \subseteq {"together", "reloaded"}
    BY <1>2 DEF NewContext, DestroyContext, TInv, TypeOK
  <2>6. RatioInv'
    BY <1>0, <2>1 DEF TInv, RatioInv, Blank
  <2> QED BY <2>3, <2>4, <2>5, <2>6 DEF TInv, TypeOK, Geometry, Size
<1>3. ASSUME NEW c \in Ctxs, Save(c) PROVE TInv'
  <2>1. UNCHANGED <<st, geo, refused, past>>
    BY <1>3 DEF Save
  <2>2. img' \in [Ctxs -> Imgs \cup {Null}] /\ cur' \in Imgs \cup {Null}
    BY <1>3 DEF Save, TInv, TypeOK, Fresh, ImageAfterSave
  <2>3. /\ dim' \in [Imgs -> ((Nat \ {0}) \X (Nat \ {0})) \cup {Null}]
        /\ fault' \in {"none", "freed"}
    BY <1>3 DEF Save, TInv, TypeOK, Fresh, AfterFree, CloneOf
  <2>4. saved' \in {"none", "written", "error", "nothing"}
    BY <1>3 DEF Save, TInv, TypeOK
  <2> QED BY <2>1, <2>2, <2>3, <2>4 DEF TInv, TypeOK, RatioInv
<1>4. ASSUME NEW c \in Ctxs, NEW f \in Files, Load(c, f) PROVE TInv'
  <2>1. SizeOf[f] \in (Nat \ {0}) \X (Nat \ {0})
    BY FilesAssumption
  <2>2. Loaded(geo[c], f) \in Geometry /\ Loaded(geo[c], f).aspect = Loaded(geo[c], f).size
    <3>1. geo[c] \in Geometry
      BY <1>0
    <3>2. SizeOf[f] \in Size
      BY <2>1 DEF Size
    <3> QED BY <3>1, <3>2 DEF Loaded, Geometry
  <2>3. geo' = geo \/ geo' = [geo EXCEPT ![c] = Loaded(geo[c], f)]
    BY <1>4 DEF Load
  <2>4. geo' \in [Ctxs -> Geometry] /\ RatioInv'
    BY <1>0, <2>2, <2>3 DEF TInv, RatioInv
  <2>5. /\ img' \in [Ctxs -> Imgs \cup {Null}] /\ cur' \in Imgs \cup {Null}
        /\ dim' \in [Imgs -> ((Nat \ {0}) \X (Nat \ {0})) \cup {Null}]
    <3>0. /\ img \in [Ctxs -> Imgs \cup {Null}] /\ cur \in Imgs \cup {Null}
          /\ dim \in [Imgs -> ((Nat \ {0}) \X (Nat \ {0})) \cup {Null}]
      BY DEF TInv, TypeOK
    <3>1. CASE img' = [img EXCEPT ![c] = Null] /\ UNCHANGED <<dim, cur>>
      BY <3>0, <3>1
    <3>2. ASSUME NEW i \in Imgs, img' = [img EXCEPT ![c] = i],
                 dim' = [dim EXCEPT ![i] = SizeOf[f]], cur' = i
          PROVE  /\ img' \in [Ctxs -> Imgs \cup {Null}] /\ cur' \in Imgs \cup {Null}
                 /\ dim' \in [Imgs -> ((Nat \ {0}) \X (Nat \ {0})) \cup {Null}]
      BY <2>1, <3>0, <3>2
    <3> QED BY <1>4, <3>1, <3>2 DEF Load, Fresh
  <2>6. /\ refused' \subseteq Ctxs /\ past' \subseteq {"together", "reloaded"}
        /\ UNCHANGED <<st, saved, fault>>
    BY <1>4 DEF Load, TInv, TypeOK
  <2> QED BY <2>4, <2>5, <2>6 DEF TInv, TypeOK, Geometry, Size
<1>5. ASSUME NEW c \in Ctxs, NEW a \in Aspects, NEW align \in Aligns, Crop(c, a, align)
      PROVE  TInv'
  <2>1. geo' = [geo EXCEPT ![c] = Cropped(geo[c], a, align)]
        /\ UNCHANGED <<st, img, dim, cur, saved, refused, past, fault>>
    BY <1>5 DEF Crop
  <2>2. geo[c].aspect = geo[c].size \/ (geo[c].size = <<0, 0>> /\ geo[c].aspect = <<1, 1>>)
    BY DEF TInv, RatioInv
  <2>3. /\ Cropped(geo[c], a, align) \in Geometry
        /\ Cropped(geo[c], a, align).size = geo[c].size
        /\ Cropped(geo[c], a, align).aspect = geo[c].aspect
    BY <1>0, <2>2, CroppedGeometry
  <2> QED BY <2>1, <2>3, TypeEdit
<1>6. ASSUME NEW c \in Ctxs, NEW p \in Nat, NEW w \in Nat, NEW h \in Nat, NEW datum,
             Resize(c, p, w, h, datum)
      PROVE  TInv'
  <2>1. PICK t \in Targets(geo[c], p, w, h, datum) :
          geo' = [geo EXCEPT ![c].resize = t, ![c].resized = "yes"]
    BY <1>6 DEF Resize
  <2>2. geo[c] \in Shapes
    BY <1>0 DEF Geometry, Shapes
  <2>3. t \in Size
    BY <2>1, <2>2, TargetsAreSizes
  <2>4. UNCHANGED <<st, img, dim, cur, saved, refused, past, fault>>
    BY <1>6 DEF Resize
  <2> DEFINE g == [geo[c] EXCEPT !.resize = t, !.resized = "yes"]
  <2>5. geo' = [geo EXCEPT ![c] = g]
    BY <1>0, <2>1
  <2>6. g \in Geometry /\ g.size = geo[c].size /\ g.aspect = geo[c].aspect
    BY <1>0, <2>3 DEF Geometry
  <2> HIDE DEF g
  <2> QED BY <2>4, <2>5, <2>6, TypeEdit
<1>7. ASSUME NEW c \in Ctxs, NEW p \in Percents, Resize(c, p, 0, 0, "none") PROVE TInv'
  BY <1>6, <1>7, LengthsAssumption
<1>8. ASSUME NEW c \in Ctxs, NEW w \in Lengths, NEW h \in Lengths,
             NEW datum \in {"none", "width", "height"}, Resize(c, 0, w, h, datum)
      PROVE  TInv'
  BY <1>6, <1>8, LengthsAssumption
<1> QED BY <1>1, <1>2, <1>3, <1>4, <1>5, <1>7, <1>8 DEF Next

(* Every variable stays in its range: the offsets of parts, too, are never    *)
(* negative.                                                                 *)
THEOREM TypeCorrect == Spec => []TypeOK
<1>1. TInv => TypeOK
  BY DEF TInv
<1> QED BY <1>1, TypeInit, TypeNext, PTL DEF Spec

(* One context at a time never touches a freed image. *)
THEOREM OneContextIsSafe == Spec => []NoUseAfterFree
<1>1. IInv => NoUseAfterFree
  BY DEF IInv, ExistsInv, NoUseAfterFree
<1> QED BY <1>1, InitHolds, NextKeeps, PTL DEF Spec

(* kahanaImgSave and the cleanup free all that contexts one at a time have    *)
(* loaded, although they free by imlib's current image.                      *)
THEOREM OneContextFreesAll == Spec => []LeakOnlyByReload
<1>1. IInv => LeakOnlyByReload
  BY DEF IInv
<1> QED BY <1>1, InitHolds, NextKeeps, PTL DEF Spec

(* A context that was never beside another one holds the image its size      *)
(* describes, unless that is of a refused format.                            *)
THEOREM SizeIsOfImage == Spec => []SizeDescribesImage
<1>1. IInv => SizeDescribesImage
  BY DEF IInv
<1> QED BY <1>1, InitHolds, NextKeeps, PTL DEF Spec
=============================================================================
