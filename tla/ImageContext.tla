----------------------------- MODULE ImageContext -----------------------------
(***************************************************************************)
(* The image contexts of src/image.c over imlib2.  Almost every imlib       *)
(* function works on one current image of the whole process; a context has  *)
(* a pointer to its own image and makes it current when it is loaded or     *)
(* saved, but its cleanup frees whatever is current then.  Images are       *)
(* abstracted to their size, the doubles of an aspect ratio are exact       *)
(* fractions <<n, d>>, and the files are different ones, so that imlib's    *)
(* cache never hands out an image twice.                                    *)
(***************************************************************************)
EXTENDS Integers

CONSTANTS Ctxs,      \* the contexts an application creates
          Editors,   \* bound: those whose images it crops and resizes
          Imgs,      \* bound: the images alive at a time
          Null,      \* the NULL pointer; also "no image" for the images
          Files,     \* the image files
          SizeOf,    \* the <<width, height>> of each file
          Aspects,   \* the ratios callers crop to
          Lengths,   \* the widths and heights callers resize to
          Percents   \* the percentages callers resize to

ASSUME NullAssumption == Null \notin Imgs /\ Null \notin Nat \X Nat
ASSUME EditorsAssumption == Editors \subseteq Ctxs
ASSUME FilesAssumption == SizeOf \in [Files -> (Nat \ {0}) \X (Nat \ {0})]
ASSUME AspectsAssumption == Aspects \subseteq (Nat \ {0}) \X (Nat \ {0})
ASSUME LengthsAssumption == Lengths \subseteq Nat /\ Percents \subseteq Nat \ {0}

VARIABLES
  st,      \* each context: "none", "live", "gone"
  img,     \* ctx->img
  geo,     \* the rest of each context
  dim,     \* the size of each image that exists, Null for the others
  cur,     \* imlib's current image
  saved,   \* what the last call did to its destination: "none", "written",
           \* "error", or "nothing" when NOERR was returned and no file written
  refused, \* history: the contexts whose last image was FORMAT_UNACCEPTABLE
  past,    \* history: "together" once two contexts lived at the same time,
           \* "reloaded" once an image was loaded over another
  fault    \* "none", or "freed" once an image that is gone was used

vars == <<st, img, geo, dim, cur, saved, refused, past, fault>>

Up(c) == st[c] = "live" /\ fault = "none"
Live == {c \in Ctxs : st[c] = "live"}

Blank == [size |-> <<0, 0>>, aspect |-> <<1, 1>>, x |-> 0, y |-> 0,
          cropped |-> "no", crop |-> <<0, 0>>, cropAspect |-> <<1, 1>>,
          resized |-> "no", resize |-> <<0, 0>>]

Init ==
  /\ st = [c \in Ctxs |-> "none"] /\ img = [c \in Ctxs |-> Null]
  /\ geo = [c \in Ctxs |-> Blank]
  /\ dim = [i \in Imgs |-> Null] /\ cur = Null
  /\ saved = "none" /\ refused = {}
  /\ past = {} /\ fault = "none"

(* An address imlib may give to a new image. *)
Fresh == {i \in Imgs : dim[i] = Null /\ \A c \in Live : img[c] # i}

-----------------------------------------------------------------------------
NewContext(c) ==
  /\ st[c] = "none" /\ fault = "none"
  /\ st' = [st EXCEPT ![c] = "live"]
  /\ img' = [img EXCEPT ![c] = Null]
  /\ geo' = [geo EXCEPT ![c] = Blank]
  /\ past' = past \cup (IF Live = {} THEN {} ELSE {"together"})
  /\ UNCHANGED <<dim, cur, saved, refused, fault>>

(* kahanaImgDestroyContext: ImgCleanupContext frees the current image, then *)
(* the context's memory goes.                                               *)
DestroyContext(c) ==
  /\ Up(c)
  /\ st' = [st EXCEPT ![c] = "gone"]
  /\ dim' = [i \in Imgs |-> IF i = cur THEN Null ELSE dim[i]]
  /\ cur' = Null
  /\ img' = [img EXCEPT ![c] = Null] /\ geo' = [geo EXCEPT ![c] = Blank]
  /\ UNCHANGED <<saved, refused, past, fault>>

-----------------------------------------------------------------------------
(* The format is compared with each accepted one and refused at the first   *)
(* that differs: with two accepted formats nothing is acceptable.           *)
Unacceptable(format, accepts) == \E a \in accepts : a # format

(* What kahanaImgLoad resets: not ctx->x and ctx->y. *)
Loaded(g, f) ==
  [g EXCEPT !.size = SizeOf[f], !.aspect = SizeOf[f], !.cropped = "no",
            !.crop = SizeOf[f], !.cropAspect = SizeOf[f],
            !.resized = "no", !.resize = SizeOf[f]]

(* kahanaImgLoad. An image that cannot be loaded leaves NULL in ctx->img; a *)
(* format that is refused leaves the new image with the old geometry.       *)
Load(c, f) ==
  /\ Up(c)
  /\ past' = past \cup (IF img[c] = Null THEN {} ELSE {"reloaded"})
  /\ \/ /\ img' = [img EXCEPT ![c] = Null]
        /\ UNCHANGED <<geo, dim, cur, refused>>
     \/ \E i \in Fresh :
          /\ img' = [img EXCEPT ![c] = i]
          /\ dim' = [dim EXCEPT ![i] = SizeOf[f]]
          /\ cur' = i
          /\ \E accepts \in SUBSET {"png", "gif"} :
               IF Unacceptable("png", accepts)
               THEN refused' = refused \cup {c} /\ UNCHANGED geo
               ELSE refused' = refused \ {c} /\ geo' = [geo EXCEPT ![c] = Loaded(@, f)]
  /\ UNCHANGED <<st, saved, fault>>

-----------------------------------------------------------------------------
(* Comparison of two ratios, and the product of a length and a ratio.       *)
Wider(a, b) == a[1] * b[2] > b[1] * a[2]
Times(len, a) == (len * a[1]) \div a[2]

(* Mutant of Offset: the operands are swapped. *)
MutOffsetSwapped(align, total, part, old) == IF align = "none" THEN old ELSE part - total

(* Where a part of a whole begins; ALIGN_NONE leaves the offset alone. *)
Offset(align, total, part, old) ==
  CASE align = "first"  -> 0
    [] align = "middle" -> (total - part) \div 2
    [] align = "last"   -> total - part
    [] align = "none"   -> old

Aligns == {"none", "first", "middle", "last"}

(* kahanaImgCrop's effect on the geometry; only one of x and y is set. *)
Cropped(g, a, align) ==
  LET w == Times(g.size[2], a)
      h == Times(g.size[1], <<a[2], a[1]>>)
  IN  CASE Wider(g.aspect, a) ->
             [g EXCEPT !.cropped = "yes", !.crop = <<w, g.size[2]>>,
                       !.cropAspect = <<w, g.size[2]>>,
                       !.x = Offset(align, g.size[1], w, @)]
        [] Wider(a, g.aspect) ->
             [g EXCEPT !.cropped = "yes", !.crop = <<g.size[1], h>>,
                       !.cropAspect = <<g.size[1], h>>,
                       !.y = Offset(align, g.size[2], h, @)]
        [] OTHER -> [g EXCEPT !.cropped = "no"]

Crop(c, a, align) ==
  /\ Up(c)
  /\ geo' = [geo EXCEPT ![c] = Cropped(@, a, align)]
  /\ UNCHANGED <<st, img, dim, cur, saved, refused, past, fault>>

(* A length times n / d; if d is 0 the conversion to unsigned is undefined. *)
Scaled(len, n, d) == IF d = 0 THEN {0, len} ELSE {(len * n) \div d}

(* The sizes kahanaImgResize may give to an image: none if it returns       *)
(* without effect.                                                          *)
Targets(g, percentage, width, height, datum) ==
  LET wh == IF g.cropped = "yes" THEN g.crop ELSE g.size
      a  == IF g.cropped = "yes" THEN g.cropAspect ELSE g.aspect
  IN  CASE percentage > 0 -> {<<(wh[1] * percentage) \div 100, (wh[2] * percentage) \div 100>>}
        [] percentage = 0 /\ wh = <<width, height>> -> {}
        [] percentage = 0 /\ wh # <<width, height>> ->
             CASE datum = "none" -> {<<width, height>>}
               [] datum = "width" /\ width # 0 -> {<<width, h>> : h \in Scaled(width, a[2], a[1])}
               [] datum = "height" /\ height # 0 -> {<<w, height>> : w \in Scaled(height, a[1], a[2])}
               [] OTHER -> {}

(* kahanaImgResize. *)
Resize(c, percentage, width, height, datum) ==
  /\ Up(c)
  /\ \E t \in Targets(geo[c], percentage, width, height, datum) :
       geo' = [geo EXCEPT ![c].resize = t, ![c].resized = "yes"]
  /\ UNCHANGED <<st, img, dim, cur, saved, refused, past, fault>>

-----------------------------------------------------------------------------
Empty == <<0, 0>>
Part(wh) == IF 0 \in {wh[1], wh[2]} THEN Empty ELSE wh

(* The size of the image that is saved, Empty if imlib has none: it creates *)
(* no image without width or height, and nothing from no image.             *)
Result(d, g) ==
  LET first == IF g.cropped = "yes" THEN Part(g.crop) ELSE d
  IN  IF g.resized = "yes" /\ first # Empty THEN Part(g.resize) ELSE first

(* Mutant of CloneOf: the clone is taken after the crop. *)
MutCloneCropped(d, g) == IF g.cropped = "yes" THEN g.crop ELSE d

(* The clone that replaces the image of size d once it is saved. *)
CloneOf(d, g) == d

(* Mutant of ImageAfterSave: ctx->img is not set to the clone. *)
MutImageKept(old, clone) == old

ImageAfterSave(old, clone) == clone

(* Mutant of AfterFree: the original is not freed. *)
MutNotFreed(old) == dim[old]

(* What there is of an image that imlib_free_image_and_decache() was given. *)
AfterFree(old) == Null

(* kahanaImgSave clones the image, works on the original until it is saved  *)
(* and freed, and goes on with the clone.  Without an image imlib does       *)
(* nothing and reports nothing.                                             *)
Save(c) ==
  /\ Up(c)
  /\ \/ /\ img[c] = Null
        /\ cur' = Null /\ saved' = "nothing"
        /\ UNCHANGED <<img, dim, fault>>
     \/ /\ img[c] # Null /\ dim[img[c]] = Null
        /\ fault' = "freed"
        /\ UNCHANGED <<img, dim, cur, saved>>
     \/ /\ img[c] # Null /\ dim[img[c]] # Null
        /\ \E clone \in Fresh :
             /\ dim' = [dim EXCEPT ![img[c]] = AfterFree(img[c]),
                                   ![clone] = CloneOf(dim[img[c]], geo[c])]
             /\ img' = [img EXCEPT ![c] = ImageAfterSave(@, clone)]
             /\ cur' = img'[c]
        /\ saved' \in (IF Result(dim[img[c]], geo[c]) = Empty THEN {"nothing"}
                                                            ELSE {"written", "error"})
        /\ UNCHANGED fault
  /\ UNCHANGED <<st, geo, refused, past>>

-----------------------------------------------------------------------------
Next ==
  \E c \in Ctxs :
     \/ NewContext(c) \/ DestroyContext(c) \/ Save(c)
     \/ \E f \in Files : Load(c, f)
     \/ /\ c \in Editors
        /\ \/ \E a \in Aspects, align \in Aligns : Crop(c, a, align)
           \/ \E p \in Percents : Resize(c, p, 0, 0, "none")
           \/ \E w, h \in Lengths, datum \in {"none", "width", "height"} :
                Resize(c, 0, w, h, datum)

Spec == Init /\ [][Next]_vars

-----------------------------------------------------------------------------
(* Every variable stays in its range. *)
TypeOK ==
  /\ st \in [Ctxs -> {"none", "live", "gone"}]
  /\ img \in [Ctxs -> Imgs \cup {Null}] /\ cur \in Imgs \cup {Null}
  /\ dim \in [Imgs -> ((Nat \ {0}) \X (Nat \ {0})) \cup {Null}]
  /\ geo \in [Ctxs -> [size : Nat \X Nat, aspect : Nat \X Nat, x : Nat, y : Nat,
                       cropped : {"no", "yes"}, crop : Nat \X Nat, cropAspect : Nat \X Nat,
                       resized : {"no", "yes"}, resize : Nat \X Nat]]
  /\ saved \in {"none", "written", "error", "nothing"}
  /\ refused \subseteq Ctxs
  /\ past \subseteq {"together", "reloaded"} /\ fault \in {"none", "freed"}

(* An application with one context at a time never touches a freed image,   *)
(* although kahanaImgSave frees the one it was given each time.             *)
NoUseAfterFree == fault # "none" => "together" \in past

(* Every image still belongs to a live context, unless contexts lived       *)
(* together or an image was loaded over another: kahanaImgSave and the      *)
(* cleanup free what they must, although they free by imlib's current image.*)
LeakOnlyByReload ==
  past = {} => \A i \in Imgs : dim[i] # Null => \E c \in Live : img[c] = i

(* Whatever was cropped, resized and saved, a context that was never beside  *)
(* another one still holds the whole image its size describes; only a file   *)
(* of a refused format leaves another image with the old size.               *)
SizeDescribesImage ==
  "together" \notin past =>
     \A c \in Live \ refused : img[c] # Null => dim[img[c]] = geo[c].size

=============================================================================
