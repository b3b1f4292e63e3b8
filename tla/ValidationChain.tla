--------------------------- MODULE ValidationChain ---------------------------
(***************************************************************************)
(* ValidationPipeline.run over the five validators of the default pipeline *)
(* for one file.  A file is what the libraries find in it; the context is  *)
(* what the validators pass on to each other and to the worker.            *)
(***************************************************************************)
EXTENDS PerceptualHash

CONSTANTS
    Files,           \* the files considered
    MinFileBytes, MinWidth, MinHeight, BlurThreshold, FaceMaxCount,
    FaceMinPercent,  \* FACE_MIN_AREA_RATIO, in percent of the image
    BlurEdge,        \* 256: the long edge of the image BlurValidator looks at
    HammingThreshold,
    Accepted         \* DCT blocks of the user's ACCEPTED images at the scan

(***************************************************************************)
(* A file: mime, what FileType sniffs; heicDecodes, whether heic-convert   *)
(* succeeds; header, whether sharp reads the metadata; pixels, whether it  *)
(* decodes the pixels; canvas, whether node-canvas, the other decoder,     *)
(* does and faces can be looked for; bytes, the size uploaded, and         *)
(* jpegBytes after conversion from HEIC; variance, of the Laplacian, how   *)
(* sharp it is; faces, the areas of the faces found; block, its DCT block. *)
(***************************************************************************)
ASSUME FilesAssumption ==
    /\ \A f \in Files :
          /\ {"mime", "heicDecodes", "header", "pixels", "canvas", "bytes", "jpegBytes",
              "width", "height", "variance", "faces", "block"} = DOMAIN f
          /\ f.heicDecodes \in BOOLEAN /\ f.header \in BOOLEAN
          /\ f.pixels \in BOOLEAN /\ f.canvas \in BOOLEAN
          /\ f.bytes \in Nat /\ f.jpegBytes \in Nat
          /\ f.width \in Nat \ {0} /\ f.height \in Nat \ {0}
          /\ IsFiniteSet(f.faces) /\ \A a \in f.faces : a.area \in Nat
          /\ f.block \in [Positions -> Int]
    /\ MinFileBytes \in Nat /\ MinWidth \in Nat /\ MinHeight \in Nat /\ FaceMinPercent \in Nat
    /\ Accepted \subseteq [Positions -> Int] /\ HammingThreshold \in Nat
    /\ BlurEdge \in Nat \ {0}

VARIABLES
    file,        \* the file under validation
    collectAll,  \* PipelineOptions.collectAll, false in the default pipeline
    down,        \* what fails while this file is validated: "model", "database"
    ctx,         \* ValidationContext; size 0 and the empty hash are undefined
    next,        \* the validator that runs next
    reasons,     \* the codes collected
    outcome      \* "running", "passed", "rejected", or "threw"

vars == <<file, collectAll, down, ctx, next, reasons, outcome>>

Allowed == {"image/jpeg", "image/png", "image/heic", "image/heif"}
HeicMimes == {"image/heic", "image/heif"}

(* The validators in the order of the factory.                             *)
Validators == <<"Format", "Dimension", "Blur", "Face", "Similarity">>

(* What a validator returns; "ok" is passed: true.                         *)
Result(code, c) == [code |-> code, ctx |-> c]

-----------------------------------------------------------------------------
(* FormatValidator: sniff, convert HEIC, read the size.                    *)
Converted(f, c) ==
    IF f.mime \in HeicMimes
    THEN [c EXCEPT !.bytes = f.jpegBytes, !.display = TRUE]
    ELSE c

Format(f, c) ==
    CASE f.mime \notin Allowed -> Result("UNSUPPORTED_FORMAT", c)
      [] f.mime \in HeicMimes /\ ~f.heicDecodes -> Result("CORRUPT_FILE", c)
      [] f.mime \in Allowed /\ (f.mime \in HeicMimes => f.heicDecodes) ->
            IF f.header
            THEN Result("ok", [Converted(f, c) EXCEPT !.width = f.width,
                                                      !.height = f.height])
            ELSE Result("CORRUPT_FILE", Converted(f, c))

(* DimensionValidator, on the working buffer.                              *)
Dimension(f, c) ==
    Result(CASE c.bytes < MinFileBytes -> "FILE_TOO_SMALL_BYTES"
             [] c.bytes >= MinFileBytes /\ (c.width = 0 \/ c.height = 0) -> "CORRUPT_FILE"
             [] OTHER -> IF c.width < MinWidth \/ c.height < MinHeight
                         THEN "RESOLUTION_TOO_LOW" ELSE "ok", c)

(* The short edge after the resize: rounded, and at least one pixel.       *)
ShortEdge(w, h) ==
    LET short == IF w < h THEN w ELSE h
        long == IF w < h THEN h ELSE w
        scaled == (2 * short * BlurEdge + long) \div (2 * long)
    IN  IF scaled = 0 THEN 1 ELSE scaled

(* The Laplacian needs a neighbour on each side: below three pixels there  *)
(* is nothing to sum, 0 / 0 is NaN, and NaN is not below the threshold.    *)
Measurable(f) == ShortEdge(f.width, f.height) >= 3

Blur(f, c) ==
    IF ~f.pixels THEN Result("throw", c)
    ELSE Result(IF Measurable(f) /\ f.variance < BlurThreshold
                THEN "IMAGE_TOO_BLURRY" ELSE "ok", c)

LargestFace(f) == CHOOSE a \in f.faces : \A b \in f.faces : b.area <= a.area

(* FaceValidator: detectFaces throws when the model cannot be loaded or    *)
(* the image cannot; then the number of faces, and the size of the largest.*)
Face(f, c) ==
    CASE c.width = 0 \/ c.height = 0 -> Result("CORRUPT_FILE", c)
      [] c.width # 0 /\ c.height # 0 /\ ("model" \in down \/ ~f.canvas) ->
            Result("throw", c)
      [] OTHER ->
            Result(IF f.faces = {} THEN "NO_FACE_DETECTED"
                   ELSE IF Cardinality(f.faces) > FaceMaxCount THEN "MULTIPLE_FACES"
                   ELSE IF 100 * LargestFace(f).area < FaceMinPercent * c.width * c.height
                   THEN "FACE_TOO_SMALL" ELSE "ok", c)

(* The scan of listAcceptedHashes.                                         *)
NearDuplicate(hash) ==
    \E block \in Accepted : HammingDistance(hash, Hash(block)) <= HammingThreshold

(* Mutant of Similarity: the hash is not put into the context.             *)
SimilarityKeepsNoHash(f, c) ==
    IF ~f.pixels \/ "database" \in down THEN Result("throw", c)
    ELSE Result(IF NearDuplicate(Hash(f.block)) THEN "DUPLICATE_IMAGE" ELSE "ok", c)

(* SimilarityValidator: the hash enters the context before the scan, whose *)
(* query may fail.                                                         *)
Similarity(f, c) ==
    LET hashed == [c EXCEPT !.hash = Hash(f.block)]
    IN  CASE ~f.pixels -> Result("throw", c)
          [] f.pixels /\ "database" \in down -> Result("throw", hashed)
          [] OTHER -> Result(IF NearDuplicate(Hash(f.block)) THEN "DUPLICATE_IMAGE"
                             ELSE "ok", hashed)

Validate(f, c) ==
    CASE Validators[next] = "Format" -> Format(f, c)
      [] Validators[next] = "Dimension" -> Dimension(f, c)
      [] Validators[next] = "Blur" -> Blur(f, c)
      [] Validators[next] = "Face" -> Face(f, c)
      [] Validators[next] = "Similarity" -> Similarity(f, c)

-----------------------------------------------------------------------------
Init ==
    /\ file \in Files
    /\ collectAll \in BOOLEAN
    /\ down \in SUBSET {"model", "database"}
    /\ ctx = [bytes |-> file.bytes, width |-> 0, height |-> 0, display |-> FALSE,
              hash |-> <<>>]
    /\ next = 1
    /\ reasons = <<>>
    /\ outcome = "running"

(* Mutant of Turn: no break after a failed validator.                      *)
TurnWithoutBreak ==
    LET result == Validate(file, ctx)
    IN  /\ outcome = "running" /\ next <= Len(Validators)
        /\ ctx' = result.ctx
        /\ IF result.code = "throw"
           THEN outcome' = "threw" /\ UNCHANGED <<next, reasons>>
           ELSE /\ reasons' = IF result.code = "ok" THEN reasons
                              ELSE Append(reasons, result.code)
                /\ next' = next + 1
                /\ UNCHANGED outcome
        /\ UNCHANGED <<file, collectAll, down>>

(* One turn of the loop of run.                                            *)
Turn ==
    LET result == Validate(file, ctx)
        failed == result.code # "ok"
    IN  /\ outcome = "running" /\ next <= Len(Validators)
        /\ ctx' = result.ctx
        /\ IF result.code = "throw"
           THEN outcome' = "threw" /\ UNCHANGED <<next, reasons>>
           ELSE /\ reasons' = IF failed THEN Append(reasons, result.code) ELSE reasons
                /\ next' = IF failed /\ ~collectAll THEN Len(Validators) + 1 ELSE next + 1
                /\ UNCHANGED outcome
        /\ UNCHANGED <<file, collectAll, down>>

Return ==
    /\ outcome = "running" /\ next > Len(Validators)
    /\ outcome' = IF reasons = <<>> THEN "passed" ELSE "rejected"
    /\ UNCHANGED <<file, collectAll, down, ctx, next, reasons>>

Next == Turn \/ Return

Spec == Init /\ [][Next]_vars

-----------------------------------------------------------------------------
(* Reference definitions, on the file alone.                               *)

(* The positions at which two images lie on different sides of their       *)
(* medians.                                                                *)
Above(block) ==
    LET median == Median(block) IN {p \in Coefficients : block[p] > median}

DifferingBits(x, y) == (Above(x) \ Above(y)) \cup (Above(y) \ Above(x))

(* The rules a file breaks, by the table of rejection codes (README.md:    *)
(* 366-378).                                                               *)
Breaks(f, code) ==
    CASE code = "UNSUPPORTED_FORMAT" -> f.mime \notin Allowed
      [] code = "CORRUPT_FILE" ->
            ~f.header \/ ~f.pixels \/ ~f.canvas \/ (f.mime \in HeicMimes /\ ~f.heicDecodes)
      [] code = "FILE_TOO_SMALL_BYTES" -> f.bytes < MinFileBytes
      [] code = "RESOLUTION_TOO_LOW" -> f.width < MinWidth \/ f.height < MinHeight
      [] code = "IMAGE_TOO_BLURRY" -> f.variance < BlurThreshold
      [] code = "NO_FACE_DETECTED" -> f.faces = {}
      [] code = "MULTIPLE_FACES" -> Cardinality(f.faces) > FaceMaxCount
      [] code = "FACE_TOO_SMALL" ->
            \A a \in f.faces : 100 * a.area < FaceMinPercent * f.width * f.height
      [] code = "DUPLICATE_IMAGE" -> \E block \in Accepted :
            Cardinality(DifferingBits(f.block, block)) <= HammingThreshold

(* The codes in the order in which a user is told of them.                 *)
Codes == <<"UNSUPPORTED_FORMAT", "CORRUPT_FILE", "FILE_TOO_SMALL_BYTES",
           "RESOLUTION_TOO_LOW", "IMAGE_TOO_BLURRY", "NO_FACE_DETECTED",
           "MULTIPLE_FACES", "FACE_TOO_SMALL", "DUPLICATE_IMAGE">>

(* The three places where the code decides a rule of the table the other   *)
(* way.  Pixels that cannot be decoded make a later validator throw, where *)
(* validation-pipeline.ts:43-44 and README.md:378 promise CORRUPT_FILE;    *)
(* the size is taken after the conversion of a HEIC (dimension.validator   *)
(* .ts:16), where README.md:371 speaks of the file; and an image of fewer  *)
(* than three pixels across passes the blur rule (blur.validator.ts:57-60) *)
(* however blurred, where README.md:373 knows no exception.                *)
Departs(f, code) ==
    \/ /\ code = "CORRUPT_FILE"
       /\ f.header /\ (f.mime \in HeicMimes => f.heicDecodes)
       /\ ~f.pixels \/ ~f.canvas
    \/ /\ code = "FILE_TOO_SMALL_BYTES" /\ f.mime \in HeicMimes
       /\ ~(f.bytes < MinFileBytes <=> f.jpegBytes < MinFileBytes)
    \/ /\ code = "IMAGE_TOO_BLURRY" /\ f.variance < BlurThreshold
       /\ ~Measurable(f)

(* The rules found broken: those of the table but for the departures.      *)
Broken(f) == {n \in 1..Len(Codes) : ~(Breaks(f, Codes[n]) <=> Departs(f, Codes[n]))}

-----------------------------------------------------------------------------
(* Properties.                                                             *)

(* The chain decides as the table of rejection codes says, up to the three *)
(* departures above and no other: a file passes only when it can be        *)
(* decoded and breaks no other rule, and the reason given for a rejection, *)
(* the only one unless all are collected, is the first rule it breaks      *)
(* (validation-pipeline.ts:34-62, and the order within each validator),    *)
(* whatever an earlier validator has put into the context.  For duplicates *)
(* the distance summed over packed hex digits is the number of DCT         *)
(* positions in which the images differ (phash.ts:76-105).                 *)
FirstBrokenRuleDecides ==
    /\ outcome = "passed" => file.pixels /\ file.canvas /\ Broken(file) = {}
    /\ outcome = "rejected" =>
          /\ ~collectAll => Len(reasons) = 1
          /\ \E n \in Broken(file) :
                reasons[1] = Codes[n] /\ \A k \in Broken(file) : n <= k

(* What the worker takes from the context of an image that passed is       *)
(* there: the size and the hash it asserts non-null, and a display copy    *)
(* exactly for HEIC (image.worker.ts:80-97).                               *)
PassedContextComplete ==
    outcome = "passed" =>
        /\ ctx.width > 0 /\ ctx.height > 0 /\ ctx.hash # <<>>
        /\ ctx.display <=> file.mime \in HeicMimes

(* Fewer than half of the bits of a hash are set, also when coefficients   *)
(* are equal: a bit is set strictly above the median, and the one of DC    *)
(* never is (phash.ts:73-87).                                              *)
FewerThanHalfSet ==
    LET ones == {n \in (1..Len(ctx.hash)) \X (0..3) : BitOf(ctx.hash[n[1]], n[2]) = 1}
    IN  ctx.hash # <<>> => 2 * Cardinality(ones) < Keep * Keep

(* A throw fails the job and has it retried as an infrastructure error     *)
(* (validation-pipeline.ts:42-48).  It never stands in for a rejection,    *)
(* which is final: unless all reasons are collected, where a throw loses   *)
(* those there are, no rule that is judged before the failing call is      *)
(* broken.  Blur is the first to need the pixels, Face the model and the   *)
(* canvas, Similarity the database.                                        *)
ThrowHidesNoRejection ==
    outcome = "threw" =>
        /\ ~file.pixels \/ ~file.canvas \/ down # {}
        /\ ~collectAll => \A n \in Broken(file) :
              /\ n > 4 /\ (file.pixels => n > 5)
              /\ file.pixels /\ file.canvas /\ "model" \notin down => n > 8
=============================================================================
