-------------------------- MODULE MCValidationChain --------------------------
(***************************************************************************)
(* Files on both sides of every threshold, with the default settings: 8192 *)
(* bytes, 200 by 200 pixels, variance 80, one face of at least 5 percent,  *)
(* Hamming distance 5, blocks of 8 by 8.                                   *)
(***************************************************************************)
EXTENDS ValidationChain

(* 200 x 21000 leaves 2 pixels of width after the resize to 256.           *)
Sizes == {<<199, 400>>, <<200, 200>>, <<400, 199>>, <<200, 21000>>}

Share(percent, size) == (percent * size[1] * size[2]) \div 100

(* The sets of faces found in an image of a size.                          *)
FaceSets(size) ==
    {{}, {[id |-> 1, area |-> Share(4, size)]}, {[id |-> 1, area |-> Share(5, size) + 1]},
     {[id |-> 1, area |-> Share(9, size)], [id |-> 2, area |-> Share(4, size)]}}

Contents ==
    {[header |-> TRUE, pixels |-> TRUE, canvas |-> TRUE],
     [header |-> TRUE, pixels |-> TRUE, canvas |-> FALSE],
     [header |-> TRUE, pixels |-> FALSE, canvas |-> FALSE],
     [header |-> FALSE, pixels |-> FALSE, canvas |-> FALSE]}

(* A background with ties at every level and strong coefficients at S.     *)
Block(S) == [p \in Positions |-> IF p \in S THEN 9 ELSE (p + p \div 4) % 4]

(* DC, the last position, and each bit of a digit more than once.          *)
Strong == {1, 2, 5, 8, 11, 17, 23, 34, 45, 64}

MCAccepted == {Block({})}

FileOf(mime, heic, content, bytes, size, variance, faces, block) ==
    [mime |-> mime, heicDecodes |-> heic, header |-> content.header,
     pixels |-> content.pixels, canvas |-> content.canvas,
     bytes |-> bytes[1], jpegBytes |-> bytes[2], width |-> size[1], height |-> size[2], variance |-> variance, faces |-> faces,
     block |-> block]

(* Files that break any of the rules, alone or together.                   *)
RuleFiles ==
    UNION {{FileOf(mime, heic, content, bytes, size, variance, faces, block) :
              mime \in {"image/jpeg", "image/heic", "image/gif"}, heic \in BOOLEAN,
              content \in Contents,
              bytes \in {<<8192, 8191>>, <<8191, 8192>>, <<8192, 8192>>},
              variance \in {79, 80}, faces \in FaceSets(size),
              block \in {Block({}), Block(Strong)}} :
           size \in Sizes}

(* Files that break no rule but perhaps the last.                          *)
HashFiles ==
    {FileOf("image/jpeg", FALSE, [header |-> TRUE, pixels |-> TRUE, canvas |-> TRUE],
            <<8192, 8192>>, <<200, 200>>, 80, {[id |-> 1, area |-> 2001]}, Block(S)) :
       S \in SUBSET Strong}

MCFiles == RuleFiles \cup HashFiles
=============================================================================
