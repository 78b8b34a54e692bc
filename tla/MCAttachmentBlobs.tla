------------------------- MODULE MCAttachmentBlobs -------------------------
EXTENDS AttachmentBlobs, TLC

Symmetry == Permutations(Atts) \cup Permutations(Keys)
              \cup Permutations(Requests) \cup Permutations(Workers)
=============================================================================
