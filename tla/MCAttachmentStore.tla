------------------------- MODULE MCAttachmentStore -------------------------
(* Instance of AttachmentStore for TLC.                                    *)
EXTENDS AttachmentStore

CONSTANTS u1, u2, den, good, bad

TwoUploads == {u1, u2}
OneRoom == {den}
\* A ciphertext of the right length and one of a wrong length.
TwoBlobs == {good, bad}
OneBlob == {good}

=============================================================================
