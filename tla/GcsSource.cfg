\* get_docs over three buckets on three pages (one empty), retry_count = 1.
CONSTANTS
    b1 = b1
    b2 = b2
    b3 = b3
    x1 = x1
    x2 = x2
    x3 = x3
    x4 = x4
    Buckets <- MCBuckets
    Blobs <- MCBlobs
    BucketPages <- MCBucketPages
    BlobPages <- MCBlobPages
    RetryCount = 1
SPECIFICATION Spec
INVARIANTS CompleteListing RaisesOnlyWhenExhausted ListingInv
PROPERTIES GetDocsTerminates
\* get_docs is a generator that ends: a finished listing has no next step.
CHECK_DEADLOCK FALSE
