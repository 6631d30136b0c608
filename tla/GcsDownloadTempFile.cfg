\* get_content on every input, objects up to one chunk above the limit, retry_count = 1.
CONSTANTS
    FileSizeLimit = 2
    RetryCount = 1
SPECIFICATION Spec
INVARIANTS TempFileRemoved
\* get_content is one call: once it has returned or raised nothing follows.
CHECK_DEADLOCK FALSE
