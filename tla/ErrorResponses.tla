---------------------------- MODULE ErrorResponses ----------------------------
(***************************************************************************)
(* The status code a client is given for an exception.  The handler of     *)
(* AppException answers with the status the instance carries: the one its  *)
(* class passes to its base, unless its own constructor overwrites it.     *)
(* Anything that is no AppException is answered 500 by the outermost       *)
(* handler, behind all middleware.                                         *)
(***************************************************************************)
EXTENDS Integers

\* General errors, documents, and the embedding provider.
DocumentErrors ==
  [ AppException |-> 500, ConfigurationError |-> 500, EntityNotFoundError |-> 404,
    DuplicateEntityError |-> 409, IngestionError |-> 422, ParsingError |-> 422,
    EmbeddingError |-> 502, EmbeddingDimensionMismatchError |-> 502,
    EmbeddingTimeoutError |-> 504, EmbeddingRateLimitError |-> 429,
    EmbeddingAuthenticationError |-> 401 ]

\* Retrieval, reranking, context and the language model.
StageErrors ==
  [ RetrievalError |-> 500, RerankError |-> 502, RerankTimeoutError |-> 504,
    RerankAuthenticationError |-> 401, ContextError |-> 500,
    ContextBudgetExceededError |-> 400, GenerationError |-> 502,
    GenerationTimeoutError |-> 504, GenerationRateLimitError |-> 429,
    GenerationAuthenticationError |-> 401 ]

\* What a request itself is refused for.
RequestErrors ==
  [ GuardrailViolationError |-> 422, UnauthorizedError |-> 401, ForbiddenError |-> 403,
    SecurityValidationError |-> 400, RateLimitExceededError |-> 429 ]

\* Database, files, queries, and the error the orchestrator wraps others in.
ServiceErrors ==
  [ DatabaseError |-> 500, DatabaseConnectionError |-> 503, EntityConflictError |-> 409,
    FileValidationError |-> 400, UnsupportedFileTypeError |-> 415,
    FileSizeLimitExceededError |-> 413, StorageError |-> 500,
    QueryValidationError |-> 400, PipelineStageError |-> 500 ]

StatusOf ==
  [e \in DOMAIN DocumentErrors \cup DOMAIN StageErrors \cup DOMAIN RequestErrors
         \cup DOMAIN ServiceErrors |->
     CASE e \in DOMAIN DocumentErrors -> DocumentErrors[e]
       [] e \in DOMAIN StageErrors -> StageErrors[e]
       [] e \in DOMAIN RequestErrors -> RequestErrors[e]
       [] e \in DOMAIN ServiceErrors -> ServiceErrors[e]]

\* RequestValidationError: the body or a parameter does not fit its schema.
ValidationStatus == 422

\* Exception: everything without a handler of its own.
UnhandledStatus == 500

=============================================================================
