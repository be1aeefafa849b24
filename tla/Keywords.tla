------------------------------ MODULE Keywords ------------------------------
(***************************************************************************)
(* KEYWORDS_DEFS of generated/3.53.0/keywords.ts: the feature flags and,   *)
(* for each keyword, its token and the mask of the flags it belongs to.    *)
(***************************************************************************)
EXTENDS Sequences

maskFlags == [
  ALTER |-> 1, ALWAYS |-> 2, ANALYZE |-> 4, ATTACH |-> 8, AUTOINCR |-> 16,
  CAST |-> 32, COMPOUND |-> 64, CONFLICT |-> 128, EXPLAIN |-> 256,
  FKEY |-> 512, PRAGMA |-> 1024, REINDEX |-> 2048, SUBQUERY |-> 4096,
  TRIGGER |-> 8192, VACUUM |-> 16384, VIEW |-> 32768, VTAB |-> 65536,
  AUTOVACUUM |-> 131072, CTE |-> 262144, UPSERT |-> 524288,
  WINDOWFUNC |-> 1048576, GENCOL |-> 2097152, RETURNING |-> 4194304,
  ORDERSET |-> 8388608]

Keyword(name, token, mask) == [name |-> name, token |-> token, mask |-> mask]

Keywords_A_C == <<
  Keyword("ABORT", "ABORT", 8320), Keyword("ACTION", "ACTION", 512),
  Keyword("ADD", "ADD", 1), Keyword("AFTER", "AFTER", 8192),
  Keyword("ALL", "ALL", 2), Keyword("ALTER", "ALTER", 1),
  Keyword("ALWAYS", "ALWAYS", 2097152), Keyword("ANALYZE", "ANALYZE", 4),
  Keyword("AND", "AND", 2), Keyword("AS", "AS", 2), Keyword("ASC", "ASC", 2),
  Keyword("ATTACH", "ATTACH", 8), Keyword("AUTOINCREMENT", "AUTOINCR", 16),
  Keyword("BEFORE", "BEFORE", 8192), Keyword("BEGIN", "BEGIN", 2),
  Keyword("BETWEEN", "BETWEEN", 2), Keyword("BY", "BY", 2),
  Keyword("CASCADE", "CASCADE", 512), Keyword("CASE", "CASE", 2),
  Keyword("CAST", "CAST", 32), Keyword("CHECK", "CHECK", 2),
  Keyword("COLLATE", "COLLATE", 2), Keyword("COLUMN", "COLUMNKW", 1),
  Keyword("COMMIT", "COMMIT", 2), Keyword("CONFLICT", "CONFLICT", 128),
  Keyword("CONSTRAINT", "CONSTRAINT", 2), Keyword("CREATE", "CREATE", 2),
  Keyword("CROSS", "JOIN_KW", 2), Keyword("CURRENT", "CURRENT", 1048576),
  Keyword("CURRENT_DATE", "CTIME_KW", 2)>>

Keywords_C_G == <<
  Keyword("CURRENT_TIME", "CTIME_KW", 2),
  Keyword("CURRENT_TIMESTAMP", "CTIME_KW", 2),
  Keyword("DATABASE", "DATABASE", 8), Keyword("DEFAULT", "DEFAULT", 2),
  Keyword("DEFERRED", "DEFERRED", 2),
  Keyword("DEFERRABLE", "DEFERRABLE", 512), Keyword("DELETE", "DELETE", 2),
  Keyword("DESC", "DESC", 2), Keyword("DETACH", "DETACH", 8),
  Keyword("DISTINCT", "DISTINCT", 2), Keyword("DO", "DO", 524288),
  Keyword("DROP", "DROP", 2), Keyword("END", "END", 2),
  Keyword("EACH", "EACH", 8192), Keyword("ELSE", "ELSE", 2),
  Keyword("ESCAPE", "ESCAPE", 2), Keyword("EXCEPT", "EXCEPT", 64),
  Keyword("EXCLUSIVE", "EXCLUSIVE", 2),
  Keyword("EXCLUDE", "EXCLUDE", 1048576), Keyword("EXISTS", "EXISTS", 2),
  Keyword("EXPLAIN", "EXPLAIN", 256), Keyword("FAIL", "FAIL", 8320),
  Keyword("FILTER", "FILTER", 1048576), Keyword("FIRST", "FIRST", 2),
  Keyword("FOLLOWING", "FOLLOWING", 1048576), Keyword("FOR", "FOR", 8192),
  Keyword("FOREIGN", "FOREIGN", 512), Keyword("FROM", "FROM", 2),
  Keyword("FULL", "JOIN_KW", 2), Keyword("GENERATED", "GENERATED", 2)>>

Keywords_G_N == <<
  Keyword("GLOB", "LIKE_KW", 2), Keyword("GROUP", "GROUP", 2),
  Keyword("GROUPS", "GROUPS", 1048576), Keyword("HAVING", "HAVING", 2),
  Keyword("IF", "IF", 2), Keyword("IGNORE", "IGNORE", 8320),
  Keyword("IMMEDIATE", "IMMEDIATE", 2), Keyword("IN", "IN", 2),
  Keyword("INDEX", "INDEX", 2), Keyword("INDEXED", "INDEXED", 2),
  Keyword("INITIALLY", "INITIALLY", 512), Keyword("INNER", "JOIN_KW", 2),
  Keyword("INSERT", "INSERT", 2), Keyword("INSTEAD", "INSTEAD", 8192),
  Keyword("INTERSECT", "INTERSECT", 64), Keyword("INTO", "INTO", 2),
  Keyword("IS", "IS", 2), Keyword("ISNULL", "ISNULL", 2),
  Keyword("JOIN", "JOIN", 2), Keyword("KEY", "KEY", 2),
  Keyword("LAST", "LAST", 2), Keyword("LEFT", "JOIN_KW", 2),
  Keyword("LIKE", "LIKE_KW", 2), Keyword("LIMIT", "LIMIT", 2),
  Keyword("MATCH", "MATCH", 2),
  Keyword("MATERIALIZED", "MATERIALIZED", 262144),
  Keyword("NATURAL", "JOIN_KW", 2), Keyword("NO", "NO", 1049088),
  Keyword("NOT", "NOT", 2), Keyword("NOTHING", "NOTHING", 524288)>>

Keywords_N_R == <<
  Keyword("NOTNULL", "NOTNULL", 2), Keyword("NULL", "NULL", 2),
  Keyword("NULLS", "NULLS", 2), Keyword("OF", "OF", 2),
  Keyword("OFFSET", "OFFSET", 2), Keyword("ON", "ON", 2),
  Keyword("OR", "OR", 2), Keyword("ORDER", "ORDER", 2),
  Keyword("OTHERS", "OTHERS", 1048576), Keyword("OUTER", "JOIN_KW", 2),
  Keyword("OVER", "OVER", 1048576),
  Keyword("PARTITION", "PARTITION", 1048576), Keyword("PLAN", "PLAN", 256),
  Keyword("PRAGMA", "PRAGMA", 1024),
  Keyword("PRECEDING", "PRECEDING", 1048576),
  Keyword("PRIMARY", "PRIMARY", 2), Keyword("QUERY", "QUERY", 256),
  Keyword("RAISE", "RAISE", 8192), Keyword("RANGE", "RANGE", 1048576),
  Keyword("RECURSIVE", "RECURSIVE", 262144),
  Keyword("REFERENCES", "REFERENCES", 512), Keyword("REGEXP", "LIKE_KW", 2),
  Keyword("REINDEX", "REINDEX", 2048), Keyword("RELEASE", "RELEASE", 2),
  Keyword("RENAME", "RENAME", 1), Keyword("REPLACE", "REPLACE", 128),
  Keyword("RESTRICT", "RESTRICT", 512),
  Keyword("RETURNING", "RETURNING", 4194304), Keyword("RIGHT", "JOIN_KW", 2),
  Keyword("ROLLBACK", "ROLLBACK", 2)>>

Keywords_R_W == <<
  Keyword("ROW", "ROW", 8192), Keyword("ROWS", "ROWS", 2),
  Keyword("SAVEPOINT", "SAVEPOINT", 2), Keyword("SELECT", "SELECT", 2),
  Keyword("SET", "SET", 2), Keyword("TABLE", "TABLE", 2),
  Keyword("TEMP", "TEMP", 2), Keyword("TEMPORARY", "TEMP", 2),
  Keyword("THEN", "THEN", 2), Keyword("TIES", "TIES", 1048576),
  Keyword("TO", "TO", 2), Keyword("TRANSACTION", "TRANSACTION", 2),
  Keyword("TRIGGER", "TRIGGER", 8192),
  Keyword("UNBOUNDED", "UNBOUNDED", 1048576), Keyword("UNION", "UNION", 64),
  Keyword("UNIQUE", "UNIQUE", 2), Keyword("UPDATE", "UPDATE", 2),
  Keyword("USING", "USING", 2), Keyword("VACUUM", "VACUUM", 16384),
  Keyword("VALUES", "VALUES", 2), Keyword("VIEW", "VIEW", 32768),
  Keyword("VIRTUAL", "VIRTUAL", 65536), Keyword("WHEN", "WHEN", 2),
  Keyword("WHERE", "WHERE", 2), Keyword("WINDOW", "WINDOW", 1048576),
  Keyword("WITH", "WITH", 262144), Keyword("WITHIN", "WITHIN", 8388608),
  Keyword("WITHOUT", "WITHOUT", 2)>>

keywords == Keywords_A_C \o Keywords_C_G \o Keywords_G_N \o Keywords_N_R \o Keywords_R_W
=============================================================================
